----------------------------- MODULE FlightProofs -----------------------------
(***************************************************************************)
(* Proofs about Flight, for every size of the arena, speed, damping and    *)
(* length of a frame that the assumptions of Motion allow.                 *)
(*                                                                         *)
(* SpeedInv: a scaled number, rounded either way, stays between integers   *)
(* that bound it; the speed limit is inductive only with the signs of      *)
(* Between in place of the absolute value.  That a view holds is then a    *)
(* bound on one step of easing from a state within the limit.              *)
(*                                                                         *)
(* TouchInv: raySphere's discriminant and its two ends agree with the      *)
(* nearest point of the segment swept (RayIsTouch), so a bullet that flies *)
(* on has not touched.  A bullet that comes out behind a ship untouched is *)
(* more than half the chord behind it, and was more than half the chord in *)
(* front of it if it was tested then, too (MissedAhead): what made up the  *)
(* distance is the ship's own motion (Crossing).                           *)
(***************************************************************************)
EXTENDS Flight, TLAPS

LEMMA DivBounds ==
  ASSUME NEW m \in Int, NEW d \in Nat \ {0}
  PROVE  /\ m \div d \in Int
         /\ (m \div d) * d <= m
         /\ m < (m \div d) * d + d
  OBVIOUS

LEMMA DivAtMost ==
  ASSUME NEW m \in Int, NEW d \in Nat \ {0}, NEW k \in Int, m <= k * d
  PROVE  m \div d <= k
<1>1. SUFFICES ASSUME ~(m \div d <= k) PROVE FALSE
  OBVIOUS
<1>2. PICK q \in Int : q = m \div d
  BY DivBounds
<1>3. k + 1 <= q
  BY <1>1, <1>2
<1>4. (k + 1) * d <= q * d
  BY <1>3
<1>5. (k + 1) * d = k * d + d
  OBVIOUS
<1> QED
  BY <1>2, <1>4, <1>5, DivBounds

LEMMA DivAtLeast ==
  ASSUME NEW m \in Int, NEW d \in Nat \ {0}, NEW k \in Int, k * d <= m
  PROVE  k <= m \div d
<1>1. SUFFICES ASSUME ~(k <= m \div d) PROVE FALSE
  OBVIOUS
<1>2. PICK q \in Int : q = m \div d
  BY DivBounds
<1>3. q + 1 <= k
  BY <1>1, <1>2
<1>4. (q + 1) * d <= k * d
  BY <1>3
<1>5. (q + 1) * d = q * d + d
  OBVIOUS
<1> QED
  BY <1>2, <1>4, <1>5, DivBounds


\* A scaled number, rounded either way, stays between integers that bound it.
LEMMA ScaledWithin ==
  ASSUME NEW n \in Int, NEW num \in Int, NEW den \in Nat \ {0}, NEW lo \in Int, NEW hi \in Int,
         lo * den <= n * num, n * num <= hi * den, NEW v \in Scaled(n, num, den)
  PROVE  v \in Int /\ lo <= v /\ v <= hi
<1> DEFINE m == n * num
<1>1. m \in Int /\ -m \in Int
  OBVIOUS
<1>2. CASE v = m \div den
  BY <1>1, <1>2, DivBounds, DivAtMost, DivAtLeast
<1>3. CASE v = -((-m) \div den)
  <2>1. (-hi) * den <= -m /\ -m <= (-lo) * den
    OBVIOUS
  <2>2. (-m) \div den \in Int
    BY <1>1, DivBounds
  <2>3. -hi <= (-m) \div den
    BY <1>1, <2>1, DivAtLeast
  <2>4. (-m) \div den <= -lo
    BY <1>1, <2>1, DivAtMost
  <2> QED
    BY <1>3, <2>2, <2>3, <2>4
<1> QED
  BY <1>2, <1>3 DEF Scaled

Between(n, m) == -m <= n /\ n <= m

LEMMA AbsBetween == ASSUME NEW n \in Int, NEW m \in Int PROVE Abs(n) <= m <=> Between(n, m)
  BY DEF Abs, Most, Between

LEMMA Limits ==
  /\ Terminal \in Nat /\ Fastest \in Nat
  /\ \A dt \in 1..MaxDt : Thrust * dt \in Nat /\ Terminal + Thrust * dt <= Fastest
<1>1. Thrust * Damping \in Nat /\ Thrust * MaxDt \in Nat
  BY MotionAssumption
<1>2. ASSUME NEW dt \in 1..MaxDt PROVE Thrust * dt \in Nat /\ Thrust * dt <= Thrust * MaxDt
  BY MotionAssumption
<1> QED
  BY <1>1, <1>2 DEF Terminal, Fastest

\* Damping takes away at least what a frame of thrust adds to the terminal
\* speed: (D + t)(D - t) <= D * D.
LEMMA DampedBound ==
  ASSUME NEW dt \in 1..MaxDt, NEW v \in Int, Between(v, Terminal + Thrust * dt),
         NEW w \in Damped(v, dt)
  PROVE  w \in Int /\ Between(w, Terminal)
<1> DEFINE k == Damping - dt
<1>1. /\ Damping \in Nat \ {0} /\ Thrust \in Nat /\ dt \in Nat /\ k \in Nat
      /\ Most(0, Damping - dt) = k
  BY MotionAssumption DEF Most
<1>2. /\ v * k <= (Terminal + Thrust * dt) * k
      /\ (-(Terminal + Thrust * dt)) * k <= v * k
  BY <1>1, Limits DEF Between
<1>3. (Terminal + Thrust * dt) * k <= Terminal * Damping
  <2>1. (Terminal + Thrust * dt) * k = Thrust * (Damping * Damping - dt * dt)
    BY <1>1 DEF Terminal
  <2>2. Terminal * Damping = Thrust * (Damping * Damping)
    BY <1>1 DEF Terminal
  <2>3. dt * dt \in Nat /\ Damping * Damping \in Nat
    BY <1>1
  <2>4. Thrust * (Damping * Damping - dt * dt) <= Thrust * (Damping * Damping)
    BY <1>1, <2>3
  <2> QED
    BY <2>1, <2>2, <2>4
<1>4. v * k <= Terminal * Damping /\ (-Terminal) * Damping <= v * k
  <2>1. (-Terminal) * Damping = -(Terminal * Damping)
    BY <1>1, Limits
  <2>2. (-(Terminal + Thrust * dt)) * k = -((Terminal + Thrust * dt) * k)
    BY <1>1, Limits
  <2> QED
    BY <1>1, <1>2, <1>3, <2>1, <2>2, Limits
<1>5. w \in Scaled(v, k, Damping)
  BY <1>1 DEF Damped
<1> QED
  BY <1>1, <1>4, <1>5, Limits, ScaledWithin DEF Between

Bodies == [pos : Int, vel : Int]

LEMMA BoundsKept ==
  ASSUME NEW b \in Bodies, NEW k \in Nat, Between(b.vel, k), NEW c \in KeptInBounds(b)
  PROVE  c \in [pos : Inside, vel : Int] /\ Between(c.vel, k)
<1> HalfExtent \in Nat
  BY MotionAssumption
<1>1. CASE b.pos \in Inside
  BY <1>1 DEF KeptInBounds, Bodies
<1>2. CASE b.pos \notin Inside
  <2>1. PICK v \in Scaled(-b.vel, 2, 5) :
           c = [pos |-> IF b.pos > HalfExtent THEN HalfExtent ELSE -HalfExtent, vel |-> v]
    BY <1>2 DEF KeptInBounds
  <2>2. -b.vel \in Int /\ (-k) * 5 <= (-b.vel) * 2 /\ (-b.vel) * 2 <= k * 5
    BY DEF Between, Bodies
  <2>3. v \in Int /\ Between(v, k)
    BY <2>2, ScaledWithin DEF Between
  <2> QED
    BY <2>1, <2>3 DEF Inside
<1> QED
  BY <1>1, <1>2

LEMMA MovedBody ==
  ASSUME NEW dt \in 1..MaxDt, NEW b \in Bodies, NEW living \in BOOLEAN,
         Between(b.vel, IF living THEN Terminal + Thrust * dt ELSE Fastest),
         NEW c \in Moved(b, living, dt)
  PROVE  /\ c \in [pos : Inside, vel : Int]
         /\ Between(c.vel, IF living THEN Terminal ELSE Fastest)
<1>1. PICK a \in Updated(b, living, dt) : c \in KeptInBounds(a)
  BY DEF Moved
<1>2. a \in Bodies /\ Between(a.vel, IF living THEN Terminal ELSE Fastest)
  <2>1. CASE living
    <3>1. PICK v \in Damped(b.vel, dt) : a = [pos |-> b.pos + b.vel * dt, vel |-> v]
      BY <1>1, <2>1 DEF Updated, Integrated
    <3>2. b.vel \in Int /\ b.pos + b.vel * dt \in Int
      BY MotionAssumption DEF Bodies
    <3>3. v \in Int /\ Between(v, Terminal)
      BY <2>1, <3>2, DampedBound
    <3> QED
      BY <2>1, <3>1, <3>2, <3>3 DEF Bodies
  <2>2. CASE ~living
    BY <1>1, <2>2 DEF Updated
  <2> QED
    BY <2>1, <2>2
<1> QED
  BY <1>1, <1>2, BoundsKept, Limits

\* Easing moves the view, not its velocity.
LEMMA EasedBody ==
  ASSUME NEW dt \in 1..MaxDt, NEW b \in Bodies, NEW to \in Int, NEW c \in Eased(b, to, dt)
  PROVE  c \in Bodies /\ c.vel = b.vel
<1>1. PICK d \in Scaled(to - b.pos, Least(dt, Ease), Ease) : c = [b EXCEPT !.pos = b.pos + d]
  BY DEF Eased
<1>2. d \in Int
  <2>1. /\ Ease \in Nat \ {0} /\ Least(dt, Ease) \in Int /\ to - b.pos \in Int
        /\ (to - b.pos) * Least(dt, Ease) \in Int
    BY MotionAssumption DEF Least, Bodies
  <2> QED
    BY <2>1, DivBounds DEF Scaled
<1> QED
  BY <1>1, <1>2 DEF Bodies

-----------------------------------------------------------------------------
(* Speeds *)

Limit(living) == IF living THEN Terminal ELSE Fastest

\* The damping of a frame presupposes the speed limit, and restores it.
SpeedInv ==
    /\ MotionTypeOK
    /\ Between(body.vel, Limit(alive))

LEMMA SpeedInit == Init => SpeedInv
<1> SUFFICES ASSUME Init PROVE SpeedInv
  OBVIOUS
<1> USE Limits, MotionAssumption DEF SpeedInv, MotionTypeOK, Between, Limit
<1>1. CASE kind = "local"
  <2>1. PICK p \in (-SpawnExtent)..SpawnExtent : body = [pos |-> p, vel |-> 0]
    BY <1>1 DEF Init, MotionInit
  <2>2. alive = TRUE /\ target = 0
    BY <1>1 DEF Init, MotionInit
  <2> QED
    BY <1>1, <2>1, <2>2 DEF Inside
<1>2. CASE kind # "local"
  <2>1. PICK r \in Reports :
           kind = "remote" /\ body = [pos |-> r.pos, vel |-> r.vel] /\ alive = r.alive /\ target = r.pos
    BY <1>2 DEF Init, MotionInit
  <2>2. r.pos \in Inside /\ r.vel \in (-Fastest)..Fastest /\ r.alive \in BOOLEAN
        /\ (r.alive => Abs(r.vel) <= Terminal)
    BY DEF Reports
  <2> QED
    BY <2>1, <2>2, AbsBetween
<1> QED
  BY <1>1, <1>2

LEMMA LocalSpeeds == ASSUME SpeedInv, NEW dt \in 1..MaxDt, LocalFrame(dt) PROVE SpeedInv'
<1> USE DEF SpeedInv, MotionTypeOK, Limit
<1>1. kind = "local" /\ kind' = kind /\ target' = target
  BY DEF LocalFrame
<1>2. PICK f \in (-Thrust)..Thrust, struck \in BOOLEAN :
         LET pushed == IF alive THEN AddForce(body, f, dt) ELSE body
             living == alive /\ ~struck
         IN  \/ body' \in Moved(pushed, living, dt) /\ alive' = living
             \/ /\ ~alive
                /\ \E p \in (-SpawnExtent)..SpawnExtent : body' = [pos |-> p, vel |-> 0]
                /\ alive' = TRUE
  BY Zenon DEF LocalFrame
<1> DEFINE pushed == IF alive THEN AddForce(body, f, dt) ELSE body
           living == alive /\ ~struck
<1>3. CASE body' \in Moved(pushed, living, dt) /\ alive' = living
  <2>1. /\ pushed \in Bodies /\ living \in BOOLEAN
        /\ Between(pushed.vel, IF living THEN Terminal + Thrust * dt ELSE Fastest)
    <3>1. Inside \subseteq Int /\ Thrust \in Nat
      BY MotionAssumption DEF Inside
    <3>2. CASE alive
      <4>1. f * dt \in Int /\ Between(f * dt, Thrust * dt)
        BY <3>1, MotionAssumption DEF Between
      <4>2. pushed.pos = body.pos /\ pushed.vel = body.vel + f * dt /\ pushed \in Bodies
        BY <3>1, <3>2, <4>1 DEF AddForce, Bodies
      <4> QED
        BY <3>2, <4>1, <4>2, Limits DEF Between
    <3>3. CASE ~alive
      BY <3>1, <3>3, Limits DEF Between, Bodies
    <3> QED
      BY <3>2, <3>3
  <2> HIDE DEF pushed, living
  <2>2. /\ body' \in [pos : Inside, vel : Int]
        /\ Between(body'.vel, IF living THEN Terminal ELSE Fastest)
    BY <1>3, <2>1, MovedBody
  <2> QED
    BY <1>1, <1>3, <2>1, <2>2
<1>4. CASE /\ \E p \in (-SpawnExtent)..SpawnExtent : body' = [pos |-> p, vel |-> 0]
           /\ alive' = TRUE
  BY <1>1, <1>4, Limits, MotionAssumption DEF Inside, Between
<1> QED
  BY <1>2, <1>3, <1>4

\* A view that has the speed of a report keeps the limit; the bullet can only
\* kill it.
LEMMA RemoteSpeeds ==
  ASSUME NEW dt \in 1..MaxDt, NEW view \in [pos : Inside, vel : Int], NEW living \in BOOLEAN,
         NEW to \in Inside, Between(view.vel, Limit(living)),
         RemoteFrame(dt, view, living, to), alive' \in BOOLEAN, alive' => living
  PROVE  SpeedInv'
<1>1. PICK b \in Eased(view, to, dt) : body' \in Moved(b, living, dt)
  BY DEF RemoteFrame
<1>2. view \in Bodies /\ to \in Int
  BY MotionAssumption DEF Bodies, Inside
<1>3. b \in Bodies /\ Between(b.vel, Limit(living))
  BY <1>2, EasedBody
<1>4. Between(b.vel, IF living THEN Terminal + Thrust * dt ELSE Fastest)
  BY <1>3, Limits DEF Between, Limit, Bodies
<1>5. body' \in [pos : Inside, vel : Int] /\ Between(body'.vel, Limit(living))
  BY <1>1, <1>3, <1>4, MovedBody DEF Limit
<1>6. Between(body'.vel, Limit(alive'))
  BY <1>5, Limits DEF Between, Limit
<1>7. kind' = "remote" /\ target' = to
  BY DEF RemoteFrame
<1> QED
  BY <1>5, <1>6, <1>7 DEF SpeedInv, MotionTypeOK

\* A bullet kills or leaves alive what is alive, and revives nothing.
LEMMA TestedKills ==
  ASSUME NEW shot, NEW living \in BOOLEAN, NEW dt, Tested(shot, living, dt)
  PROVE  alive' \in BOOLEAN /\ (alive' => living)
  BY DEF Tested

\* The two ways a frame moves a view: with what it has been told, or with a
\* report that has arrived.
LEMMA FrameMoves ==
  ASSUME SpeedInv, NEW dt \in 1..MaxDt, Frame(dt)
  PROVE  \E view \in [pos : Inside, vel : Int], living \in BOOLEAN, to \in Inside :
            /\ view.pos = body.pos /\ Between(view.vel, Limit(living))
            /\ RemoteFrame(dt, view, living, to)
            /\ alive' \in BOOLEAN /\ (alive' => living)
<1> USE DEF SpeedInv, MotionTypeOK
<1>1. PICK shot \in Loaded :
         \/ RemoteFrame(dt, body, alive, target) /\ Tested(shot, alive, dt)
         \/ \E r \in Reports :
               /\ RemoteFrame(dt, [body EXCEPT !.vel = r.vel], r.alive, r.pos)
               /\ Tested(shot, r.alive, dt)
  BY Zenon DEF Frame
<1>2. CASE RemoteFrame(dt, body, alive, target) /\ Tested(shot, alive, dt)
  BY <1>2, TestedKills
<1>3. ASSUME NEW r \in Reports,
             RemoteFrame(dt, [body EXCEPT !.vel = r.vel], r.alive, r.pos), Tested(shot, r.alive, dt)
      PROVE  \E view \in [pos : Inside, vel : Int], living \in BOOLEAN, to \in Inside :
                /\ view.pos = body.pos /\ Between(view.vel, Limit(living))
                /\ RemoteFrame(dt, view, living, to)
                /\ alive' \in BOOLEAN /\ (alive' => living)
  <2> DEFINE view == [body EXCEPT !.vel = r.vel]
  <2>1. /\ r.pos \in Inside /\ r.vel \in Int /\ r.alive \in BOOLEAN
        /\ Between(r.vel, Limit(r.alive))
    <3>1. /\ r.pos \in Inside /\ r.vel \in (-Fastest)..Fastest /\ r.alive \in BOOLEAN
          /\ (r.alive => Abs(r.vel) <= Terminal)
      BY MotionAssumption DEF Reports
    <3>2. r.vel \in Int /\ Between(r.vel, Fastest)
      BY <3>1, Limits DEF Between
    <3>3. r.alive => Between(r.vel, Terminal)
      BY <3>1, <3>2, Limits, AbsBetween
    <3> QED
      BY <3>1, <3>2, <3>3, Zenon DEF Limit
  <2>2. view \in [pos : Inside, vel : Int] /\ view.pos = body.pos /\ view.vel = r.vel
    BY <2>1
  <2>3. alive' \in BOOLEAN /\ (alive' => r.alive)
    BY <1>3, <2>1, TestedKills
  <2> QED
    BY <1>3, <2>1, <2>2, <2>3
<1> QED
  BY <1>1, <1>2, <1>3

LEMMA SpeedInductive == Spec => []SpeedInv
<1>1. ASSUME SpeedInv, [Next]_vars PROVE SpeedInv'
  <2>1. ASSUME NEW dt \in 1..MaxDt, Frame(dt) PROVE SpeedInv'
    BY <1>1, <2>1, FrameMoves, RemoteSpeeds
  <2>2. ASSUME NEW dt \in 1..MaxDt, LocalFrame(dt) PROVE SpeedInv'
    BY <1>1, <2>2, LocalSpeeds
  <2>3. CASE UNCHANGED vars
    BY <1>1, <2>3 DEF vars, motionVars, SpeedInv, MotionTypeOK
  <2> QED
    BY <1>1, <2>1, <2>2, <2>3 DEF Next
<1> QED
  BY <1>1, SpeedInit, PTL DEF Spec

\* No sequence of frames, boosts, bounces, deaths and reports takes a ship out
\* of the walls or above the speed at which damping cancels thrust.
THEOREM SpeedsBounded == Spec => []ShipBounded
<1>1. SpeedInv => ShipBounded
  <2> SUFFICES ASSUME SpeedInv PROVE ShipBounded
    OBVIOUS
  <2>1. body.pos \in Inside /\ body.vel \in Int /\ alive \in BOOLEAN /\ Between(body.vel, Limit(alive))
    BY DEF SpeedInv, MotionTypeOK
  <2> QED
    BY <2>1, AbsBetween, Limits DEF ShipBounded, Limit
<1> QED
  BY <1>1, SpeedInductive, PTL

-----------------------------------------------------------------------------
(* Views *)

\* Easing closes at least as much of a large distance as the fastest ship can
\* open in the same time, and leaves room for it in a small one.
LEMMA EasedCloser ==
  ASSUME NEW dt \in 1..MaxDt, NEW b \in Bodies, NEW to \in Int, NEW c \in Eased(b, to, dt),
         NEW m \in Nat, Between(b.pos - to, m), Terminal * Ease <= m
  PROVE  Terminal * dt <= m /\ Between(c.pos - to, m - Terminal * dt)
<1> DEFINE g == to - b.pos
           lo == g - m + Terminal * dt
           hi == g + m - Terminal * dt
<1>1. /\ Ease \in Nat \ {0} /\ dt \in Nat /\ dt <= Ease /\ Terminal \in Nat
      /\ Least(dt, Ease) = dt /\ g \in Int /\ b.pos \in Int
  <2>1. Ease \in Nat \ {0} /\ MaxDt \in Nat /\ MaxDt <= Ease /\ Terminal \in Nat
    BY MotionAssumption, Limits
  <2>2. dt \in Nat /\ dt <= Ease /\ Least(dt, Ease) = dt
    BY <2>1 DEF Least
  <2>3. b.pos \in Int /\ g \in Int
    BY DEF Bodies
  <2> QED
    BY <2>1, <2>2, <2>3
<1>2. PICK d \in Scaled(g, dt, Ease) : c = [b EXCEPT !.pos = b.pos + d]
  BY <1>1 DEF Eased
<1>3. Terminal * dt \in Nat /\ Terminal * dt <= Terminal * Ease /\ Terminal * Ease \in Nat
  BY <1>1
<1>4. -m <= g /\ g <= m
  BY <1>1 DEF Between
<1>5. lo * Ease <= g * dt /\ g * dt <= hi * Ease
  <2> DEFINE k == Ease - dt
  <2>1. k \in Nat /\ g * k <= m * k /\ (-m) * k <= g * k
    BY <1>1, <1>4
  <2>2. (Terminal * Ease) * dt <= m * dt
    BY <1>1, <1>3
  <2>3. m * k = m * Ease - m * dt /\ (-m) * k = m * dt - m * Ease /\ g * k = g * Ease - g * dt
    BY <1>1
  <2>4. /\ lo * Ease = g * Ease - m * Ease + (Terminal * Ease) * dt
        /\ hi * Ease = g * Ease + m * Ease - (Terminal * Ease) * dt
    BY <1>1
  <2>5. /\ {g * Ease, g * dt, m * Ease, m * dt, (Terminal * Ease) * dt} \subseteq Int
        /\ {m * k, (-m) * k, g * k} \subseteq Int
    BY <1>1, <1>3, <2>1
  <2> HIDE DEF g, k, lo, hi
  <2> QED
    BY <2>1, <2>2, <2>3, <2>4, <2>5
<1>6. d \in Int /\ lo <= d /\ d <= hi
  <2>1. lo \in Int /\ hi \in Int
    BY <1>1, <1>3
  <2> QED
    BY <1>1, <1>2, <1>5, <2>1, ScaledWithin
<1>7. c.pos = b.pos + d
  BY <1>2 DEF Bodies
<1> QED
  BY <1>1, <1>3, <1>6, <1>7 DEF Between

LEMMA ViewStep ==
  ASSUME NEW dt \in 1..MaxDt, NEW view \in [pos : Inside, vel : Int], NEW living \in BOOLEAN,
         NEW to \in Inside, Between(view.vel, Limit(living)), RemoteFrame(dt, view, living, to),
         NEW m \in Nat, Between(view.pos - to, m), Terminal * Ease <= m
  PROVE  Between(body'.pos - to, m)
<1> HalfExtent \in Nat
  BY MotionAssumption
<1>1. PICK b \in Eased(view, to, dt) : body' \in Moved(b, living, dt)
  BY DEF RemoteFrame
<1>2. PICK a \in Updated(b, living, dt) : body' \in KeptInBounds(a)
  BY <1>1 DEF Moved
<1>3. view \in Bodies /\ to \in Int
  BY DEF Bodies, Inside
<1>4. /\ b \in Bodies /\ b.vel = view.vel /\ b.pos \in Int /\ b.vel \in Int
      /\ Terminal * dt <= m /\ Between(b.pos - to, m - Terminal * dt)
  BY <1>1, <1>3, EasedBody, EasedCloser DEF Bodies
<1>5. a.pos \in Int /\ Between(a.pos - to, m)
  <2>1. dt \in Nat /\ Terminal \in Nat /\ Terminal * dt \in Nat
    BY MotionAssumption, Limits
  <2>2. CASE living
    <3>1. a.pos = b.pos + b.vel * dt
      BY <1>2, <2>2 DEF Updated, Integrated
    <3>2. -Terminal <= b.vel /\ b.vel <= Terminal
      BY <1>4, <2>2 DEF Between, Limit
    <3>3. b.vel * dt \in Int /\ b.vel * dt <= Terminal * dt /\ -(Terminal * dt) <= b.vel * dt
      BY <1>4, <2>1, <3>2
    <3> QED
      BY <1>3, <1>4, <2>1, <3>1, <3>3 DEF Between
  <2>3. CASE ~living
    <3>1. a = b
      BY <1>2, <2>3 DEF Updated
    <3> QED
      BY <1>3, <1>4, <2>1, <3>1 DEF Between
  <2> QED
    BY <2>2, <2>3
<1>6. body'.pos = IF a.pos \in Inside THEN a.pos
                  ELSE IF a.pos > HalfExtent THEN HalfExtent ELSE -HalfExtent
  BY <1>2 DEF KeptInBounds
<1> QED
  BY <1>5, <1>6 DEF Inside, Between

\* Easing, physics and walls together never drive a view away from the place
\* last reported, beyond what the fastest ship flies while a view is eased.
THEOREM ViewsHold == Spec => ViewHolds
<1>1. ASSUME SpeedInv, [Next]_vars
      PROVE  [kind = "remote" =>
                 Abs(body'.pos - target') <= Most(Abs(body.pos - target'), Terminal * Ease)]_motionVars
  <2>1. ASSUME NEW dt \in 1..MaxDt, Frame(dt)
        PROVE  Abs(body'.pos - target') <= Most(Abs(body.pos - target'), Terminal * Ease)
    <3>1. PICK view \in [pos : Inside, vel : Int], living \in BOOLEAN, to \in Inside :
             /\ view.pos = body.pos /\ Between(view.vel, Limit(living))
             /\ RemoteFrame(dt, view, living, to)
             /\ alive' \in BOOLEAN /\ (alive' => living)
      BY <1>1, <2>1, FrameMoves, Zenon
    <3>2. target' = to
      BY <3>1 DEF RemoteFrame
    <3> DEFINE far == Abs(view.pos - to)
               m == Most(far, Terminal * Ease)
    <3>3. view.pos \in Int /\ to \in Int /\ Terminal * Ease \in Nat
      BY Limits, MotionAssumption DEF Inside
    <3>4. far \in Nat /\ Between(view.pos - to, far)
      BY <3>3 DEF Abs, Most, Between
    <3>5. m \in Nat /\ Terminal * Ease <= m /\ Between(view.pos - to, m)
      BY <3>3, <3>4 DEF Most, Between
    <3> HIDE DEF far, m
    <3>6. Between(body'.pos - to, m)
      BY <3>1, <3>5, ViewStep
    <3>7. body'.pos - to \in Int
      <4>1. SpeedInv'
        BY <3>1, RemoteSpeeds
      <4> QED
        BY <3>3, <4>1, MotionAssumption DEF SpeedInv, MotionTypeOK, Inside
    <3>8. Abs(body'.pos - to) <= m
      BY <3>5, <3>6, <3>7, AbsBetween
    <3> QED
      BY <3>1, <3>2, <3>8 DEF m, far
  <2>2. ASSUME NEW dt \in 1..MaxDt, LocalFrame(dt) PROVE kind # "remote"
    BY <2>2 DEF LocalFrame
  <2>3. CASE UNCHANGED vars
    BY <2>3 DEF vars
  <2> QED
    BY <1>1, <2>1, <2>2, <2>3 DEF Next
<1> QED
  BY <1>1, SpeedInductive, PTL DEF Spec, ViewHolds

-----------------------------------------------------------------------------
(* The swept test *)

\* In the frame of the bullet's line the ship is at distance -b along it and s
\* beside it.  What raySphere decides by a discriminant is whether the point
\* of the segment that is nearest to the ship is within its radius.
LEMMA RayIsTouch ==
  ASSUME NEW p \in Int, NEW c \in Int, NEW s \in Int, NEW len \in Nat
  PROVE  LET d == Minus(Plus(<<p, 0>>, Most(0, Least(Dot(Minus(<<c, s>>, <<p, 0>>), Dir), len)), Dir), <<c, s>>)
         IN  RaySphere(<<p, 0>>, <<c, s>>, len) <=> Dot(d, d) <= Radius * Radius
<1> DEFINE b == p - c
           disc == Radius * Radius - s * s
           t == Most(0, Least(-b, len))
           d == Minus(Plus(<<p, 0>>, t, Dir), <<c, s>>)
           beyond == -b - len
<1>1. Radius \in Nat /\ disc \in Int /\ b \in Int /\ beyond \in Int
  BY FlightAssumption
<1>2. Dot(Minus(<<c, s>>, <<p, 0>>), Dir) = -b
  BY DEF Dot, Minus, Plus, Dir
<1>3. t \in Int /\ t = (IF -b <= 0 THEN 0 ELSE IF -b < len THEN -b ELSE len)
  BY <1>1 DEF Most, Least
<1>4. Dot(d, d) = (t + b) * (t + b) + s * s
  <2>1. d = <<p + t - c, -s>>
    BY <1>3 DEF Minus, Plus, Dir
  <2>2. (-s) * (-s) = s * s
    OBVIOUS
  <2>3. p + t - c = t + b
    BY <1>3
  <2> HIDE DEF d, t, b
  <2> QED
    BY <2>1, <2>2, <2>3 DEF Dot
<1>5. RaySphere(<<p, 0>>, <<c, s>>, len) <=>
         /\ ~(b * b - disc > 0 /\ b > 0)
         /\ disc >= 0
         /\ beyond <= 0 \/ beyond * beyond <= disc
  <2> DEFINE oc == Minus(<<p, 0>>, <<c, s>>)
             cc == Dot(oc, oc) - Radius * Radius
             bb == Dot(oc, Dir)
  <2>1. oc = <<b, -s>>
    BY DEF Minus, Plus
  <2>2. bb = b
    BY <1>1, <2>1 DEF Dot, Dir
  <2>3. Dot(oc, oc) = b * b + s * s
    <3>1. (-s) * (-s) = s * s
      OBVIOUS
    <3> HIDE DEF b
    <3> QED
      BY <1>1, <2>1, <3>1 DEF Dot
  <2>4. cc = b * b - disc
    <3>1. b * b \in Int /\ s * s \in Int /\ Radius * Radius \in Int
      BY <1>1
    <3> HIDE DEF b
    <3> QED
      BY <2>3, <3>1
  <2>5. RaySphere(<<p, 0>>, <<c, s>>, len) <=>
           /\ ~(cc > 0 /\ bb > 0)
           /\ bb * bb - cc >= 0
           /\ -bb - len <= 0 \/ (-bb - len) * (-bb - len) <= bb * bb - cc
    BY DEF RaySphere
  <2>6. bb * bb - cc = disc
    <3>1. b * b \in Int
      BY <1>1
    <3> HIDE DEF b, disc, cc, bb, oc
    <3> QED
      BY <1>1, <2>2, <2>4, <3>1
  <2> HIDE DEF cc, bb, oc
  <2> QED
    BY <2>2, <2>4, <2>5, <2>6
<1>6. Dot(d, d) <= Radius * Radius <=> (t + b) * (t + b) <= disc
  <2>1. {(t + b) * (t + b), s * s, Radius * Radius} \subseteq Int
    BY <1>1, <1>3
  <2> HIDE DEF t, b, d
  <2> QED
    BY <1>4, <2>1
<1>7. b * b \in Int /\ beyond * beyond \in Int /\ b * b >= 0
  BY <1>1
<1>8. (t + b) * (t + b) <= disc <=>
         /\ ~(b * b - disc > 0 /\ b > 0)
         /\ disc >= 0
         /\ beyond <= 0 \/ beyond * beyond <= disc
  <2>1. CASE b >= 0
    <3>1. t = 0 /\ (t + b) * (t + b) = b * b /\ beyond <= 0
      BY <1>1, <1>3, <2>1
    <3>2. b > 0 \/ b * b = 0
      BY <1>1, <2>1
    <3> HIDE DEF b, disc, t, beyond
    <3> QED
      BY <1>1, <1>7, <2>1, <3>1, <3>2
  <2>2. CASE b < 0 /\ -b < len
    <3>1. t = -b /\ beyond <= 0
      BY <1>1, <1>3, <2>2
    <3>2. (t + b) * (t + b) = 0
      BY <1>1, <3>1
    <3> HIDE DEF b, disc, t, beyond
    <3> QED
      BY <1>1, <1>7, <2>2, <3>1, <3>2
  <2>3. CASE b < 0 /\ -b >= len
    <3>1. t = len /\ beyond >= 0
      BY <1>1, <1>3, <2>3
    <3>2. (t + b) * (t + b) = beyond * beyond /\ (beyond = 0 => beyond * beyond = 0) /\ beyond * beyond >= 0
      <4>1. t + b = -beyond
        BY <1>1, <3>1
      <4> HIDE DEF b, t, beyond
      <4> QED
        BY <1>1, <4>1
    <3> HIDE DEF b, disc, t, beyond
    <3> QED
      BY <1>1, <1>7, <2>3, <3>1, <3>2
  <2> QED
    BY <1>1, <2>1, <2>2, <2>3
<1> HIDE DEF b, disc, beyond
<1> QED
  BY <1>2, <1>5, <1>6, <1>8

Bullets == [state : {"none", "flying", "hit", "spent"}, pos : Int \X {0}, speed : Nat, life : Int]

\* Only a client that shows the ship as a view tests its bullets against it.
TouchInv ==
    /\ SpeedInv /\ HitIsTouch
    /\ kind = "local" => bullet.state = "none"

LEMMA LoadedTyped ==
  ASSUME bullet \in Bullets, NEW shot \in Loaded
  PROVE  shot \in Bullets /\ (shot.state = "flying" \/ shot.state = "none" \/ shot = bullet)
<1>1. \A v \in Speeds : Abs(Speed + v) \in Nat
  <2> SUFFICES ASSUME NEW v \in Speeds PROVE Abs(Speed + v) \in Nat
    OBVIOUS
  <2>1. Speed + v \in Int
    BY FlightAssumption, MotionAssumption, Limits
  <2> QED
    BY <2>1 DEF Abs, Most
<1>2. Shots \subseteq Bullets
  <2>1. Places \subseteq Int /\ Life \in Int
    BY MotionAssumption, FlightAssumption DEF Inside
  <2> SUFFICES ASSUME NEW x \in Shots PROVE x \in Bullets
    OBVIOUS
  <2>2. /\ x = [state |-> x.state, pos |-> x.pos, speed |-> x.speed, life |-> x.life]
        /\ x.state = "flying" /\ x.pos \in Places \X {0} /\ x.life = Life
        /\ \E v \in Speeds : x.speed = Abs(Speed + v)
    BY DEF Shots
  <2> QED
    BY <1>1, <2>1, <2>2 DEF Bullets
<1>3. None \in Bullets /\ None.state = "none"
  BY DEF None, Bullets
<1>4. \A x \in Shots : x.state = "flying"
  BY DEF Shots
<1> QED
  BY <1>2, <1>3, <1>4 DEF Loaded

\* Whatever a test decides is what Nearest says of it afterwards.
LEMMA TestedTouches ==
  ASSUME NEW shot \in Bullets, shot.state \in {"none", "flying"}, NEW living \in BOOLEAN, NEW dt \in Nat,
         Tested(shot, living, dt), body'.pos \in Int, side' \in Int, side' = side,
         swept \in [len : Nat, live : BOOLEAN]
  PROVE  /\ bullet' \in Bullets /\ swept' \in [len : Nat, live : BOOLEAN]
         /\ bullet'.state # "none" =>
               LET d == Minus(Nearest', Center(body'))
               IN  bullet'.state = "hit" <=> swept'.live /\ Dot(d, d) <= Radius * Radius
<1> DEFINE travel == shot.speed * dt
           p == shot.pos[1]
           aged == [shot EXCEPT !.life = @ - dt]
           hit == living /\ RaySphere(shot.pos, Center(body'), travel)
           onto == [aged EXCEPT !.pos = Plus(@, travel, Dir)]
<1>1. p \in Int /\ shot.pos = <<p, 0>> /\ travel \in Nat
  BY DEF Bullets
<1>2. aged \in Bullets /\ aged.state = shot.state /\ aged.pos = shot.pos
  BY DEF Bullets
<1>3. Plus(shot.pos, travel, Dir) = <<p + travel, 0>>
  BY <1>1 DEF Plus, Dir
<1>4. onto \in Bullets /\ onto.state = shot.state /\ onto.pos = <<p + travel, 0>>
  <2>1. onto = [aged EXCEPT !.pos = Plus(aged.pos, travel, Dir)]
    BY <1>2 DEF Bullets
  <2>2. Plus(aged.pos, travel, Dir) = <<p + travel, 0>> /\ <<p + travel, 0>> \in Int \X {0}
    BY <1>1, <1>2, <1>3
  <2> HIDE DEF aged, onto, travel, p
  <2> QED
    BY <1>2, <2>1, <2>2 DEF Bullets
<1>5. CASE shot.state # "flying"
  BY <1>5 DEF Tested
<1>6. CASE shot.state = "flying"
  <2>1. /\ swept' = [len |-> travel, live |-> living]
        /\ \/ hit /\ bullet' = [aged EXCEPT !.state = "hit"]
           \/ ~hit /\ bullet' = [aged EXCEPT !.state = "spent"]
           \/ ~hit /\ bullet' = onto
    BY <1>6 DEF Tested
  <2> DEFINE d == Minus(Nearest', Center(body'))
             from == IF bullet'.state = "flying" THEN Plus(bullet'.pos, -swept'.len, Dir) ELSE bullet'.pos
  <2> HIDE DEF aged, onto, travel, p, hit
  <2>2. bullet' \in Bullets /\ swept' \in [len : Nat, live : BOOLEAN] /\ swept'.len = travel
    BY <1>1, <1>2, <1>4, <2>1 DEF Bullets
  <2>3. bullet'.state = "hit" <=> hit
    BY <1>2, <1>4, <1>6, <2>1 DEF Bullets
  <2>4. from = <<p, 0>>
    <3>1. CASE bullet' = onto
      <4>1. bullet'.state = "flying" /\ bullet'.pos = <<p + travel, 0>>
        BY <1>4, <1>6, <3>1
      <4>2. p + travel + (-travel) = p
        BY <1>1
      <4> QED
        BY <1>1, <2>2, <4>1, <4>2 DEF Plus, Dir
    <3>2. CASE bullet' # onto
      <4>1. bullet'.state # "flying" /\ bullet'.pos = <<p, 0>>
        BY <1>1, <1>2, <2>1, <3>2 DEF Bullets
      <4> QED
        BY <4>1
    <3> QED
      BY <3>1, <3>2
  <2>5. Center(body') = <<body'.pos, side>> /\ Center(body)' = <<body'.pos, side>>
    BY DEF Center
  <2>6. Nearest' = Plus(<<p, 0>>, Most(0, Least(Dot(Minus(<<body'.pos, side>>, <<p, 0>>), Dir), travel)), Dir)
    BY <2>2, <2>4, <2>5 DEF Nearest, from
  <2>7. RaySphere(<<p, 0>>, <<body'.pos, side>>, travel) <=> Dot(d, d) <= Radius * Radius
    BY <1>1, <2>5, <2>6, RayIsTouch
  <2>8. hit <=> living /\ Dot(d, d) <= Radius * Radius
    BY <1>1, <2>5, <2>7 DEF hit
  <2> QED
    BY <2>1, <2>2, <2>3, <2>8
<1> QED
  BY <1>5, <1>6

LEMMA FrameTests ==
  ASSUME SpeedInv, bullet \in Bullets, NEW dt \in 1..MaxDt, Frame(dt)
  PROVE  \E shot \in Bullets, living \in BOOLEAN :
            /\ shot.state \in {"none", "flying"} /\ Tested(shot, living, dt)
            /\ side' = side /\ kind' = "remote"
<1>1. PICK shot \in Loaded :
         \/ RemoteFrame(dt, body, alive, target) /\ Tested(shot, alive, dt) /\ side' = side
         \/ \E r \in Reports :
               /\ RemoteFrame(dt, [body EXCEPT !.vel = r.vel], r.alive, r.pos)
               /\ Tested(shot, r.alive, dt) /\ side' = side
  BY Zenon DEF Frame
<1>2. shot \in Bullets /\ shot.state \in {"none", "flying"}
  BY LoadedTyped DEF Frame
<1>3. alive \in BOOLEAN /\ \A r \in Reports : r.alive \in BOOLEAN
  BY DEF SpeedInv, MotionTypeOK, Reports
<1> QED
  BY <1>1, <1>2, <1>3 DEF RemoteFrame

LEMMA TouchInductive == Spec => []TouchInv
<1>1. Init => TouchInv
  <2> SUFFICES ASSUME Init PROVE TouchInv
    OBVIOUS
  <2>1. SpeedInv
    BY SpeedInit
  <2>2. side \in 0..(Radius + 1) /\ bullet = None /\ swept = [len |-> 0, live |-> FALSE]
    BY FlightAssumption DEF Init
  <2>3. bullet.state = "none" /\ bullet \in Bullets /\ swept \in [len : Nat, live : BOOLEAN]
    BY <2>2 DEF None, Bullets
  <2> QED
    BY <2>1, <2>2, <2>3 DEF TouchInv, HitIsTouch, TypeOK, SpeedInv, Bullets
<1>2. ASSUME TouchInv, [Next]_vars PROVE TouchInv'
  <2> USE DEF TouchInv
  <2>0. /\ SpeedInv /\ MotionTypeOK /\ side \in 0..(Radius + 1) /\ bullet \in Bullets
        /\ swept \in [len : Nat, live : BOOLEAN]
    BY <1>2 DEF HitIsTouch, TypeOK, Bullets
  <2>1. ASSUME NEW dt \in 1..MaxDt, Frame(dt) PROVE TouchInv'
    <3>1. SpeedInv'
      BY <2>0, <2>1, FrameMoves, RemoteSpeeds
    <3>2. PICK shot \in Bullets, living \in BOOLEAN :
             /\ shot.state \in {"none", "flying"} /\ Tested(shot, living, dt)
             /\ side' = side /\ kind' = "remote"
      BY <2>0, <2>1, FrameTests
    <3>3. MotionTypeOK' /\ body'.pos \in Int /\ side' \in Int /\ dt \in Nat
      BY <2>0, <3>1, <3>2, FlightAssumption, MotionAssumption DEF SpeedInv, MotionTypeOK, Inside
    <3>4. /\ bullet' \in Bullets /\ swept' \in [len : Nat, live : BOOLEAN]
          /\ bullet'.state # "none" =>
                LET d == Minus(Nearest', Center(body'))
                IN  bullet'.state = "hit" <=> swept'.live /\ Dot(d, d) <= Radius * Radius
      BY <2>0, <3>2, <3>3, TestedTouches
    <3>5. Center(body)' = Center(body')
      BY <3>2 DEF Center
    <3>6. HitIsTouch'
      BY <2>0, <3>2, <3>3, <3>4, <3>5 DEF HitIsTouch, TypeOK, Bullets
    <3> QED
      BY <3>1, <3>2, <3>6
  <2>2. ASSUME NEW dt \in 1..MaxDt, LocalFrame(dt), UNCHANGED <<side, bullet, swept>> PROVE TouchInv'
    <3>1. SpeedInv'
      BY <2>0, <2>2, LocalSpeeds
    <3>2. bullet'.state = "none" /\ kind' = kind
      BY <1>2, <2>2 DEF LocalFrame
    <3> QED
      BY <2>0, <2>2, <3>1, <3>2 DEF HitIsTouch, TypeOK, SpeedInv, Bullets
  <2>3. CASE UNCHANGED vars
    BY <1>2, <2>3 DEF vars, motionVars, SpeedInv, MotionTypeOK, HitIsTouch, TypeOK, Nearest, Center, Limit
  <2> QED
    BY <1>2, <2>1, <2>2, <2>3 DEF Next
<1> QED
  BY <1>1, <1>2, PTL DEF Spec

\* A bullet is consumed in the first frame in which some point of its path
\* touches a live ship, whatever the speeds and the length of the frame.
THEOREM HitsAreTouches == Spec => []HitIsTouch
<1>1. TouchInv => HitIsTouch
  BY DEF TouchInv
<1> QED
  BY <1>1, TouchInductive, PTL

\* A bullet that is A in front of a ship and b behind it a frame later, beyond
\* half the chord, has been crossed by more than half the chord, and by more than
\* the chord if A was beyond half the chord, too.
LEMMA Crossing ==
  ASSUME NEW A \in Nat, NEW b \in Nat, NEW disc \in Nat, A > 0, b > 0, b * b > disc
  PROVE  /\ (A + b) * (A + b) > disc
         /\ A * A > disc => (A + b) * (A + b) > 4 * disc
<1>1. (A + b) * (A + b) = A * A + b * b + 2 * (A * b)
  OBVIOUS
<1>2. A * A >= 0 /\ A * b >= 0
  OBVIOUS
<1>3. A * b >= A * A \/ A * b >= b * b
  <2>1. CASE A <= b
    <3>1. A * A <= A * b
      BY <2>1
    <3> QED
      BY <3>1
  <2>2. CASE b <= A
    <3>1. b * b <= A * b
      BY <2>2
    <3> QED
      BY <3>1
  <2> QED
    BY <2>1, <2>2
<1>4. {(A + b) * (A + b), A * A, b * b, A * b} \subseteq Int
  OBVIOUS
<1> QED
  BY <1>1, <1>2, <1>3, <1>4

LEMMA MissedAhead ==
  ASSUME HitIsTouch, bullet.state = "flying", Along > 0, swept.live
  PROVE  (body.pos - bullet.pos[1]) * (body.pos - bullet.pos[1]) > HalfChord2
<1> DEFINE p == bullet.pos[1]
           A == body.pos - p
<1>1. /\ p \in Int /\ body.pos \in Int /\ side \in Int /\ swept.len \in Nat /\ Radius \in Int
      /\ bullet.pos = <<p, 0>>
  BY MotionAssumption, FlightAssumption DEF HitIsTouch, TypeOK, MotionTypeOK, Inside
<1>2. Along = A /\ A \in Int
  BY <1>1 DEF Along, Dot, Minus, Plus, Dir, Center
<1>3. Plus(bullet.pos, -swept.len, Dir) = <<p - swept.len, 0>>
  BY <1>1 DEF Plus, Dir
<1>4. Dot(Minus(Center(body), <<p - swept.len, 0>>), Dir) = A + swept.len
  BY <1>1 DEF Dot, Minus, Plus, Dir, Center
<1>5. Most(0, Least(A + swept.len, swept.len)) = swept.len
  BY <1>1, <1>2 DEF Most, Least
<1>6. Nearest = <<p, 0>>
  <2>1. Plus(<<p - swept.len, 0>>, swept.len, Dir) = <<p, 0>>
    BY <1>1 DEF Plus, Dir
  <2> QED
    BY <1>3, <1>4, <1>5, <2>1 DEF Nearest
<1>7. Dot(Minus(Nearest, Center(body)), Minus(Nearest, Center(body))) = A * A + side * side
  <2>1. Minus(Nearest, Center(body)) = <<-A, -side>>
    BY <1>1, <1>6 DEF Minus, Plus, Center
  <2>2. (-A) * (-A) = A * A /\ (-side) * (-side) = side * side
    BY <1>1, <1>2
  <2> HIDE DEF A
  <2> QED
    BY <2>1, <2>2 DEF Dot
<1>8. ~(A * A + side * side <= Radius * Radius)
  BY <1>7 DEF HitIsTouch
<1>9. {A * A, side * side, Radius * Radius} \subseteq Int
  BY <1>1, <1>2
<1> HIDE DEF A
<1> QED
  BY <1>8, <1>9 DEF A, HalfChord2

\* No frame takes a bullet through a live ship: what is behind the ship now
\* was behind it before, or the ship itself has crossed the bullet's place.
THEOREM NothingTunnels == Spec => NoTunnelling
<1>1. ASSUME TouchInv, TouchInv', [Next]_vars
      PROVE  [LET moved == body'.pos - body.pos
              IN  bullet.state = "flying" /\ bullet'.state = "flying" /\ alive' /\ Along > 0
                     /\ moved * moved <= (IF swept.live THEN 4 ELSE 1) * HalfChord2
                  => Along' > 0]_vars
  <2> DEFINE moved == body'.pos - body.pos
  <2> SUFFICES ASSUME Next, bullet.state = "flying", bullet'.state = "flying", alive', Along > 0,
                      moved * moved <= (IF swept.live THEN 4 ELSE 1) * HalfChord2
               PROVE  Along' > 0
    BY <1>1
  <2>0. SpeedInv /\ HitIsTouch /\ bullet \in Bullets /\ bullet' \in Bullets /\ kind # "local"
    BY <1>1 DEF TouchInv, HitIsTouch, TypeOK, Bullets
  <2>1. PICK dt \in 1..MaxDt : Frame(dt)
    BY <2>0 DEF Next, LocalFrame, SpeedInv, MotionTypeOK
  <2>2. PICK living \in BOOLEAN : Tested(bullet, living, dt) /\ side' = side
    <3>1. Loaded = {bullet}
      BY DEF Loaded
    <3>2. alive \in BOOLEAN /\ \A r \in Reports : r.alive \in BOOLEAN
      BY <2>0 DEF SpeedInv, MotionTypeOK, Reports
    <3>3. \/ Tested(bullet, alive, dt) /\ side' = side
          \/ \E r \in Reports : Tested(bullet, r.alive, dt) /\ side' = side
      BY <2>1, <3>1, Zenon DEF Frame
    <3> QED
      BY <3>2, <3>3
  <2> DEFINE p == bullet.pos[1]
             q == body'.pos
             travel == bullet.speed * dt
             A == body.pos - p
             b == p - q
             disc == HalfChord2
  <2>3. /\ p \in Int /\ q \in Int /\ body.pos \in Int /\ side \in Int /\ Radius \in Int /\ travel \in Nat
        /\ bullet.pos = <<p, 0>>
    BY <1>1, <2>0, MotionAssumption, FlightAssumption
    DEF TouchInv, Bullets, HitIsTouch, TypeOK, SpeedInv, MotionTypeOK, Inside
  <2>4. ~RaySphere(<<p, 0>>, <<q, side>>, travel) /\ bullet'.pos = Plus(bullet.pos, travel, Dir)
    <3>1. Center(body') = <<q, side>>
      BY DEF Center
    <3>2. living
      BY <2>2 DEF Tested
    <3> QED
      BY <2>0, <2>2, <2>3, <3>1, <3>2 DEF Tested, Bullets
  <2>5. Along' = q - p - travel /\ Along = A
    <3>1. bullet'.pos = <<p + travel, 0>>
      BY <2>3, <2>4 DEF Plus, Dir
    <3> QED
      BY <2>2, <2>3, <3>1 DEF Along, Dot, Minus, Plus, Dir, Center
  <2>6. disc = Radius * Radius - side * side /\ disc \in Int
    BY <2>3 DEF HalfChord2
  <2>7. disc >= 0
    <3>1. moved \in Int /\ moved * moved >= 0
      BY <2>3
    <3>2. PICK k \in {1, 4} : moved * moved <= k * disc
      OBVIOUS
    <3> HIDE DEF moved, disc
    <3> QED
      BY <2>6, <3>1, <3>2
  <2>8. (b * b > disc /\ b > 0) \/ disc < 0 \/ -b - travel > 0
    <3> DEFINE d == Minus(Plus(<<p, 0>>, Most(0, Least(Dot(Minus(<<q, side>>, <<p, 0>>), Dir), travel)), Dir),
                          <<q, side>>)
               oc == Minus(<<p, 0>>, <<q, side>>)
    <3>1. oc = <<b, -side>>
      BY <2>3 DEF Minus, Plus
    <3>2. Dot(oc, Dir) = b
      BY <2>3, <3>1 DEF Dot, Dir
    <3>3. Dot(oc, oc) = b * b + side * side
      <4>1. (-side) * (-side) = side * side
        BY <2>3
      <4> HIDE DEF b, oc
      <4> QED
        BY <3>1, <4>1 DEF Dot
    <3>4. {b * b, side * side, Radius * Radius} \subseteq Int /\ b \in Int
      BY <2>3
    <3> HIDE DEF b, oc, disc
    <3> QED
      BY <2>3, <2>4, <2>6, <3>2, <3>3, <3>4 DEF RaySphere, oc
  <2>9. ~(b * b > disc /\ b > 0)
    <3> SUFFICES ASSUME b * b > disc, b > 0 PROVE FALSE
      OBVIOUS
    <3>1. A \in Nat /\ A > 0 /\ b \in Nat /\ disc \in Nat
      BY <2>3, <2>5, <2>6, <2>7
    <3>2. moved * moved = (A + b) * (A + b)
      <4>1. moved = -(A + b) /\ A + b \in Int
        BY <2>3
      <4> HIDE DEF moved, A, b
      <4> QED
        BY <4>1
    <3>3. swept.live => A * A > disc
      BY <2>0, MissedAhead
    <3>4. (A + b) * (A + b) \in Int
      BY <3>1
    <3> HIDE DEF moved, A, b, disc
    <3> QED
      BY <3>1, <3>2, <3>3, <3>4, Crossing DEF disc
  <2>10. -b - travel = q - p - travel
    BY <2>3
  <2> HIDE DEF b, disc, travel
  <2> QED
    BY <2>5, <2>6, <2>7, <2>8, <2>9, <2>10
<1>2. TouchInv /\ TouchInv' /\ [Next]_vars =>
        [LET moved == body'.pos - body.pos
         IN  bullet.state = "flying" /\ bullet'.state = "flying" /\ alive' /\ Along > 0
                /\ moved * moved <= (IF swept.live THEN 4 ELSE 1) * HalfChord2
             => Along' > 0]_vars
  BY <1>1
<1> QED
  BY <1>2, TouchInductive, PTL DEF Spec, NoTunnelling
=============================================================================
