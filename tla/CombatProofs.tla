----------------------------- MODULE CombatProofs -----------------------------
(***************************************************************************)
(* Why a shot is reported as a hit at most once, why a client that has     *)
(* heard a peer leave shows no ship of it, and why no client loses health  *)
(* but to hits reported on it, for any number of clients, shots and frames *)
(* under way, though every client draws every shot and none counts.        *)
(*                                                                         *)
(* Only its shooter reports a shot, and its shooter holds it once: a frame *)
(* that shows a shot comes from another client, so none puts a shot back   *)
(* that its own client has already resolved.  A peer that left has sent    *)
(* its farewell last, so whatever of it is still under way ends in one.    *)
(* And a frame puts at most one hit under way, on the victim it counts,    *)
(* while draining one takes it away and costs its victim one hit at most.  *)
(***************************************************************************)
EXTENDS Combat, FiniteSetTheorems, TLAPS

\* A shot frame shows a shot of its sender, and nobody sends to itself.
Own(q, s) == \A i \in 1..Len(q) : q[i].type = "shot" => q[i].shot[1] = s
OwnFrames == \A s, d \in Clients : net[s][s] = <<>> /\ Own(net[s][d], s)

\* What a client still holds of its own shots is unreported, and so is what
\* it has yet to fire.
ShotInv ==
    \A b \in Shots :
        /\ reported[b] <= 1
        /\ b[2] > fired[b[1]] => reported[b] = 0
        /\ b \in bullets[b[1]] => reported[b] = 0 /\ b[2] <= fired[b[1]]

IInv == TypeOK /\ OwnFrames /\ ShotInv

States == [hp : 0..MaxHealth, view : [Clients -> 0..MaxHealth \cup {None}], bullets : SUBSET Shots]
Nets == [Clients -> [Clients -> Seq(Msgs)]]

-----------------------------------------------------------------------------
(* The parts of a frame *)

LEMMA ShotIs ==
  \A b : b \in Shots <=> \E c \in Clients : \E n \in 1..MaxShots[c] : b = <<c, n>>
  BY DEF Shots

LEMMA Wounded == ASSUME NEW h \in 0..MaxHealth PROVE TakeDamage(h) \in 0..MaxHealth
  BY ConstantsAssumption DEF TakeDamage, Floor0

\* A drained frame brings in at most the shot it shows.
LEMMA Applied ==
  ASSUME NEW c \in Clients, NEW s \in Clients, NEW st \in States, NEW m \in Msgs
  PROVE  /\ Apply(c, st, s, m) \in States
         /\ \A b \in Apply(c, st, s, m).bullets : b \in st.bullets \/ (m.type = "shot" /\ b = m.shot)
<1> USE DEF Apply, States
<1>1. CASE m.type = "state"
  <2>1. m.hp \in 0..MaxHealth
    BY <1>1 DEF Msgs
  <2> QED
    BY <1>1, <2>1 DEF OnState
<1>2. CASE m.type = "hit"
  BY <1>2, Wounded DEF OnHit
<1>3. CASE m.type = "shot"
  <2>1. m.shot \in Shots
    BY <1>3 DEF Msgs
  <2> QED
    BY <1>3, <2>1
<1>4. CASE m.type = "leave"
  BY <1>4
<1> QED
  BY <1>1, <1>2, <1>3, <1>4 DEF Msgs

\* What strikes is a shot of the client's own.
LEMMA Fated ==
  ASSUME NEW c \in Clients, NEW st \in States, NEW fate \in Fates(c, st)
  PROVE  /\ fate.target \in Clients \cup {None}
         /\ fate.target # None => fate.bullet \in st.bullets /\ fate.bullet[1] = c
  BY DEF Fates, Targets, Resolves

LEMMA Struck ==
  ASSUME NEW c \in Clients, NEW st \in States, NEW fate \in Fates(c, st)
  PROVE  /\ Strike(c, st, fate) \in States
         /\ Strike(c, st, fate).bullets = st.bullets \ {fate.bullet}
<1> DEFINE gone == [st EXCEPT !.bullets = @ \ {fate.bullet}]
<1>1. gone \in States /\ gone.bullets = st.bullets \ {fate.bullet}
  BY DEF States
<1>2. fate.target = None => Strike(c, st, fate) = gone
  BY ConstantsAssumption DEF Strike
<1> HIDE DEF gone
<1>3. CASE fate.target # None /\ fate.target = c
  <2>1. gone.hp \in 0..MaxHealth
    BY <1>1 DEF States
  <2>2. TakeDamage(gone.hp) \in 0..MaxHealth
    BY <2>1, Wounded
  <2>3. Strike(c, st, fate) = [gone EXCEPT !.hp = TakeDamage(@)]
    BY <1>3 DEF Strike, gone
  <2> QED
    BY <1>1, <2>2, <2>3 DEF States
<1>4. CASE fate.target # None /\ fate.target # c
  <2>1. fate.target \in Clients /\ st.view[fate.target] # None
    BY <1>4 DEF Fates, Targets
  <2>2. gone.view[fate.target] \in 0..MaxHealth
    BY <2>1 DEF States, gone
  <2>3. TakeDamage(gone.view[fate.target]) \in 0..MaxHealth
    BY <2>2, Wounded
  <2>4. Strike(c, st, fate) = [gone EXCEPT !.view[fate.target] = TakeDamage(@)]
    BY <1>4 DEF Strike, gone
  <2>5. PICK v : v = [gone.view EXCEPT ![fate.target] = TakeDamage(@)]
    OBVIOUS
  <2>6. Strike(c, st, fate) = [gone EXCEPT !.view = v]
    BY <2>4, <2>5
  <2>7. v \in [Clients -> 0..MaxHealth \cup {None}]
    BY <1>1, <2>1, <2>3, <2>5 DEF States
  <2> QED
    BY <1>1, <2>6, <2>7 DEF States
<1> QED
  BY <1>1, <1>2, <1>3, <1>4

LEMMA OwnTail ==
  ASSUME NEW q \in Seq(Msgs), q # <<>>, NEW s, Own(q, s)
  PROVE  Tail(q) \in Seq(Msgs) /\ Own(Tail(q), s)
  BY DEF Own

LEMMA OwnAppend ==
  ASSUME NEW q \in Seq(Msgs), NEW m \in Msgs, m.type # "shot", NEW s, Own(q, s)
  PROVE  Append(q, m) \in Seq(Msgs) /\ Own(Append(q, m), s)
  BY DEF Own

LEMMA OwnConcat ==
  ASSUME NEW q \in Seq(Msgs), NEW r \in Seq(Msgs), NEW s, Own(q, s), Own(r, s)
  PROVE  q \o r \in Seq(Msgs) /\ Own(q \o r, s)
  BY DEF Own

\* Frames are added to those under way, and only from c to another client.
LEMMA Pushed ==
  ASSUME NEW q \in Nets, NEW c \in Clients, NEW ms \in Seq(Msgs)
  PROVE  /\ Push(q, c, ms) \in Nets
         /\ \A s, d \in Clients :
               \/ Push(q, c, ms)[s][d] = q[s][d]
               \/ s = c /\ d # c /\ Push(q, c, ms)[s][d] = q[s][d] \o ms
<1>1. \A d \in Clients : q[c][d] \in Seq(Msgs) /\ q[c][d] \o ms \in Seq(Msgs)
  BY DEF Nets
<1> QED
  BY <1>1 DEF Push, Nets

-----------------------------------------------------------------------------
(* One frame *)

\* What a frame does to the shots, apart from how.
Effect(c, fire, hit, b) ==
    LET shot == <<c, fired[c] + 1>>
    IN  /\ fired' = [fired EXCEPT ![c] = IF fire THEN @ + 1 ELSE @]
        /\ fire => shot \in Shots
        /\ \E kept \in SUBSET Shots :
              /\ bullets' = [bullets EXCEPT ![c] = kept]
              /\ \A x \in kept : x[1] = c => x \in bullets[c] \/ (fire /\ x = shot)
              /\ hit => b \notin kept /\ b[1] = c /\ (b \in bullets[c] \/ (fire /\ b = shot))
        /\ reported' = IF hit THEN [reported EXCEPT ![b] = @ + 1] ELSE reported

LEMMA FrameTyped ==
  ASSUME TypeOK, OwnFrames, NEW c \in Clients, NEW fire \in BOOLEAN, NEW s \in Senders,
         NEW wakes \in BOOLEAN, NEW tick \in BOOLEAN, Frame(c, fire, s, wakes, tick)
  PROVE  /\ TypeOK' /\ OwnFrames'
         /\ \E hit \in BOOLEAN : \E b : (hit => b \in Shots) /\ Effect(c, fire, hit, b)
<1> DEFINE shot   == <<c, fired[c] + 1>>
           start  == [hp |-> health[c], view |-> view[c],
                      bullets |-> bullets[c] \cup (IF fire THEN {shot} ELSE {})]
           polled == IF s = None THEN start ELSE Apply(c, start, s, Head(net[s][c]))
           ready  == IF wakes THEN [polled EXCEPT !.hp = MaxHealth] ELSE polled
<1>0. /\ fire => fired[c] < MaxShots[c]
      /\ s # None => net[s][c] # <<>>
  BY DEF Frame
<1>1. fire => shot \in Shots
  <2>1. fired[c] \in Nat /\ MaxShots[c] \in Nat
    BY ConstantsAssumption DEF TypeOK
  <2>2. fired[c] < MaxShots[c] => fired[c] + 1 \in 1..MaxShots[c]
    BY <2>1
  <2> QED
    BY <1>0, <2>2, ShotIs
<1>2. start \in States /\ \A x \in start.bullets : x \in bullets[c] \/ (fire /\ x = shot)
  BY <1>1 DEF TypeOK, States
<1> HIDE DEF start
<1>3. s # None => /\ s \in Clients /\ s # c /\ Head(net[s][c]) \in Msgs
                  /\ Head(net[s][c]).type = "shot" => Head(net[s][c]).shot[1] = s
  <2> SUFFICES ASSUME s # None
               PROVE  /\ s \in Clients /\ s # c /\ Head(net[s][c]) \in Msgs
                      /\ Head(net[s][c]).type = "shot" => Head(net[s][c]).shot[1] = s
    OBVIOUS
  <2>1. s \in Clients /\ net[s][c] # <<>> /\ net[s][c] \in Seq(Msgs)
    BY <1>0 DEF Senders, TypeOK
  <2>2. 1 \in 1..Len(net[s][c]) /\ Head(net[s][c]) = net[s][c][1] /\ net[s][c][1] \in Msgs
    BY <2>1
  <2> QED
    BY <2>1, <2>2 DEF OwnFrames, Own
<1>4. polled \in States /\ \A x \in polled.bullets : x \in start.bullets \/ x[1] # c
  BY <1>2, <1>3, Applied DEF polled
<1> HIDE DEF polled
<1>5. ready \in States /\ ready.bullets = polled.bullets
  BY <1>4, ConstantsAssumption DEF States
<1> HIDE DEF ready
<1>6. PICK fate \in Fates(c, ready) :
        LET end  == Strike(c, ready, fate)
            v    == fate.target
            hit  == v # None
        IN
        /\ health' = [health EXCEPT ![c] = end.hp]
        /\ view' = [view EXCEPT ![c] = end.view]
        /\ bullets' = [bullets EXCEPT ![c] = end.bullets]
        /\ fired' = [fired EXCEPT ![c] = IF fire THEN @ + 1 ELSE @]
        /\ net' = Push(IF s = None THEN net ELSE [net EXCEPT ![s][c] = Tail(@)], c,
                       When(fire, [type |-> "shot", shot |-> shot])
                           \o When(hit, [type |-> "hit", victim |-> v])
                           \o When(tick, [type |-> "state", hp |-> end.hp]))
        /\ reported' = IF hit THEN [reported EXCEPT ![fate.bullet] = @ + 1] ELSE reported
        /\ hurt' = IF hit /\ {c, v} \subseteq online THEN [hurt EXCEPT ![v] = @ + 1] ELSE hurt
        /\ deaths' = [deaths EXCEPT ![c] = IF health[c] > 0 /\ polled.hp = 0 THEN @ + 1 ELSE @]
  BY DEF Frame, start, polled, ready
<1> DEFINE end == Strike(c, ready, fate)
<1>7. end \in States /\ end.bullets = ready.bullets \ {fate.bullet}
  BY <1>5, Struck
<1> HIDE DEF end
<1>8. /\ fate.target \in Clients \cup {None}
      /\ fate.target # None => fate.bullet \in ready.bullets /\ fate.bullet[1] = c
  BY <1>5, Fated
<1>9. fate.target # None => /\ fate.bullet \in Shots
                            /\ fate.bullet \in bullets[c] \/ (fire /\ fate.bullet = shot)
  BY <1>2, <1>4, <1>5, <1>8 DEF States
<1>10. Effect(c, fire, fate.target # None, fate.bullet)
  <2>1. end.bullets \in SUBSET Shots
    BY <1>7 DEF States
  <2>2. \A x \in end.bullets : x[1] = c => x \in bullets[c] \/ (fire /\ x = shot)
    BY <1>2, <1>4, <1>5, <1>7
  <2>3. bullets' = [bullets EXCEPT ![c] = end.bullets]
    BY <1>6 DEF end
  <2>4. fate.target # None => fate.bullet \notin end.bullets
    BY <1>7
  <2> QED
    BY <1>1, <1>6, <1>8, <1>9, <2>1, <2>2, <2>3, <2>4 DEF Effect
<1> DEFINE ms == When(fire, [type |-> "shot", shot |-> shot])
                     \o When(fate.target # None, [type |-> "hit", victim |-> fate.target])
                     \o When(tick, [type |-> "state", hp |-> end.hp])
           base == IF s = None THEN net ELSE [net EXCEPT ![s][c] = Tail(@)]
<1>11. ms \in Seq(Msgs) /\ Own(ms, c)
  <2>1. end.hp \in 0..MaxHealth
    BY <1>7 DEF States
  <2>2. fire => [type |-> "shot", shot |-> shot] \in Msgs
    BY <1>1 DEF Msgs
  <2>3. fate.target # None => [type |-> "hit", victim |-> fate.target] \in Msgs
    BY <1>8 DEF Msgs
  <2>4. [type |-> "state", hp |-> end.hp] \in Msgs
    BY <2>1 DEF Msgs
  <2> QED
    BY <2>2, <2>3, <2>4 DEF When, Own
<1>12. base \in Nets /\ \A p, d \in Clients : base[p][p] = <<>> /\ Own(base[p][d], p)
  <2>1. CASE s = None
    BY <2>1 DEF TypeOK, Nets, OwnFrames
  <2>2. CASE s # None
    <3>1. s \in Clients /\ s # c /\ net[s][c] \in Seq(Msgs) /\ net[s][c] # <<>>
      BY <1>0, <1>3, <2>2 DEF TypeOK
    <3>2. PICK t : t = Tail(net[s][c])
      OBVIOUS
    <3>3. t \in Seq(Msgs) /\ Own(t, s)
      BY <3>1, <3>2, OwnTail DEF OwnFrames
    <3>4. base = [net EXCEPT ![s][c] = t]
      BY <2>2, <3>2
    <3> HIDE DEF base
    <3> QED
      BY <3>1, <3>3, <3>4 DEF TypeOK, Nets, OwnFrames
  <2> QED
    BY <2>1, <2>2
<1> HIDE DEF ms, base
<1>13. net' = Push(base, c, ms)
  BY <1>6 DEF ms, base, end
<1>14. net' \in Nets /\ OwnFrames'
  <2>1. PICK q, m : q = base /\ m = ms
    OBVIOUS
  <2>2. q \in Nets /\ m \in Seq(Msgs) /\ Own(m, c)
    BY <1>11, <1>12, <2>1
  <2>3. /\ Push(q, c, m) \in Nets
        /\ \A p, d \in Clients :
              \/ Push(q, c, m)[p][d] = q[p][d]
              \/ p = c /\ d # c /\ Push(q, c, m)[p][d] = q[p][d] \o m
    BY <2>2, Pushed
  <2>4. net' = Push(q, c, m)
    BY <1>13, <2>1
  <2> SUFFICES ASSUME NEW p \in Clients, NEW d \in Clients
               PROVE  net'[p][p] = <<>> /\ Own(net'[p][d], p)
    BY <2>3, <2>4 DEF OwnFrames, Own
  <2>5. q[p][p] = <<>> /\ q[p][d] \in Seq(Msgs) /\ Own(q[p][d], p)
    BY <1>12, <2>1, <2>2 DEF Nets
  <2>6. net'[p][p] = <<>>
    BY <2>3, <2>4, <2>5
  <2> QED
    BY <2>2, <2>3, <2>4, <2>5, <2>6, OwnConcat
<1>15. TypeOK'
  <2>1. /\ end.hp \in 0..MaxHealth /\ end.bullets \in SUBSET Shots
        /\ end.view \in [Clients -> 0..MaxHealth \cup {None}]
    BY <1>7 DEF States
  <2>2. /\ health' = [health EXCEPT ![c] = end.hp]
        /\ view' = [view EXCEPT ![c] = end.view]
        /\ bullets' = [bullets EXCEPT ![c] = end.bullets]
    BY <1>6 DEF end
  <2>3. /\ health' \in [Clients -> 0..MaxHealth]
        /\ view' \in [Clients -> [Clients -> 0..MaxHealth \cup {None}]]
        /\ bullets' \in [Clients -> SUBSET Shots]
    BY <2>1, <2>2 DEF TypeOK
  <2>4. fired' \in [Clients -> Nat] /\ deaths' \in [Clients -> Nat]
    <3>1. \E n \in {fired[c], fired[c] + 1} : fired' = [fired EXCEPT ![c] = n]
      BY <1>6
    <3>2. \E n \in {deaths[c], deaths[c] + 1} : deaths' = [deaths EXCEPT ![c] = n]
      BY <1>6
    <3> QED
      BY <3>1, <3>2 DEF TypeOK
  <2>5. reported' \in [Shots -> Nat]
    <3>1. \/ reported' = reported
          \/ fate.bullet \in Shots /\ reported' = [reported EXCEPT ![fate.bullet] = @ + 1]
      BY <1>6, <1>9
    <3>2. ASSUME NEW b \in Shots PROVE [reported EXCEPT ![b] = @ + 1] \in [Shots -> Nat]
      <4>1. reported \in [Shots -> Nat] /\ reported[b] \in Nat
        BY DEF TypeOK
      <4> QED
        BY <4>1
    <3>3. reported \in [Shots -> Nat]
      BY DEF TypeOK
    <3> QED
      BY <3>1, <3>2, <3>3
  <2>6. hurt' \in [Clients -> Nat]
    BY <1>6, <1>8 DEF TypeOK
  <2>7. online' = online
    BY DEF Frame
  <2> QED
    BY <1>14, <2>3, <2>4, <2>5, <2>6, <2>7 DEF TypeOK, Nets
<1> QED
  BY <1>9, <1>10, <1>14, <1>15

LEMMA FrameResolves ==
  ASSUME TypeOK, ShotInv, NEW c \in Clients, NEW fire \in BOOLEAN, NEW hit \in BOOLEAN, NEW b,
         hit => b \in Shots, Effect(c, fire, hit, b)
  PROVE  ShotInv'
<1> SUFFICES ASSUME NEW x \in Shots
             PROVE  /\ reported'[x] <= 1
                    /\ x[2] > fired'[x[1]] => reported'[x] = 0
                    /\ x \in bullets'[x[1]] => reported'[x] = 0 /\ x[2] <= fired'[x[1]]
  BY DEF ShotInv
<1>1. x[1] \in Clients /\ x[2] \in Nat /\ x = <<x[1], x[2]>>
  BY ShotIs, ConstantsAssumption
<1>2. hit => b[1] \in Clients /\ b[2] \in Nat /\ b = <<b[1], b[2]>>
  BY ShotIs, ConstantsAssumption
<1>3. CASE x[1] # c
  BY <1>1, <1>2, <1>3 DEF Effect, ShotInv, TypeOK
<1>4. CASE x[1] = c /\ ~(hit /\ x = b)
  BY <1>1, <1>2, <1>4 DEF Effect, ShotInv, TypeOK
<1>5. CASE x[1] = c /\ hit /\ x = b
  <2>1. x \notin bullets'[c] /\ reported'[x] = reported[x] + 1
    BY <1>1, <1>5 DEF Effect, TypeOK
  <2>2. fired[c] \in Nat /\ fired'[c] \in {fired[c], fired[c] + 1}
    BY DEF Effect, TypeOK
  <2>3. CASE x \in bullets[c]
    BY <1>1, <1>5, <2>1, <2>2, <2>3 DEF ShotInv
  <2>4. CASE x \notin bullets[c]
    <3>1. x = <<c, fired[c] + 1>> /\ fired'[c] = fired[c] + 1
      BY <1>5, <2>4 DEF Effect, TypeOK
    <3>2. reported[x] = 0
      BY <1>1, <2>2, <3>1 DEF ShotInv
    <3> QED
      BY <1>1, <1>5, <2>1, <2>2, <3>1, <3>2
  <2> QED
    BY <2>3, <2>4
<1> QED
  BY <1>3, <1>4, <1>5

-----------------------------------------------------------------------------
(* The theorem *)

LEMMA Disconnected ==
  ASSUME IInv, NEW c \in Clients, Disconnect(c)
  PROVE  IInv'
<1> USE DEF IInv, TypeOK, Disconnect
<1>1. [type |-> "leave"] \in Msgs
  BY DEF Msgs
<1>2. \A p, d \in Clients :
         /\ net[p][d] \in Seq(Msgs)
         /\ Append(net[p][d], [type |-> "leave"]) \in Seq(Msgs)
  BY <1>1
<1>3. \A p, d \in Clients :
         \/ net'[p][d] = net[p][d] \/ net'[p][d] = <<>>
         \/ p # d /\ net'[p][d] = Append(net[p][d], [type |-> "leave"])
  OBVIOUS
<1>4. net' \in Nets
  BY <1>2 DEF Nets
<1>5. OwnFrames'
  <2> SUFFICES ASSUME NEW p \in Clients, NEW d \in Clients
               PROVE  net'[p][p] = <<>> /\ Own(net'[p][d], p)
    BY DEF OwnFrames
  <2>1. net[p][p] = <<>> /\ Own(net[p][d], p) /\ net[p][d] \in Seq(Msgs)
    BY <1>2 DEF OwnFrames
  <2>2. PICK m \in Msgs : m = [type |-> "leave"]
    BY <1>1
  <2>3. Own(Append(net[p][d], m), p)
    BY <2>1, <2>2, OwnAppend
  <2>4. Own(<<>>, p)
    BY DEF Own
  <2> QED
    BY <1>3, <2>1, <2>2, <2>3, <2>4
<1> QED
  BY <1>4, <1>5 DEF ShotInv, Nets

LEMMA IInit == Init => IInv
<1> SUFFICES ASSUME Init PROVE IInv
  OBVIOUS
<1>1. TypeOK
  BY ConstantsAssumption DEF Init, TypeOK
<1>2. OwnFrames
  BY DEF Init, OwnFrames, Own
<1>3. ShotInv
  BY ShotIs, ConstantsAssumption DEF Init, ShotInv
<1> QED
  BY <1>1, <1>2, <1>3 DEF IInv

LEMMA IStep == ASSUME IInv, [Next]_vars PROVE IInv'
<1>1. ASSUME NEW c \in Clients, NEW fire \in BOOLEAN, NEW wakes \in BOOLEAN, NEW tick \in BOOLEAN,
             NEW s \in Senders, Frame(c, fire, s, wakes, tick)
      PROVE  IInv'
  <2>1. PICK hit \in BOOLEAN : \E b : (hit => b \in Shots) /\ Effect(c, fire, hit, b)
    BY <1>1, FrameTyped DEF IInv
  <2>2. PICK b : (hit => b \in Shots) /\ Effect(c, fire, hit, b)
    BY <2>1
  <2> QED
    BY <1>1, <2>2, FrameTyped, FrameResolves DEF IInv
<1>2. ASSUME NEW c \in Clients, Disconnect(c) PROVE IInv'
  BY <1>2, Disconnected
<1>3. CASE UNCHANGED vars
  BY <1>3 DEF vars, IInv, TypeOK, OwnFrames, ShotInv
<1> QED
  BY <1>1, <1>2, <1>3 DEF Next

\* A shot is reported as a hit at most once, however many clients draw it and
\* in whatever order frames arrive.
THEOREM ShotsHitOnce == Spec => []EachShotHitsOnce
<1>1. IInv /\ [Next]_vars => IInv'
  BY IStep
<1>2. IInv => EachShotHitsOnce
  BY DEF IInv, ShotInv, EachShotHitsOnce
<1> QED
  BY IInit, <1>1, <1>2, PTL DEF Spec

-----------------------------------------------------------------------------
(* What a frame does to healths, views and frames under way *)

HitOn(d) == [type |-> "hit", victim |-> d]
Leave == [type |-> "leave"]

\* Health and views once the frame of s, if any, is drained.
Hp(c, s) == IF s # None /\ Head(net[s][c]) = HitOn(c) THEN TakeDamage(health[c]) ELSE health[c]
Gone(c, s, d) == IF s = d /\ s # None /\ Head(net[s][c]) = Leave THEN TRUE
                 ELSE view[c][d] = None /\ s # d

Drained(c, s) == IF s = None THEN net ELSE [net EXCEPT ![s][c] = Tail(@)]

\* Among the frames ms there is a hit on v and no other, or none at all.
OneHit(ms, v) ==
    IF v = None THEN \A i \in 1..Len(ms) : ms[i].type # "hit"
    ELSE \E k \in 1..Len(ms) : \A i \in 1..Len(ms) :
            IF i = k THEN ms[i] = HitOn(v) ELSE ms[i].type # "hit"

\* The books of a frame: v is the ship that is hit, ms what is sent.
Booked(c, s, wakes, v, ms) ==
    /\ v # c
    /\ health' = [health EXCEPT ![c] = IF wakes THEN MaxHealth ELSE Hp(c, s)]
    /\ deaths' = [deaths EXCEPT ![c] = IF health[c] > 0 /\ Hp(c, s) = 0 THEN @ + 1 ELSE @]
    /\ hurt' = IF v # None /\ {c, v} \subseteq online THEN [hurt EXCEPT ![v] = @ + 1] ELSE hurt
    /\ net' = Push(Drained(c, s), c, ms)
    /\ OneHit(ms, v)
    /\ \E shown \in [Clients -> 0..MaxHealth \cup {None}] :
          /\ view' = [view EXCEPT ![c] = shown]
          /\ \A d \in Clients : Gone(c, s, d) => shown[d] = None
    /\ online' = online

LEMMA FramesApart ==
  ASSUME NEW m \in Msgs
  PROVE  /\ m.type = "hit" => m.victim \in Clients /\ m = HitOn(m.victim)
         /\ m.type = "leave" <=> m = Leave
         /\ m.type \in {"state", "hit", "shot", "leave"}
<1>1. m.type = "hit" => m \in [type : {"hit"}, victim : Clients]
  BY DEF Msgs
<1>2. m.type = "leave" => m = Leave
  BY DEF Msgs, Leave
<1> QED
  BY <1>1, <1>2 DEF Msgs, HitOn, Leave

LEMMA ConcatAt ==
  ASSUME NEW q \in Seq(Msgs), NEW r \in Seq(Msgs)
  PROVE  /\ q \o r \in Seq(Msgs) /\ Len(q \o r) = Len(q) + Len(r)
         /\ \A i \in 1..Len(q) : (q \o r)[i] = q[i]
         /\ \A i \in 1..Len(r) : (q \o r)[Len(q) + i] = r[i]
         /\ \A i \in 1..Len(q \o r) : i > Len(q) => i - Len(q) \in 1..Len(r) /\ (q \o r)[i] = r[i - Len(q)]
<1>1. /\ q \o r \in Seq(Msgs) /\ Len(q \o r) = Len(q) + Len(r)
      /\ \A i \in 1..Len(q) : (q \o r)[i] = q[i]
      /\ \A i \in 1..Len(r) : (q \o r)[Len(q) + i] = r[i]
  OBVIOUS
<1>2. Len(q) \in Nat /\ Len(r) \in Nat
  OBVIOUS
<1>3. ASSUME NEW i \in 1..Len(q \o r), i > Len(q)
      PROVE  i - Len(q) \in 1..Len(r) /\ (q \o r)[i] = r[i - Len(q)]
  <2>1. i - Len(q) \in 1..Len(r) /\ Len(q) + (i - Len(q)) = i
    BY <1>1, <1>2, <1>3
  <2> QED
    BY <1>1, <2>1
<1> QED
  BY <1>1, <1>3

LEMMA WhenIs ==
  ASSUME NEW cond \in BOOLEAN, NEW m, cond => m \in Msgs
  PROVE  /\ When(cond, m) \in Seq(Msgs) /\ Len(When(cond, m)) = (IF cond THEN 1 ELSE 0)
         /\ \A i \in 1..Len(When(cond, m)) : cond /\ i = 1 /\ When(cond, m)[i] = m
         /\ cond => When(cond, m)[1] = m
  BY DEF When

LEMMA HitsIn ==
  ASSUME NEW fire \in BOOLEAN, NEW tick \in BOOLEAN, NEW v \in Clients \cup {None}, NEW shot, NEW hp,
         fire => [type |-> "shot", shot |-> shot] \in Msgs, [type |-> "state", hp |-> hp] \in Msgs
  PROVE  OneHit(When(fire, [type |-> "shot", shot |-> shot]) \o When(v # None, [type |-> "hit", victim |-> v])
                   \o When(tick, [type |-> "state", hp |-> hp]), v)
<1> DEFINE a == [type |-> "shot", shot |-> shot]
           e == [type |-> "state", hp |-> hp]
<1>1. PICK A : A = When(fire, a)
  OBVIOUS
<1>2. PICK B : B = When(v # None, HitOn(v))
  OBVIOUS
<1>3. PICK C : C = When(tick, e)
  OBVIOUS
<1>4. A \in Seq(Msgs) /\ \A i \in 1..Len(A) : A[i].type # "hit"
  BY <1>1, WhenIs
<1>5. B \in Seq(Msgs) /\ (IF v = None THEN Len(B) = 0 ELSE Len(B) = 1 /\ B[1] = HitOn(v))
  <2>1. v # None => HitOn(v) \in Msgs
    BY DEF HitOn, Msgs
  <2> QED
    BY <1>2, <2>1, WhenIs
<1>6. C \in Seq(Msgs) /\ \A i \in 1..Len(C) : C[i].type # "hit"
  BY <1>3, WhenIs
<1>7. PICK AB : AB = A \o B
  OBVIOUS
<1>8. /\ AB \in Seq(Msgs) /\ Len(AB) = Len(A) + Len(B)
      /\ \A i \in 1..Len(A) : AB[i] = A[i]
      /\ \A i \in 1..Len(B) : AB[Len(A) + i] = B[i]
  BY <1>4, <1>5, <1>7, ConcatAt
<1>9. PICK ms : ms = AB \o C
  OBVIOUS
<1>10. /\ ms \in Seq(Msgs) /\ Len(ms) = Len(A) + Len(B) + Len(C)
       /\ \A i \in 1..(Len(A) + Len(B)) : ms[i] = AB[i]
       /\ \A i \in 1..Len(ms) : i > Len(A) + Len(B) => ms[i].type # "hit"
  <2>1. /\ ms \in Seq(Msgs) /\ Len(ms) = Len(AB) + Len(C)
        /\ \A i \in 1..Len(AB) : ms[i] = AB[i]
        /\ \A i \in 1..Len(C) : ms[Len(AB) + i] = C[i]
        /\ \A i \in 1..Len(ms) : i > Len(AB) => i - Len(AB) \in 1..Len(C) /\ ms[i] = C[i - Len(AB)]
    BY <1>6, <1>8, <1>9, ConcatAt
  <2>2. ASSUME NEW i \in 1..Len(ms), i > Len(AB) PROVE ms[i].type # "hit"
    <3>1. i - Len(AB) \in 1..Len(C) /\ ms[i] = C[i - Len(AB)]
      BY <2>1, <2>2
    <3> QED
      BY <1>6, <3>1
  <2> QED
    BY <1>8, <2>1, <2>2
<1>11. Len(A) \in Nat /\ Len(B) \in Nat /\ Len(C) \in Nat
  BY <1>4, <1>5, <1>6
<1>12. OneHit(ms, v)
  <2>1. CASE v = None
    BY <1>4, <1>5, <1>8, <1>10, <1>11, <2>1 DEF OneHit
  <2>2. CASE v # None
    <3> DEFINE k == Len(A) + 1
    <3>0. Len(B) = 1 /\ B[1] = HitOn(v)
      BY <1>5, <2>2
    <3>1. k \in 1..Len(ms) /\ ms[k] = HitOn(v)
      <4>1. k \in 1..Len(ms) /\ k \in 1..(Len(A) + Len(B)) /\ 1 \in 1..Len(B)
        BY <1>10, <1>11, <3>0
      <4>2. AB[k] = HitOn(v)
        BY <1>8, <3>0, <4>1
      <4> QED
        BY <1>10, <4>1, <4>2
    <3>2. ASSUME NEW i \in 1..Len(ms), i # k PROVE ms[i].type # "hit"
      <4>1. CASE i <= Len(A)
        <5>1. i \in 1..Len(A) /\ i \in 1..(Len(A) + Len(B))
          BY <1>10, <1>11, <4>1
        <5> QED
          BY <1>4, <1>8, <1>10, <5>1
      <4>2. CASE i > Len(A)
        <5>1. i > Len(A) + Len(B)
          BY <1>10, <1>11, <3>0, <3>2, <4>2
        <5> QED
          BY <1>10, <5>1
      <4> QED
        BY <1>11, <4>1, <4>2
    <3> QED
      BY <2>2, <3>1, <3>2 DEF OneHit
  <2> QED
    BY <2>1, <2>2
<1> QED
  BY <1>1, <1>2, <1>3, <1>7, <1>9, <1>12 DEF HitOn

LEMMA AppliedBooks ==
  ASSUME TypeOK, NEW c \in Clients, NEW s \in Clients, NEW st \in States, NEW m \in Msgs,
         m = Head(net[s][c]), st.hp = health[c], st.view = view[c]
  PROVE  /\ Apply(c, st, s, m).hp = Hp(c, s)
         /\ \A d \in Clients : Gone(c, s, d) => Apply(c, st, s, m).view[d] = None
<1> USE DEF Apply, States, Hp, Gone
<1>0. s # None /\ (m.type # "hit" => m # HitOn(c)) /\ (m.type # "leave" => m # Leave)
  BY ConstantsAssumption DEF HitOn, Leave
<1>1. CASE m.type = "state"
  BY <1>0, <1>1 DEF OnState
<1>2. CASE m.type = "hit"
  <2>1. m = HitOn(m.victim)
    BY <1>2, FramesApart
  <2>2. m.victim = c <=> m = HitOn(c)
    BY <2>1 DEF HitOn
  <2> QED
    BY <1>0, <1>2, <2>2 DEF OnHit
<1>3. CASE m.type = "shot"
  BY <1>0, <1>3
<1>4. CASE m.type = "leave"
  <2>1. m = Leave
    BY <1>4, FramesApart
  <2> QED
    BY <1>0, <1>4, <2>1
<1> QED
  BY <1>1, <1>2, <1>3, <1>4, FramesApart

LEMMA StruckBooks ==
  ASSUME NEW c \in Clients, NEW st \in States, NEW fate \in Fates(c, st)
  PROVE  /\ fate.target # c
         /\ Strike(c, st, fate).hp = st.hp
         /\ \A d \in Clients : st.view[d] = None => Strike(c, st, fate).view[d] = None
<1>1. c # None
  BY ConstantsAssumption
<1>2. fate.target # c
  BY <1>1 DEF Fates, Targets, Resolves
<1>3. CASE fate.target = None
  BY <1>1, <1>3 DEF Strike, States
<1>4. CASE fate.target # None
  <2>1. fate.target \in Clients /\ st.view[fate.target] # None
    BY <1>2, <1>4 DEF Fates, Targets
  <2> QED
    BY <1>2, <1>4, <2>1 DEF Strike, States
<1> QED
  BY <1>2, <1>3, <1>4

LEMMA FrameBooks ==
  ASSUME TypeOK, OwnFrames, NEW c \in Clients, NEW fire \in BOOLEAN, NEW s \in Senders,
         NEW wakes \in BOOLEAN, NEW tick \in BOOLEAN, Frame(c, fire, s, wakes, tick)
  PROVE  /\ \E v \in Clients \cup {None}, ms \in Seq(Msgs) : Booked(c, s, wakes, v, ms)
         /\ wakes => health[c] = 0
         /\ s # None => s \in Clients /\ s # c /\ net[s][c] # <<>>
<1> DEFINE shot   == <<c, fired[c] + 1>>
           start  == [hp |-> health[c], view |-> view[c],
                      bullets |-> bullets[c] \cup (IF fire THEN {shot} ELSE {})]
           polled == IF s = None THEN start ELSE Apply(c, start, s, Head(net[s][c]))
           ready  == IF wakes THEN [polled EXCEPT !.hp = MaxHealth] ELSE polled
<1>0. /\ fire => fired[c] < MaxShots[c]
      /\ s # None => net[s][c] # <<>>
      /\ wakes => health[c] = 0
      /\ online' = online
  BY DEF Frame
<1>1. fire => shot \in Shots
  <2>1. fired[c] \in Nat /\ MaxShots[c] \in Nat
    BY ConstantsAssumption DEF TypeOK
  <2>2. fired[c] < MaxShots[c] => fired[c] + 1 \in 1..MaxShots[c]
    BY <2>1
  <2> QED
    BY <1>0, <2>2, ShotIs
<1>2. start \in States /\ start.hp = health[c] /\ start.view = view[c]
  BY <1>1 DEF TypeOK, States
<1> HIDE DEF start
<1>3. s # None => s \in Clients /\ s # c /\ Head(net[s][c]) \in Msgs
  <2> SUFFICES ASSUME s # None PROVE s \in Clients /\ s # c /\ Head(net[s][c]) \in Msgs
    OBVIOUS
  <2>1. s \in Clients /\ net[s][c] # <<>> /\ net[s][c] \in Seq(Msgs)
    BY <1>0 DEF Senders, TypeOK
  <2> QED
    BY <2>1 DEF OwnFrames
<1>4. /\ polled \in States /\ polled.hp = Hp(c, s)
      /\ \A d \in Clients : Gone(c, s, d) => polled.view[d] = None
  <2>1. CASE s = None
    BY <1>2, <2>1 DEF polled, Hp, Gone
  <2>2. CASE s # None
    BY <1>2, <1>3, <2>2, Applied, AppliedBooks DEF polled
  <2> QED
    BY <2>1, <2>2
<1> HIDE DEF polled
<1>5. /\ ready \in States /\ ready.view = polled.view
      /\ ready.hp = IF wakes THEN MaxHealth ELSE Hp(c, s)
  BY <1>4, ConstantsAssumption DEF States
<1> HIDE DEF ready
<1>6. PICK fate \in Fates(c, ready) :
        LET end  == Strike(c, ready, fate)
            v    == fate.target
            hit  == v # None
        IN
        /\ health' = [health EXCEPT ![c] = end.hp]
        /\ view' = [view EXCEPT ![c] = end.view]
        /\ net' = Push(IF s = None THEN net ELSE [net EXCEPT ![s][c] = Tail(@)], c,
                       When(fire, [type |-> "shot", shot |-> shot])
                           \o When(hit, [type |-> "hit", victim |-> v])
                           \o When(tick, [type |-> "state", hp |-> end.hp]))
        /\ hurt' = IF hit /\ {c, v} \subseteq online THEN [hurt EXCEPT ![v] = @ + 1] ELSE hurt
        /\ deaths' = [deaths EXCEPT ![c] = IF health[c] > 0 /\ polled.hp = 0 THEN @ + 1 ELSE @]
  BY DEF Frame, start, polled, ready
<1> DEFINE end == Strike(c, ready, fate)
           v == fate.target
           ms == When(fire, [type |-> "shot", shot |-> shot])
                     \o When(v # None, [type |-> "hit", victim |-> v])
                     \o When(tick, [type |-> "state", hp |-> end.hp])
<1>7. /\ end \in States /\ v \in Clients \cup {None} /\ v # c /\ end.hp = ready.hp
      /\ \A d \in Clients : ready.view[d] = None => end.view[d] = None
  BY <1>5, Fated, Struck, StruckBooks
<1> HIDE DEF end
<1>8. ms \in Seq(Msgs) /\ OneHit(ms, v)
  <2>1. /\ fire => [type |-> "shot", shot |-> shot] \in Msgs
        /\ v # None => [type |-> "hit", victim |-> v] \in Msgs
        /\ [type |-> "state", hp |-> end.hp] \in Msgs
    BY <1>1, <1>7 DEF States, Msgs
  <2>2. ms \in Seq(Msgs)
    BY <2>1 DEF When
  <2>3. OneHit(ms, v)
    BY <1>7, <2>1, HitsIn
  <2> QED
    BY <2>2, <2>3
<1>9. net' = Push(Drained(c, s), c, ms)
  BY <1>6 DEF Drained, end
<1> HIDE DEF ms, v
<1>10. end.view \in [Clients -> 0..MaxHealth \cup {None}] /\ view' = [view EXCEPT ![c] = end.view]
  BY <1>6, <1>7 DEF States, end
<1>11. /\ health' = [health EXCEPT ![c] = IF wakes THEN MaxHealth ELSE Hp(c, s)]
       /\ deaths' = [deaths EXCEPT ![c] = IF health[c] > 0 /\ Hp(c, s) = 0 THEN @ + 1 ELSE @]
       /\ hurt' = IF v # None /\ {c, v} \subseteq online THEN [hurt EXCEPT ![v] = @ + 1] ELSE hurt
  BY <1>4, <1>5, <1>6, <1>7 DEF v, end
<1>12. Booked(c, s, wakes, v, ms)
  BY <1>0, <1>4, <1>5, <1>7, <1>8, <1>9, <1>10, <1>11 DEF Booked
<1> QED
  BY <1>0, <1>3, <1>7, <1>8, <1>12

-----------------------------------------------------------------------------
(* Ships of those that left *)

\* As long as something is under way from a client that left, the farewell is
\* the last of it.
FarewellInv ==
    \A c, d \in Clients : c \in online /\ d \notin online =>
        IF net[d][c] = <<>> THEN view[c][d] = None ELSE net[d][c][Len(net[d][c])] = Leave

LEMMA TailIs ==
  ASSUME NEW q \in Seq(Msgs), q # <<>>
  PROVE  /\ Len(q) \in Nat \ {0} /\ Head(q) = q[1]
         /\ Tail(q) \in Seq(Msgs) /\ Len(Tail(q)) = Len(q) - 1
         /\ \A i \in 1..(Len(q) - 1) : Tail(q)[i] = q[i + 1]
         /\ Tail(q) = <<>> <=> Len(q) = 1
<1>1. /\ Len(q) \in Nat \ {0} /\ Head(q) = q[1]
      /\ Tail(q) \in Seq(Msgs) /\ Len(Tail(q)) = Len(q) - 1
      /\ \A i \in 1..(Len(q) - 1) : Tail(q)[i] = q[i + 1]
  OBVIOUS
<1>2. Tail(q) = <<>> <=> Len(Tail(q)) = 0
  BY <1>1
<1> QED
  BY <1>1, <1>2

LEMMA DrainedTyped ==
  ASSUME TypeOK, NEW c \in Clients, NEW s, s # None => s \in Clients /\ net[s][c] # <<>>
  PROVE  /\ Drained(c, s) \in Nets
         /\ \A p, d \in Clients : IF p = s /\ d = c THEN s # None => Drained(c, s)[p][d] = Tail(net[s][c])
                                  ELSE Drained(c, s)[p][d] = net[p][d]
<1>1. CASE s = None
  BY <1>1 DEF Drained, Nets, TypeOK
<1>2. CASE s # None
  <2>1. net[s][c] \in Seq(Msgs)
    BY <1>2 DEF TypeOK
  <2>2. PICK t : t = Tail(net[s][c])
    OBVIOUS
  <2>3. t \in Seq(Msgs)
    BY <1>2, <2>1, <2>2, TailIs
  <2>4. Drained(c, s) = [net EXCEPT ![s][c] = t]
    BY <1>2, <2>2 DEF Drained
  <2>5. net \in Nets
    BY DEF TypeOK, Nets
  <2>6. Drained(c, s) \in Nets
    BY <1>2, <2>3, <2>4, <2>5 DEF Nets
  <2>7. \A p, d \in Clients : Drained(c, s)[p][d] = IF p = s /\ d = c THEN t ELSE net[p][d]
    BY <1>2, <2>4, <2>5 DEF Nets
  <2> QED
    BY <1>2, <2>2, <2>6, <2>7
<1> QED
  BY <1>1, <1>2

LEMMA FarewellFrame ==
  ASSUME IInv, FarewellInv, NEW c \in Clients, NEW s \in Senders, NEW wakes,
         NEW v, NEW ms \in Seq(Msgs), Booked(c, s, wakes, v, ms),
         s # None => s \in Clients /\ s # c /\ net[s][c] # <<>>
  PROVE  FarewellInv'
<1> SUFFICES ASSUME NEW b \in Clients, NEW d \in Clients, b \in online, d \notin online
             PROVE  IF net'[d][b] = <<>> THEN view'[b][d] = None ELSE net'[d][b][Len(net'[d][b])] = Leave
  BY DEF FarewellInv, Booked
<1> DEFINE q == net[d][b]
<1>0. TypeOK /\ q \in Seq(Msgs)
  BY DEF IInv, TypeOK
<1>1. Drained(c, s) \in Nets
  BY <1>0, DrainedTyped
<1>2. net'[d][b] = Drained(c, s)[d][b]
  BY <1>1, Pushed DEF Booked, Push, Nets
<1>3. IF q = <<>> THEN view[b][d] = None ELSE q[Len(q)] = Leave
  BY DEF FarewellInv
<1>4. CASE b # c \/ d # s
  <2>1. net'[d][b] = q
    BY <1>0, <1>2, <1>4 DEF Drained, TypeOK
  <2>2. view[b][d] = None => view'[b][d] = None
    BY <1>0, <1>4 DEF Booked, Gone, TypeOK
  <2> QED
    BY <1>3, <2>1, <2>2
<1>5. CASE b = c /\ d = s
  <2>1. s # None /\ q # <<>> /\ net'[d][b] = Tail(q)
    BY <1>0, <1>2, <1>5, ConstantsAssumption DEF Drained, TypeOK
  <2>2. CASE Len(q) = 1
    <3>1. Tail(q) = <<>> /\ Head(q) = Leave
      BY <1>0, <1>3, <2>1, <2>2, TailIs
    <3>2. Gone(c, s, d)
      BY <1>5, <2>1, <3>1 DEF Gone
    <3> QED
      BY <1>0, <1>5, <2>1, <3>1, <3>2 DEF Booked, TypeOK
  <2>3. CASE Len(q) # 1
    <3>1. Len(Tail(q)) = Len(q) - 1 /\ Tail(q) # <<>> /\ Tail(q)[Len(q) - 1] = q[Len(q)]
      <4>1. Len(q) - 1 \in 1..(Len(q) - 1) /\ (Len(q) - 1) + 1 = Len(q)
        BY <1>0, <2>1, <2>3, TailIs
      <4> QED
        BY <1>0, <2>1, <2>3, <4>1, TailIs
    <3> QED
      BY <1>3, <2>1, <3>1
  <2> QED
    BY <2>2, <2>3
<1> QED
  BY <1>4, <1>5

LEMMA FarewellClose ==
  ASSUME IInv, FarewellInv, NEW c \in Clients, Disconnect(c)
  PROVE  FarewellInv'
<1> SUFFICES ASSUME NEW b \in Clients, NEW d \in Clients, b \in online', d \notin online'
             PROVE  IF net'[d][b] = <<>> THEN view'[b][d] = None ELSE net'[d][b][Len(net'[d][b])] = Leave
  BY DEF FarewellInv
<1>1. b \in online /\ b # c /\ view' = view /\ net[d][b] \in Seq(Msgs)
  BY DEF Disconnect, IInv, TypeOK
<1>2. CASE d # c
  BY <1>1, <1>2 DEF Disconnect, FarewellInv
<1>3. CASE d = c
  <2>1. net'[d][b] = Append(net[d][b], Leave)
    BY <1>1, <1>3 DEF Disconnect, Leave
  <2>2. Append(net[d][b], Leave) # <<>>
    BY <1>1
  <2>3. Append(net[d][b], Leave)[Len(Append(net[d][b], Leave))] = Leave
    BY <1>1
  <2> QED
    BY <2>1, <2>2, <2>3
<1> QED
  BY <1>2, <1>3

\* Whoever has drained the farewell of a peer that left shows no ship of it,
\* though reports of its state were still under way when it left.
THEOREM DepartedAreForgotten == Spec => []DepartedForgotten
<1>1. Init => IInv /\ FarewellInv
  BY IInit DEF Init, FarewellInv
<1>2. ASSUME IInv, FarewellInv, [Next]_vars PROVE IInv' /\ FarewellInv'
  <2>0. TypeOK /\ OwnFrames
    BY <1>2 DEF IInv
  <2>1. ASSUME NEW c \in Clients, NEW fire \in BOOLEAN, NEW wakes \in BOOLEAN, NEW tick \in BOOLEAN,
               NEW s \in Senders, Frame(c, fire, s, wakes, tick)
        PROVE  FarewellInv'
    BY <1>2, <2>0, <2>1, FrameBooks, FarewellFrame
  <2>2. ASSUME NEW c \in Clients, Disconnect(c) PROVE FarewellInv'
    BY <1>2, <2>2, FarewellClose
  <2>3. ASSUME UNCHANGED vars PROVE FarewellInv'
    <3>1. net' = net /\ view' = view /\ online' = online
      BY <2>3 DEF vars
    <3> QED
      BY <1>2, <3>1 DEF FarewellInv
  <2> QED
    BY <1>2, <2>1, <2>2, <2>3, IStep DEF Next
<1>3. FarewellInv => DepartedForgotten
  BY DEF FarewellInv, DepartedForgotten
<1> QED
  BY <1>1, <1>2, <1>3, PTL DEF Spec

-----------------------------------------------------------------------------
(* Hits under way *)

\* Where in the frames q a hit on d is on its way to d.
Comings(q, d) ==
    UNION {{<<c, i>> : i \in {j \in DOMAIN q[c][d] : q[c][d][j] = HitOn(d)}} : c \in Clients}

LEMMA ComingIs ==
  ASSUME NEW q \in Nets, NEW d \in Clients
  PROVE  \A x : x \in Comings(q, d) <=>
            \E c \in Clients : \E i \in 1..Len(q[c][d]) : x = <<c, i>> /\ q[c][d][i] = HitOn(d)
<1>1. \A c \in Clients : DOMAIN q[c][d] = 1..Len(q[c][d])
  BY DEF Nets
<1> QED
  BY <1>1 DEF Comings

LEMMA ComingsSame ==
  ASSUME NEW q \in Nets, NEW r \in Nets, NEW d \in Clients, \A p \in Clients : r[p][d] = q[p][d]
  PROVE  Comings(r, d) = Comings(q, d)
  BY DEF Comings

\* A frame that is drained is counted no more, and the rest move up.
LEMMA ComingsTail ==
  ASSUME NEW q \in Nets, NEW r \in Nets, NEW s \in Clients, NEW d \in Clients, q[s][d] # <<>>,
         r[s][d] = Tail(q[s][d]), \A p \in Clients \ {s} : r[p][d] = q[p][d],
         IsFiniteSet(Comings(q, d))
  PROVE  /\ IsFiniteSet(Comings(r, d))
         /\ Cardinality(Comings(r, d)) =
               Cardinality(Comings(q, d)) - (IF Head(q[s][d]) = HitOn(d) THEN 1 ELSE 0)
<1> DEFINE Q == Comings(q, d)
           R == Comings(r, d)
           first == <<s, 1>>
           S == Q \ {first}
           Up(x) == IF x[1] = s THEN <<s, x[2] - 1>> ELSE x
           up == [x \in S |-> Up(x)]
<1>1. /\ q[s][d] \in Seq(Msgs) /\ Len(q[s][d]) \in Nat \ {0} /\ Head(q[s][d]) = q[s][d][1]
      /\ Len(r[s][d]) = Len(q[s][d]) - 1
      /\ \A i \in 1..(Len(q[s][d]) - 1) : r[s][d][i] = q[s][d][i + 1]
  <2>1. q[s][d] \in Seq(Msgs)
    BY DEF Nets
  <2> QED
    BY <2>1, TailIs
<1>2. first \in Q <=> Head(q[s][d]) = HitOn(d)
  BY <1>1, ComingIs
<1>3. ASSUME NEW x \in S
      PROVE  /\ Up(x) \in R
             /\ x = <<x[1], x[2]>> /\ x[2] \in Nat
  <2>0. PICK c \in Clients : \E i \in 1..Len(q[c][d]) : x = <<c, i>> /\ q[c][d][i] = HitOn(d)
    BY ComingIs
  <2>1. PICK i \in 1..Len(q[c][d]) : x = <<c, i>> /\ q[c][d][i] = HitOn(d)
    BY <2>0
  <2>2. CASE c = s
    <3>1. i # 1 /\ i - 1 \in 1..(Len(q[s][d]) - 1) /\ (i - 1) + 1 = i
      BY <1>1, <2>1, <2>2
    <3>2. r[s][d][i - 1] = HitOn(d) /\ i - 1 \in 1..Len(r[s][d])
      BY <1>1, <2>1, <2>2, <3>1
    <3>3. Up(x) = <<s, i - 1>> /\ x = <<x[1], x[2]>> /\ x[2] \in Nat
      BY <2>1, <2>2
    <3>4. <<s, i - 1>> \in R
      BY <3>2, ComingIs
    <3> HIDE DEF Up
    <3> QED
      BY <3>3, <3>4
  <2>3. CASE c # s
    BY <2>1, <2>3, ComingIs
  <2> QED
    BY <2>2, <2>3
<1>4. ASSUME NEW y \in R PROVE \E x \in S : Up(x) = y
  <2>0. PICK c \in Clients : \E i \in 1..Len(r[c][d]) : y = <<c, i>> /\ r[c][d][i] = HitOn(d)
    BY ComingIs
  <2>1. PICK i \in 1..Len(r[c][d]) : y = <<c, i>> /\ r[c][d][i] = HitOn(d)
    BY <2>0
  <2>2. CASE c = s
    <3>0. i \in 1..Len(r[s][d]) /\ r[s][d][i] = HitOn(d)
      BY <2>1, <2>2
    <3>1. i \in 1..(Len(q[s][d]) - 1) /\ i + 1 \in 1..Len(q[s][d]) /\ i + 1 # 1 /\ (i + 1) - 1 = i
      BY <1>1, <3>0
    <3>2. q[s][d][i + 1] = HitOn(d)
      BY <1>1, <3>0, <3>1
    <3>3. <<s, i + 1>> \in Q /\ <<s, i + 1>> # first
      BY <3>1, <3>2, ComingIs
    <3>4. Up(<<s, i + 1>>) = y
      BY <2>1, <2>2, <3>1
    <3> QED
      BY <3>3, <3>4
  <2>3. CASE c # s
    <3>1. y \in Q /\ y # first
      BY <2>1, <2>3, ComingIs
    <3> QED
      BY <2>1, <2>3, <3>1
  <2> QED
    BY <2>2, <2>3
<1>5. ASSUME NEW x \in S, NEW y \in S, Up(x) = Up(y) PROVE x = y
  <2>1. /\ x = <<x[1], x[2]>> /\ x[2] \in Nat /\ y = <<y[1], y[2]>> /\ y[2] \in Nat
    BY <1>3
  <2>2. Up(x)[1] = x[1] /\ Up(y)[1] = y[1]
    BY <2>1
  <2>3. CASE x[1] = s
    BY <1>5, <2>1, <2>2, <2>3
  <2>4. CASE x[1] # s
    BY <1>5, <2>1, <2>2, <2>4
  <2> QED
    BY <2>3, <2>4
<1>6. IsFiniteSet(S) /\ Cardinality(S) = Cardinality(Q) - (IF first \in Q THEN 1 ELSE 0)
  <2>1. IsFiniteSet(Q)
    OBVIOUS
  <2>2. Cardinality(Q) \in Nat
    BY <2>1, FS_CardinalityType
  <2>3. /\ IsFiniteSet(Q \ {first})
        /\ Cardinality(Q \ {first}) = IF first \in Q THEN Cardinality(Q) - 1 ELSE Cardinality(Q)
    BY <2>1, FS_RemoveElement
  <2> HIDE DEF Q, first
  <2> QED
    BY <2>2, <2>3
<1>7. ExistsBijection(S, R)
  <2> HIDE DEF S, R, Up
  <2>1. up \in Bijection(S, R)
    BY <1>3, <1>4, <1>5 DEF Bijection, Injection, Surjection, IsInjective
  <2> QED
    BY <2>1 DEF ExistsBijection
<1> HIDE DEF S, R, Q, first
<1>8. IsFiniteSet(R) /\ Cardinality(R) = Cardinality(S)
  BY <1>6, <1>7, FS_Bijection
<1> QED
  BY <1>2, <1>6, <1>8 DEF Q, R

\* Sending adds the hit on v, if there is one, to what is under way to v.
LEMMA ComingsPush ==
  ASSUME NEW q \in Nets, NEW c \in Clients, NEW v \in Clients \cup {None}, v # c,
         NEW ms \in Seq(Msgs), OneHit(ms, v), NEW d \in Clients, IsFiniteSet(Comings(q, d))
  PROVE  /\ IsFiniteSet(Comings(Push(q, c, ms), d))
         /\ Cardinality(Comings(Push(q, c, ms), d)) =
               Cardinality(Comings(q, d)) + (IF d = v /\ {c, v} \subseteq online THEN 1 ELSE 0)
<1> DEFINE r == Push(q, c, ms)
           Q == Comings(q, d)
           R == Comings(r, d)
           n == Len(q[c][d])
<1>1. /\ r \in Nets
      /\ \A p \in Clients : p # c => r[p][d] = q[p][d]
      /\ r[c][d] = IF d # c /\ {c, d} \subseteq online THEN q[c][d] \o ms ELSE q[c][d]
      /\ q[c][d] \in Seq(Msgs) /\ n \in Nat /\ Cardinality(Q) \in Nat
  BY Pushed, FS_CardinalityType DEF Push, Nets
<1> HIDE DEF r
<1>2. CASE d = c \/ ~({c, d} \subseteq online)
  <2>1. R = Q
    BY <1>1, <1>2, ComingsSame
  <2>2. ~(d = v /\ {c, v} \subseteq online)
    BY <1>2
  <2> HIDE DEF Q, R
  <2> QED
    BY <1>1, <2>1, <2>2 DEF Q, R, r
<1>3. CASE d # c /\ {c, d} \subseteq online
  <2>1. /\ r[c][d] \in Seq(Msgs) /\ Len(r[c][d]) = n + Len(ms) /\ Len(ms) \in Nat
        /\ \A i \in 1..n : r[c][d][i] = q[c][d][i]
        /\ \A i \in 1..Len(ms) : r[c][d][n + i] = ms[i]
        /\ \A i \in 1..Len(r[c][d]) : i > n => i - n \in 1..Len(ms) /\ r[c][d][i] = ms[i - n]
    BY <1>1, <1>3, ConcatAt
  <2>2. Q \subseteq R
    <3> SUFFICES ASSUME NEW x \in Q PROVE x \in R
      OBVIOUS
    <3>1. PICK p \in Clients : \E i \in 1..Len(q[p][d]) : x = <<p, i>> /\ q[p][d][i] = HitOn(d)
      BY ComingIs
    <3>2. PICK i \in 1..Len(q[p][d]) : x = <<p, i>> /\ q[p][d][i] = HitOn(d)
      BY <3>1
    <3>3. i \in 1..Len(r[p][d]) /\ r[p][d][i] = HitOn(d)
      <4>1. CASE p = c
        <5>1. i \in 1..n /\ q[c][d][i] = HitOn(d)
          BY <3>2, <4>1
        <5>2. i \in 1..Len(r[c][d]) /\ r[c][d][i] = q[c][d][i]
          BY <1>1, <2>1, <5>1
        <5> QED
          BY <4>1, <5>1, <5>2
      <4>2. CASE p # c
        BY <1>1, <3>2, <4>2
      <4> QED
        BY <4>1, <4>2
    <3> QED
      BY <1>1, <3>2, <3>3, ComingIs
  <2>3. ASSUME NEW x \in R, x \notin Q
        PROVE  \E k \in 1..Len(ms) : x = <<c, n + k>> /\ ms[k] = HitOn(d)
    <3>1. PICK p \in Clients : \E i \in 1..Len(r[p][d]) : x = <<p, i>> /\ r[p][d][i] = HitOn(d)
      BY <1>1, ComingIs
    <3>2. PICK i \in 1..Len(r[p][d]) : x = <<p, i>> /\ r[p][d][i] = HitOn(d)
      BY <3>1
    <3>3. p = c
      BY <1>1, <2>3, <3>2, ComingIs
    <3>4. i > n
      <4>1. SUFFICES ASSUME i \in 1..n PROVE FALSE
        BY <1>1, <3>2
      <4>2. q[c][d][i] = HitOn(d)
        BY <2>1, <3>2, <3>3, <4>1
      <4> QED
        BY <2>3, <3>2, <3>3, <4>1, <4>2, ComingIs
    <3>5. i - n \in 1..Len(ms) /\ ms[i - n] = HitOn(d) /\ i = n + (i - n)
      <4>1. i \in 1..Len(r[c][d]) /\ r[c][d][i] = HitOn(d) /\ i \in Int
        BY <3>2, <3>3
      <4>2. i - n \in 1..Len(ms) /\ r[c][d][i] = ms[i - n]
        BY <2>1, <3>4, <4>1
      <4> QED
        BY <1>1, <4>1, <4>2
    <3> QED
      BY <3>2, <3>3, <3>5
  <2>4. HitOn(d).type = "hit" /\ (v # d => HitOn(v) # HitOn(d))
    BY DEF HitOn
  <2>5. CASE v = d
    <3>1. v # None
      BY <2>5, ConstantsAssumption
    <3>2. PICK k \in 1..Len(ms) : \A i \in 1..Len(ms) : IF i = k THEN ms[i] = HitOn(v) ELSE ms[i].type # "hit"
      BY <3>1 DEF OneHit
    <3>3. <<c, n + k>> \in R
      <4>1. n + k \in 1..Len(r[c][d]) /\ r[c][d][n + k] = HitOn(d)
        BY <1>1, <2>1, <2>5, <3>2
      <4> QED
        BY <1>1, <4>1, ComingIs
    <3>4. <<c, n + k>> \notin Q
      <4>1. \A i \in 1..n : i # n + k
        BY <1>1
      <4>2. SUFFICES ASSUME <<c, n + k>> \in Q PROVE FALSE
        OBVIOUS
      <4>3. PICK p \in Clients : \E i \in 1..Len(q[p][d]) : <<c, n + k>> = <<p, i>>
        BY <4>2, ComingIs
      <4> QED
        BY <4>1, <4>3
    <3>5. R = Q \cup {<<c, n + k>>}
      BY <2>2, <2>3, <2>4, <3>2, <3>3
    <3>6. IsFiniteSet(R) /\ Cardinality(R) = Cardinality(Q) + 1
      <4> HIDE DEF Q, R
      <4> QED
        BY <3>4, <3>5, FS_AddElement DEF Q
    <3> HIDE DEF Q, R
    <3> QED
      BY <1>3, <2>5, <3>6 DEF Q, R, r
  <2>6. CASE v # d
    <3>1. \A i \in 1..Len(ms) : ms[i] # HitOn(d)
      BY <2>4, <2>6 DEF OneHit
    <3>2. R = Q
      BY <2>2, <2>3, <3>1
    <3> HIDE DEF Q, R
    <3> QED
      BY <1>1, <2>6, <3>2 DEF Q, R, r
  <2> QED
    BY <2>5, <2>6
<1> QED
  BY <1>2, <1>3

-----------------------------------------------------------------------------
(* Accounts *)

LEMMA DivIs ==
  ASSUME NEW m \in Int, NEW d \in Nat \ {0}, NEW k \in Int, k * d <= m, m < k * d + d
  PROVE  m \div d = k
<1>1. PICK q \in Int : q = m \div d /\ q * d <= m /\ m < q * d + d
  OBVIOUS
<1>2. (q + 1) * d = q * d + d /\ (k + 1) * d = k * d + d
  BY <1>1
<1>3. ~(q + 1 <= k)
  <2>1. q + 1 <= k => (q + 1) * d <= k * d
    BY <1>1
  <2> QED
    BY <1>1, <1>2, <2>1
<1>4. ~(k + 1 <= q)
  <2>1. k + 1 <= q => (k + 1) * d <= q * d
    BY <1>1
  <2> QED
    BY <1>1, <1>2, <2>1
<1> QED
  BY <1>1, <1>3, <1>4

\* A hit takes one of the hits that are left to a ship.
LEMMA HitCosts ==
  ASSUME NEW h \in 0..MaxHealth
  PROVE  /\ HitsLeft(h) \in Int /\ HitsLeft(0) = 0
         /\ h > 0 => HitsLeft(TakeDamage(h)) = HitsLeft(h) - 1
<1>0. Damage \in Nat \ {0} /\ MaxHealth \in Nat /\ h \in Nat
  BY ConstantsAssumption
<1>1. HitsLeft(0) = 0
  BY <1>0, DivIs DEF HitsLeft
<1>2. HitsLeft(h) \in Int
  BY <1>0 DEF HitsLeft
<1>3. ASSUME h > 0, h <= Damage PROVE HitsLeft(TakeDamage(h)) = HitsLeft(h) - 1
  <2>1. TakeDamage(h) = 0
    BY <1>0, <1>3 DEF TakeDamage, Floor0
  <2>2. (h + Damage - 1) \div Damage = 1
    BY <1>0, <1>3, DivIs
  <2> QED
    BY <1>1, <2>1, <2>2 DEF HitsLeft
<1>4. ASSUME h > Damage PROVE HitsLeft(TakeDamage(h)) = HitsLeft(h) - 1
  <2>1. TakeDamage(h) = h - Damage
    BY <1>0, <1>4 DEF TakeDamage, Floor0
  <2>2. PICK k \in Int : /\ k = (h + Damage - 1) \div Damage
                         /\ k * Damage <= h + Damage - 1 /\ h + Damage - 1 < k * Damage + Damage
    BY <1>0
  <2>3. (k - 1) * Damage = k * Damage - Damage
    BY <1>0, <2>2
  <2>4. (h - Damage + Damage - 1) \div Damage = k - 1
    <3>1. k * Damage \in Int /\ k - 1 \in Int /\ h - Damage + Damage - 1 \in Int
      BY <1>0, <2>2
    <3>2. (k - 1) * Damage <= h - Damage + Damage - 1 /\ h - Damage + Damage - 1 < (k - 1) * Damage + Damage
      BY <1>0, <2>2, <2>3, <3>1
    <3> QED
      BY <1>0, <3>1, <3>2, DivIs
  <2> QED
    BY <2>1, <2>2, <2>4 DEF HitsLeft
<1> QED
  BY <1>0, <1>1, <1>2, <1>3, <1>4

Lost(d) == IF health[d] > 0 THEN HitsLeft(MaxHealth) - HitsLeft(health[d]) ELSE 0

\* The accounts of DamageAccounted, and that what is counted is finite.
Account(d) ==
    /\ IsFiniteSet(Comings(net, d))
    /\ deaths[d] * HitsLeft(MaxHealth) + Lost(d) + Cardinality(Comings(net, d)) <= hurt[d]
AccountInv == \A d \in Clients : Account(d)

\* Draining: what a hit costs the ship, and its death, is what has been under way.
LEMMA DrainedAccount ==
  ASSUME TypeOK, AccountInv, NEW c \in Clients, NEW s \in Senders, NEW wakes \in BOOLEAN,
         s # None => s \in Clients /\ s # c /\ net[s][c] # <<>>, wakes => health[c] = 0
  PROVE  LET hp == IF wakes THEN MaxHealth ELSE Hp(c, s)
             died == IF health[c] > 0 /\ Hp(c, s) = 0 THEN deaths[c] + 1 ELSE deaths[c]
             lost == IF hp > 0 THEN HitsLeft(MaxHealth) - HitsLeft(hp) ELSE 0
         IN  /\ IsFiniteSet(Comings(Drained(c, s), c))
             /\ died * HitsLeft(MaxHealth) + lost + Cardinality(Comings(Drained(c, s), c)) <= hurt[c]
<1> DEFINE K == HitsLeft(MaxHealth)
           h == health[c]
           n == Cardinality(Comings(net, c))
           r == Drained(c, s)
           struck == s # None /\ Head(net[s][c]) = HitOn(c)
<1>1. /\ MaxHealth \in Nat \ {0} /\ h \in 0..MaxHealth /\ deaths[c] \in Nat /\ hurt[c] \in Nat
      /\ K \in Int /\ HitsLeft(h) \in Int
  <2>1. MaxHealth \in Nat \ {0} /\ MaxHealth \in 0..MaxHealth
    BY ConstantsAssumption
  <2>2. h \in 0..MaxHealth /\ deaths[c] \in Nat /\ hurt[c] \in Nat
    BY DEF TypeOK
  <2> QED
    BY <2>1, <2>2, HitCosts
<1>2. net \in Nets /\ IsFiniteSet(Comings(net, c)) /\ n \in Nat
      /\ deaths[c] * K + (IF h > 0 THEN K - HitsLeft(h) ELSE 0) + n <= hurt[c]
  BY FS_CardinalityType DEF AccountInv, Account, Lost, Nets, TypeOK
<1>3. r \in Nets /\ IsFiniteSet(Comings(r, c)) /\ Cardinality(Comings(r, c)) = n - (IF struck THEN 1 ELSE 0)
  <2>1. CASE s = None
    BY <1>2, <2>1 DEF Drained
  <2>2. CASE s # None
    <3>1. /\ r \in Nets /\ r[s][c] = Tail(net[s][c])
          /\ \A p \in Clients \ {s} : r[p][c] = net[p][c]
      BY <2>2, DrainedTyped
    <3> HIDE DEF r
    <3> QED
      BY <1>2, <2>2, <3>1, ComingsTail
  <2> QED
    BY <2>1, <2>2
<1>4. Hp(c, s) = IF struck THEN TakeDamage(h) ELSE h
  BY DEF Hp
<1>5. /\ TakeDamage(h) \in 0..MaxHealth /\ TakeDamage(0) = 0 /\ HitsLeft(TakeDamage(h)) \in Int
      /\ HitsLeft(0) = 0 /\ (h > 0 => HitsLeft(TakeDamage(h)) = HitsLeft(h) - 1)
  <2>1. TakeDamage(h) \in 0..MaxHealth
    BY <1>1, Wounded
  <2>2. TakeDamage(0) = 0
    BY ConstantsAssumption DEF TakeDamage, Floor0
  <2> QED
    BY <1>1, <2>1, <2>2, HitCosts
<1>6. (deaths[c] + 1) * K = deaths[c] * K + K /\ deaths[c] * K \in Int
  BY <1>1
<1> DEFINE hp == IF wakes THEN MaxHealth ELSE Hp(c, s)
           died == IF h > 0 /\ Hp(c, s) = 0 THEN deaths[c] + 1 ELSE deaths[c]
           lost == IF hp > 0 THEN K - HitsLeft(hp) ELSE 0
           m == Cardinality(Comings(r, c))
<1>7. died * K + lost + m <= hurt[c]
  <2>1. CASE h = 0
    <3>1. Hp(c, s) = 0 /\ died = deaths[c]
      BY <1>4, <1>5, <2>1
    <3>2. lost = 0
      <4>1. hp = MaxHealth \/ hp = 0
        BY <3>1
      <4> QED
        BY <1>1, <4>1
    <3> HIDE DEF K, h, n, m, lost, died, struck, hp
    <3> QED
      BY <1>1, <1>2, <1>3, <1>6, <2>1, <3>1, <3>2 DEF m
  <2>2. CASE h > 0 /\ ~struck
    <3>1. hp = h /\ died = deaths[c] /\ lost = K - HitsLeft(h)
      BY <1>4, <2>2
    <3> HIDE DEF K, h, n, m, lost, died, struck, hp
    <3> QED
      BY <1>1, <1>2, <1>3, <1>6, <2>2, <3>1 DEF m
  <2>3. CASE h > 0 /\ struck
    <3>1. hp = TakeDamage(h) /\ Hp(c, s) = TakeDamage(h) /\ hp >= 0
      BY <1>4, <1>5, <2>3
    <3>2. m = n - 1
      BY <1>3, <2>3
    <3>3. CASE hp > 0
      <4>1. died = deaths[c] /\ lost = K - (HitsLeft(h) - 1)
        BY <1>5, <2>3, <3>1, <3>3
      <4>2. died * K = deaths[c] * K
        BY <4>1
      <4>3. deaths[c] * K + (K - HitsLeft(h)) + n <= hurt[c]
        BY <1>2, <2>3
      <4>4. deaths[c] * K \in Int /\ K \in Int /\ HitsLeft(h) \in Int /\ n \in Int /\ hurt[c] \in Int
        BY <1>1, <1>2, <1>6
      <4> HIDE DEF K, h, n, m, lost, died, struck, hp
      <4> QED
        BY <3>2, <4>1, <4>2, <4>3, <4>4
    <3>4. CASE hp = 0
      <4>1. died = deaths[c] + 1 /\ lost = 0 /\ HitsLeft(h) = 1
        BY <1>1, <1>5, <2>3, <3>1, <3>4
      <4>2. died * K = deaths[c] * K + K
        BY <1>6, <4>1
      <4>3. deaths[c] * K + (K - HitsLeft(h)) + n <= hurt[c]
        BY <1>2, <2>3
      <4>4. deaths[c] * K \in Int /\ K \in Int /\ HitsLeft(h) \in Int /\ n \in Int /\ hurt[c] \in Int
        BY <1>1, <1>2, <1>6
      <4> HIDE DEF K, h, n, m, lost, died, struck, hp
      <4> QED
        BY <3>2, <4>1, <4>2, <4>3, <4>4
    <3> QED
      BY <1>5, <3>1, <3>3, <3>4
  <2> QED
    BY <1>1, <2>1, <2>2, <2>3
<1> HIDE DEF r, K, h, hp, died, lost
<1> QED
  BY <1>3, <1>7 DEF r, K, h, hp, died, lost

LEMMA FrameAccount ==
  ASSUME TypeOK, AccountInv, NEW c \in Clients, NEW s \in Senders, NEW wakes \in BOOLEAN,
         NEW v \in Clients \cup {None}, NEW ms \in Seq(Msgs), Booked(c, s, wakes, v, ms),
         s # None => s \in Clients /\ s # c /\ net[s][c] # <<>>, wakes => health[c] = 0
  PROVE  AccountInv'
<1> SUFFICES ASSUME NEW d \in Clients PROVE Account(d)'
  BY DEF AccountInv
<1> DEFINE r == Drained(c, s)
           K == HitsLeft(MaxHealth)
           extra == IF d = v /\ {c, v} \subseteq online THEN 1 ELSE 0
<1>0. r \in Nets /\ v # c /\ net' = Push(r, c, ms) /\ OneHit(ms, v)
  BY DrainedTyped DEF Booked
<1>1. /\ health \in [Clients -> 0..MaxHealth] /\ deaths \in [Clients -> Nat] /\ hurt \in [Clients -> Nat]
      /\ None \notin Clients
  BY ConstantsAssumption DEF TypeOK
<1>2. hurt'[d] = hurt[d] + extra
  BY <1>1 DEF Booked
<1>3. /\ IsFiniteSet(Comings(r, d))
      /\ deaths'[d] * K + Lost(d)' + Cardinality(Comings(r, d)) <= hurt[d]
  <2>1. CASE d = c
    <3>1. /\ health'[d] = IF wakes THEN MaxHealth ELSE Hp(c, s)
          /\ deaths'[d] = IF health[c] > 0 /\ Hp(c, s) = 0 THEN deaths[c] + 1 ELSE deaths[c]
      BY <1>1, <2>1 DEF Booked
    <3> QED
      BY <2>1, <3>1, DrainedAccount DEF Lost
  <2>2. CASE d # c
    <3>1. health'[d] = health[d] /\ deaths'[d] = deaths[d]
      BY <1>1, <2>2 DEF Booked
    <3>2. Comings(r, d) = Comings(net, d)
      <4>1. net \in Nets
        BY DEF TypeOK, Nets
      <4>2. \A p \in Clients : r[p][d] = net[p][d]
        BY <2>2, DrainedTyped
      <4> HIDE DEF r
      <4> QED
        BY <1>0, <4>1, <4>2, ComingsSame
    <3> QED
      BY <3>1, <3>2 DEF AccountInv, Account, Lost
  <2> QED
    BY <2>1, <2>2
<1>4. /\ IsFiniteSet(Comings(net', d))
      /\ Cardinality(Comings(net', d)) = Cardinality(Comings(r, d)) + extra
  <2> HIDE DEF r
  <2> QED
    BY <1>0, <1>3, ComingsPush
<1>5. /\ deaths'[d] * K \in Int /\ Lost(d)' \in Int /\ hurt[d] \in Int /\ extra \in Int
      /\ Cardinality(Comings(r, d)) \in Int
  <2>1. health'[d] \in 0..MaxHealth /\ deaths'[d] \in Nat
    <3>1. Hp(c, s) \in 0..MaxHealth /\ MaxHealth \in 0..MaxHealth
      BY <1>1, Wounded, ConstantsAssumption DEF Hp
    <3> QED
      BY <1>1, <3>1 DEF Booked
  <2>2. K \in Int /\ HitsLeft(health'[d]) \in Int
    BY <1>1, <2>1, HitCosts, ConstantsAssumption
  <2> QED
    BY <1>1, <1>3, <2>1, <2>2, FS_CardinalityType DEF Lost
<1> HIDE DEF r, K, extra
<1>6. deaths'[d] * K + Lost(d)' + Cardinality(Comings(net', d)) <= hurt'[d]
  BY <1>2, <1>3, <1>4, <1>5
<1> QED
  BY <1>4, <1>6 DEF Account, K

\* A socket that closes loses frames to its own client only.
LEMMA CloseAccount ==
  ASSUME TypeOK, AccountInv, NEW c \in Clients, Disconnect(c)
  PROVE  AccountInv'
<1> SUFFICES ASSUME NEW d \in Clients PROVE Account(d)'
  BY DEF AccountInv
<1>1. net \in Nets /\ Account(d)
  BY DEF TypeOK, Nets, AccountInv
<1>2. \A p \in Clients : net'[p][d] = (CASE p = c /\ d \in online \ {c} -> Append(net[p][d], Leave)
                                         [] d = c -> <<>> [] OTHER -> net[p][d])
  BY DEF Disconnect, Leave
<1>3. health' = health /\ deaths' = deaths /\ hurt' = hurt
  BY DEF Disconnect
<1>4. CASE d = c
  <2>1. \A p \in Clients : net'[p][d] = <<>>
    BY <1>2, <1>4
  <2>2. Comings(net', d) = {}
    BY <2>1 DEF Comings
  <2>3. Cardinality({}) = 0 /\ IsFiniteSet({})
    BY FS_EmptySet
  <2>4. deaths[d] * HitsLeft(MaxHealth) + Lost(d) <= hurt[d]
    <3>1. Cardinality(Comings(net, d)) \in Nat
      BY <1>1, FS_CardinalityType DEF Account
    <3>2. deaths[d] \in Nat /\ hurt[d] \in Nat /\ health[d] \in 0..MaxHealth
      BY DEF TypeOK
    <3>3. HitsLeft(MaxHealth) \in Int /\ HitsLeft(health[d]) \in Int
      BY <3>2, HitCosts, ConstantsAssumption
    <3>4. Lost(d) \in Int /\ deaths[d] * HitsLeft(MaxHealth) \in Int
      BY <3>2, <3>3 DEF Lost
    <3> QED
      BY <1>1, <3>1, <3>2, <3>4 DEF Account
  <2>5. Lost(d)' = Lost(d)
    BY <1>3 DEF Lost
  <2>6. Lost(d) \in Int /\ deaths[d] * HitsLeft(MaxHealth) \in Int
    <3>1. deaths[d] \in Nat /\ health[d] \in 0..MaxHealth
      BY DEF TypeOK
    <3> QED
      BY <3>1, HitCosts, ConstantsAssumption DEF Lost
  <2> QED
    BY <1>3, <2>2, <2>3, <2>4, <2>5, <2>6 DEF Account
<1>5. CASE d # c
  <2>1. Comings(net', d) = Comings(net, d)
    <3>1. \A p \in Clients : /\ net[p][d] \in Seq(Msgs)
                             /\ net'[p][d] = net[p][d] \/ net'[p][d] = Append(net[p][d], Leave)
      BY <1>1, <1>2, <1>5 DEF Nets
    <3>2. Leave # HitOn(d)
      BY DEF Leave, HitOn
    <3>3. \A p \in Clients : {j \in DOMAIN net'[p][d] : net'[p][d][j] = HitOn(d)}
                                = {j \in DOMAIN net[p][d] : net[p][d][j] = HitOn(d)}
      <4> SUFFICES ASSUME NEW p \in Clients, net'[p][d] = Append(net[p][d], Leave)
                   PROVE  {j \in DOMAIN net'[p][d] : net'[p][d][j] = HitOn(d)}
                             = {j \in DOMAIN net[p][d] : net[p][d][j] = HitOn(d)}
        BY <3>1
      <4>1. PICK q \in Seq(Msgs) : q = net[p][d]
        BY <3>1
      <4>2. /\ DOMAIN q = 1..Len(q) /\ DOMAIN Append(q, Leave) = 1..(Len(q) + 1) /\ Len(q) \in Nat
            /\ \A j \in 1..Len(q) : Append(q, Leave)[j] = q[j]
            /\ Append(q, Leave)[Len(q) + 1] = Leave
        OBVIOUS
      <4> QED
        BY <3>2, <4>1, <4>2
    <3> QED
      BY <3>3 DEF Comings
  <2> QED
    BY <1>1, <1>3, <2>1 DEF Account, Lost
<1> QED
  BY <1>4, <1>5

\* DamageAccounted for any numbers: a client's deaths and wounds are paid for,
\* hit by hit, by frames that name it, whatever is still under way.
THEOREM DamageIsAccounted == Spec => []DamageAccounted
<1>1. ASSUME Init PROVE IInv /\ AccountInv
  <2>1. IInv /\ TypeOK
    BY <1>1, IInit DEF IInv
  <2>2. ASSUME NEW d \in Clients PROVE Account(d)
    <3>1. Comings(net, d) = {}
      BY <1>1 DEF Init, Comings
    <3>2. Cardinality({}) = 0 /\ IsFiniteSet({})
      BY FS_EmptySet
    <3>3. health[d] = MaxHealth /\ deaths[d] = 0 /\ hurt[d] = 0
      BY <1>1 DEF Init
    <3>4. HitsLeft(MaxHealth) \in Int
      BY HitCosts, ConstantsAssumption
    <3> QED
      BY <3>1, <3>2, <3>3, <3>4 DEF Account, Lost
  <2> QED
    BY <2>1, <2>2 DEF AccountInv
<1>2. ASSUME IInv, AccountInv, [Next]_vars PROVE IInv' /\ AccountInv'
  <2>0. TypeOK /\ OwnFrames
    BY <1>2 DEF IInv
  <2>1. ASSUME NEW c \in Clients, NEW fire \in BOOLEAN, NEW wakes \in BOOLEAN, NEW tick \in BOOLEAN,
               NEW s \in Senders, Frame(c, fire, s, wakes, tick)
        PROVE  AccountInv'
    BY <1>2, <2>0, <2>1, FrameBooks, FrameAccount
  <2>2. ASSUME NEW c \in Clients, Disconnect(c) PROVE AccountInv'
    BY <1>2, <2>0, <2>2, CloseAccount
  <2>3. ASSUME UNCHANGED vars PROVE AccountInv'
    BY <1>2, <2>3 DEF vars, AccountInv, Account, Lost, Comings
  <2>4. IInv'
    BY <1>2, IStep
  <2> QED
    BY <1>2, <2>1, <2>2, <2>3, <2>4 DEF Next
<1>3. ASSUME IInv, AccountInv PROVE DamageAccounted
  <2>1. \A d \in Clients : Coming(d) = Cardinality(Comings(net, d))
    BY DEF Coming, Comings, HitOn
  <2> QED
    BY <1>3, <2>1 DEF IInv, AccountInv, Account, Lost, DamageAccounted
<1> QED
  BY <1>1, <1>2, <1>3, PTL DEF Spec
=============================================================================
