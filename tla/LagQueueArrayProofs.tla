------------------------ MODULE LagQueueArrayProofs ------------------------
(***************************************************************************)
(* Proofs about LagQueueArray and the LagQueue it implements, for every    *)
(* capacity, delay limit and set of settings: what the two loops of        *)
(* lag_queue.c compute, that the array implements LagQueue, what LagQueue  *)
(* promises, that the array therefore keeps each direction in order and    *)
(* never overflows, and that the computed wait is the right one.           *)
(*                                                                         *)
(* The loops are functions over their turns.  That such a function exists  *)
(* (Recursion), and what holds after every turn, go by induction over the  *)
(* turns (Induct), which a least counterexample gives (Least).             *)
(***************************************************************************)
EXTENDS LagQueueArray, FiniteSetTheorems, WellFoundedInduction, TLAPS

Entry == [id : Ids, outbound : BOOLEAN, arrived_ms : Nat, pos : Nat]

(* What an entry remembers: the packet as it was pushed, and a time past.  *)
Records ==
  \A i \in 1 .. Len(packets) :
    /\ packets[i].arrived_ms <= now
    /\ packets[i].pos \in 1 .. Len(pushed)
    /\ pushed[packets[i].pos] = [id |-> packets[i].id, outbound |-> packets[i].outbound]

(* The array lists held packets in the order they came.                    *)
Ordered(ps) == \A i, j \in 1 .. Len(ps) : i < j => ps[i].pos < ps[j].pos

Inv ==
  /\ packets \in Seq(Entry) /\ now \in Nat /\ now <= LongAgo
  /\ lag \in LagSettings /\ lagSettingsValidate(lag)
  /\ pushed \in Seq([id : Ids, outbound : BOOLEAN])
  /\ Records /\ Ordered(packets)

-----------------------------------------------------------------------------
(* Induction over the turns of a loop.                                     *)

LEMMA Least ==
  ASSUME NEW S \in SUBSET Nat, S # {}
  PROVE  \E n \in S : \A m \in S : n <= m
<1>1. PICK n \in S : \A m \in S : <<m, n>> \notin OpToRel(<, Nat)
  BY NatLessThanWellFounded, WFMin
<1>2. \A m \in S : ~(m < n)
  BY <1>1, Zenon DEF OpToRel
<1>. QED BY <1>2

LEMMA Induct ==
  ASSUME NEW len \in Nat, NEW S, 0 \in S,
         \A n \in 0 .. len : n \in S /\ n < len => n + 1 \in S
  PROVE  0 .. len \subseteq S
<1>. SUFFICES ASSUME ~(0 .. len \subseteq S) PROVE FALSE
  OBVIOUS
<1>. DEFINE Out == (0 .. len) \ S
<1>1. Out # {} /\ Out \in SUBSET Nat
  OBVIOUS
<1>2. PICK n \in Out : \A m \in Out : n <= m
  BY <1>1, Least
<1>3. n # 0 /\ n - 1 \in 0 .. len /\ n - 1 < len /\ n - 1 \notin Out
  BY <1>2
<1>. QED BY <1>2, <1>3

-----------------------------------------------------------------------------
(* The loops, turn by turn.                                                *)

(* A loop of len turns: turn n makes step[<<n, x>>] of x.                  *)
Steps(len, Values) == [(1 .. len) \X Values -> Values]

Accumulates(f, len, start, step) ==
  f[0] = start /\ \A n \in 1 .. len : f[n] = step[<<n, f[n - 1]>>]

(* What a loop accumulates turn by turn exists.                            *)
LEMMA Recursion ==
  ASSUME NEW len \in Nat, NEW Values, NEW base \in Values, NEW step \in Steps(len, Values)
  PROVE  \E f \in [0 .. len -> Values] : Accumulates(f, len, base, step)
<1>. USE DEF Steps, Accumulates
<1>. DEFINE Upto(f, m) == f[0] = base /\ \A n \in 1 .. m : f[n] = step[<<n, f[n - 1]>>]
            S == {m \in 0 .. len : \E f \in [0 .. len -> Values] : Upto(f, m)}
<1>1. 0 \in S
  <2>. DEFINE g == [n \in 0 .. len |-> base]
  <2>1. g \in [0 .. len -> Values] /\ g[0] = base /\ 0 \in 0 .. len
    OBVIOUS
  <2>. HIDE DEF g
  <2>2. Upto(g, 0)
    BY <2>1
  <2>. QED BY <2>1, <2>2
<1>2. ASSUME NEW m \in 0 .. len, m \in S, m < len PROVE m + 1 \in S
  <2>1. PICK f \in [0 .. len -> Values] : Upto(f, m)
    BY <1>2
  <2>2. <<m + 1, f[m]>> \in (1 .. len) \X Values
    BY <1>2
  <2>. DEFINE next == step[<<m + 1, f[m]>>]
              g == [n \in 0 .. len |-> IF n = m + 1 THEN next ELSE f[n]]
  <2>3. next \in Values
    BY <2>2
  <2>4. g \in [0 .. len -> Values]
    BY <2>3
  <2>5. \A n \in 0 .. m : g[n] = f[n]
    BY <1>2
  <2>6. g[m + 1] = next
    BY <1>2
  <2>. HIDE DEF g
  <2>7. ASSUME NEW n \in 1 .. m PROVE g[n] = step[<<n, g[n - 1]>>]
    <3>1. n \in 0 .. m /\ n - 1 \in 0 .. m
      BY <1>2
    <3>. QED BY <2>1, <2>5, <3>1
  <2>8. g[m + 1] = step[<<m + 1, g[(m + 1) - 1]>>]
    <3>1. (m + 1) - 1 = m /\ m \in 0 .. m
      BY <1>2
    <3>. QED BY <2>5, <2>6, <3>1
  <2>9. g[0] = base
    <3>1. 0 \in 0 .. m
      BY <1>2
    <3>. QED BY <2>1, <2>5, <3>1
  <2>10. \A n \in 1 .. m + 1 : n \in 1 .. m \/ n = m + 1
    BY <1>2
  <2>11. Upto(g, m + 1)
    BY <2>7, <2>8, <2>9, <2>10
  <2>. QED BY <1>2, <2>4, <2>11
<1>3. \A n \in 0 .. len : n \in S /\ n < len => n + 1 \in S
  BY <1>2
<1>4. 0 .. len \subseteq S
  <2>. HIDE DEF S
  <2>. QED BY <1>1, <1>3, Induct
<1>. QED BY <1>4

LEMMA RemainingTyped ==
  ASSUME Inv, NEW i \in 1 .. Len(packets)
  PROVE  remaining(packets[i]) \in Nat
<1>1. Delay(lag, packets[i].outbound) \in Nat
  BY DEF Inv, LagSettings, Delay
<1>2. packets[i].arrived_ms \in Nat
  <2>1. packets[i] \in Entry
    BY DEF Inv
  <2>. QED BY <2>1 DEF Entry
<1>3. now \in Nat
  BY DEF Inv
<1>. HIDE DEF Inv
<1>. DEFINE delay == Delay(lag, packets[i].outbound)
            at == packets[i].arrived_ms
<1>4. remaining(packets[i]) =
        LET elapsed == IF now >= at THEN now - at ELSE 0
        IN  IF delay = 0 \/ elapsed >= delay THEN 0 ELSE delay - elapsed
  BY DEF remaining
<1>. HIDE DEF delay, at
<1>. QED BY <1>1, <1>2, <1>3, <1>4 DEF delay, at

LEMMA ShortestTurns ==
  ASSUME Inv
  PROVE  /\ Shortest[0] = -1
         /\ \A n \in 1 .. Len(packets) :
              Shortest[n] = IF Shortest[n - 1] < 0 \/ remaining(packets[n]) < Shortest[n - 1]
                            THEN remaining(packets[n]) ELSE Shortest[n - 1]
<1>. DEFINE len == Len(packets)
            step == [p \in (1 .. len) \X Int |->
                       IF p[2] < 0 \/ remaining(packets[p[1]]) < p[2]
                       THEN remaining(packets[p[1]]) ELSE p[2]]
            Turns(g) == [n \in 0 .. len |->
                           IF n = 0 THEN -1
                           ELSE IF g[n - 1] < 0 \/ remaining(packets[n]) < g[n - 1]
                           THEN remaining(packets[n])
                           ELSE g[n - 1]]
<1>1. len \in Nat
  BY DEF Inv
<1>2. \A n \in 1 .. len : remaining(packets[n]) \in Int
  BY RemainingTyped
<1>3. step \in Steps(len, Int)
  BY <1>2 DEF Steps
<1>4. \A n \in 1 .. len, x \in Int :
        step[<<n, x>>] = IF x < 0 \/ remaining(packets[n]) < x
                         THEN remaining(packets[n]) ELSE x
  OBVIOUS
<1>. HIDE DEF step, len
<1>5. PICK f \in [0 .. len -> Int] : Accumulates(f, len, -1, step)
  BY <1>1, <1>3, -1 \in Int, Recursion
<1>6. f = Turns(f)
  <2>1. ASSUME NEW n \in 0 .. len PROVE f[n] = Turns(f)[n]
    <3>1. CASE n = 0
      BY <1>5, <3>1 DEF Accumulates
    <3>2. CASE n # 0
      <4>1. n \in 1 .. len /\ n - 1 \in 0 .. len
        BY <1>1, <3>2
      <4>2. f[n] = step[<<n, f[n - 1]>>] /\ f[n - 1] \in Int
        BY <1>5, <4>1 DEF Accumulates
      <4>. QED BY <1>4, <3>2, <4>1, <4>2
    <3>. QED BY <3>1, <3>2
  <2>. QED BY <2>1
<1>7. Shortest = Turns(Shortest)
  BY <1>6 DEF Shortest, len
<1>8. Shortest[0] = -1
  BY <1>1, <1>7
<1>9. ASSUME NEW n \in 1 .. len
      PROVE  Shortest[n] = IF Shortest[n - 1] < 0 \/ remaining(packets[n]) < Shortest[n - 1]
                           THEN remaining(packets[n]) ELSE Shortest[n - 1]
  <2>1. n \in 0 .. len /\ n # 0
    BY <1>1
  <2>2. Shortest[n] = Turns(Shortest)[n]
    BY <1>7
  <2>. QED BY <2>1, <2>2
<1>. QED BY <1>8, <1>9 DEF len

Pass == [failed : BOOLEAN, kept : Seq(Entry)]

LEMMA TurnTyped ==
  ASSUME NEW drain, NEW failing, NEW pass \in Pass, NEW packet \in Entry
  PROVE  Turn(drain, failing, pass, packet) \in Pass
<1>1. pass.failed \in BOOLEAN /\ pass.kept \in Seq(Entry)
  BY DEF Pass
<1>2. Append(pass.kept, packet) \in Seq(Entry)
  BY <1>1
<1>3. [pass EXCEPT !.kept = Append(@, packet)] \in Pass
  BY <1>2 DEF Pass
<1>4. [failed |-> TRUE, kept |-> Append(pass.kept, packet)] \in Pass
  BY <1>2 DEF Pass
<1>. QED BY <1>3, <1>4 DEF Turn

LEMMA PassedTurns ==
  ASSUME Inv, NEW drain, NEW failing
  PROVE  /\ Passed(drain, failing)[0] = [failed |-> FALSE, kept |-> <<>>]
         /\ \A n \in 1 .. Len(packets) :
              Passed(drain, failing)[n]
                = Turn(drain, failing, Passed(drain, failing)[n - 1], packets[n])
<1>. DEFINE len == Len(packets)
            start == [failed |-> FALSE, kept |-> <<>>]
            step == [p \in (1 .. len) \X Pass |-> Turn(drain, failing, p[2], packets[p[1]])]
            Turns(g) == [n \in 0 .. len |->
                           IF n = 0 THEN start
                           ELSE Turn(drain, failing, g[n - 1], packets[n])]
            all == Passed(drain, failing)
<1>1. len \in Nat /\ \A n \in 1 .. len : packets[n] \in Entry
  BY DEF Inv
<1>2. start \in Pass
  <2>1. <<>> \in Seq(Entry)
    OBVIOUS
  <2>. QED BY <2>1 DEF Pass
<1>3. step \in Steps(len, Pass)
  BY <1>1, TurnTyped DEF Steps
<1>4. \A n \in 1 .. len, x \in Pass : step[<<n, x>>] = Turn(drain, failing, x, packets[n])
  OBVIOUS
<1>. HIDE DEF step, len, start
<1>5. PICK f \in [0 .. len -> Pass] : Accumulates(f, len, start, step)
  BY <1>1, <1>2, <1>3, Recursion
<1>6. f = Turns(f)
  <2>1. ASSUME NEW n \in 0 .. len PROVE f[n] = Turns(f)[n]
    <3>1. CASE n = 0
      BY <1>5, <3>1 DEF Accumulates
    <3>2. CASE n # 0
      <4>1. n \in 1 .. len /\ n - 1 \in 0 .. len
        BY <1>1, <3>2
      <4>2. f[n] = step[<<n, f[n - 1]>>] /\ f[n - 1] \in Pass
        BY <1>5, <4>1 DEF Accumulates
      <4>. QED BY <1>4, <3>2, <4>1, <4>2
    <3>. QED BY <3>1, <3>2
  <2>. QED BY <2>1
<1>7. all = Turns(all)
  BY <1>6 DEF Passed, len, start
<1>. HIDE DEF all
<1>8. all[0] = start
  BY <1>1, <1>7
<1>9. ASSUME NEW n \in 1 .. len
      PROVE  all[n] = Turn(drain, failing, all[n - 1], packets[n])
  <2>1. n \in 0 .. len /\ n # 0
    BY <1>1
  <2>2. all[n] = Turns(all)[n]
    BY <1>7
  <2>. QED BY <2>1, <2>2
<1>. QED BY <1>8, <1>9 DEF all, len, start

-----------------------------------------------------------------------------
(* What a pass does.                                                       *)

(* The loop asks a verdict for packet i, if it gets there.                 *)
Due(drain, i) == drain \/ remaining(packets[i]) = 0

Falls(drain, failing, i) == Due(drain, i) /\ packets[i].id = failing

(* Packet i stays: it is not due, or a verdict up to it failed.            *)
Stays(drain, failing, i) ==
  Due(drain, i) => \E j \in 1 .. i : Falls(drain, failing, j)

(* The pass after m turns: it has failed if one of them did, and keeps     *)
(* what stays, in order.                                                   *)
After(drain, failing, m, pass) ==
  /\ pass \in Pass
  /\ pass.failed <=> \E j \in 1 .. m : Falls(drain, failing, j)
  /\ \A x \in 1 .. Len(pass.kept) :
       \E i \in 1 .. m : Stays(drain, failing, i) /\ pass.kept[x] = packets[i]
  /\ \A i \in 1 .. m :
       Stays(drain, failing, i) => \E x \in 1 .. Len(pass.kept) : pass.kept[x] = packets[i]
  /\ Ordered(pass.kept)

LEMMA TurnMoves ==
  ASSUME Inv, NEW drain \in BOOLEAN, NEW failing, NEW m \in Nat, m < Len(packets),
         NEW pass, After(drain, failing, m, pass)
  PROVE  After(drain, failing, m + 1, Turn(drain, failing, pass, packets[m + 1]))
<1>. DEFINE n == m + 1
            packet == packets[n]
            then == Turn(drain, failing, pass, packet)
            F(j) == Falls(drain, failing, j)
            St(i) == Stays(drain, failing, i)
<1>1. n \in 1 .. Len(packets) /\ packet \in Entry /\ 1 .. n = (1 .. m) \cup {n}
  BY DEF Inv
<1>2. pass.failed \in BOOLEAN /\ pass.kept \in Seq(Entry)
  BY DEF After, Pass
<1>3. then.failed = (pass.failed \/ F(n))
  BY <1>2 DEF Turn, Falls, Due, After, Pass
<1>4. then.failed <=> \E j \in 1 .. n : F(j)
  BY <1>1, <1>3 DEF After
<1>5. then \in Pass
  BY <1>1, TurnTyped DEF After
<1>6. CASE St(n)
  <2>1. then.kept = Append(pass.kept, packet)
    <3>1. pass.failed \/ ~Due(drain, n) \/ F(n)
      BY <1>1, <1>6 DEF Stays, After
    <3>. QED BY <1>2, <3>1 DEF Turn, Falls, Due, After, Pass
  <2>. DEFINE len == Len(pass.kept)
  <2>2. /\ len \in Nat /\ Len(then.kept) = len + 1
        /\ \A x \in 1 .. len : then.kept[x] = pass.kept[x]
        /\ then.kept[len + 1] = packet
    BY <1>1, <1>2, <2>1
  <2>. HIDE DEF len, then
  <2>3. \A x \in 1 .. len : \E i \in 1 .. m : St(i) /\ then.kept[x] = packets[i]
    BY <2>2 DEF After, len
  <2>4. \A x \in 1 .. Len(then.kept) : \E i \in 1 .. n : St(i) /\ then.kept[x] = packets[i]
    <3>. SUFFICES ASSUME NEW x \in 1 .. len + 1
                  PROVE  \E i \in 1 .. n : St(i) /\ then.kept[x] = packets[i]
      BY <2>2
    <3>. QED BY <1>1, <1>6, <2>2, <2>3
  <2>5. ASSUME NEW i \in 1 .. n, St(i)
        PROVE  \E x \in 1 .. Len(then.kept) : then.kept[x] = packets[i]
    <3>1. CASE i = n
      BY <2>2, <3>1
    <3>2. CASE i \in 1 .. m
      <4>1. PICK x \in 1 .. len : pass.kept[x] = packets[i]
        BY <2>5, <3>2 DEF After, len
      <4>. QED BY <2>2, <4>1
    <3>. QED BY <1>1, <3>1, <3>2
  <2>6. ASSUME NEW x \in 1 .. len + 1, NEW y \in 1 .. len + 1, x < y
        PROVE  then.kept[x].pos < then.kept[y].pos
    <3>1. x \in 1 .. len
      BY <2>2, <2>6
    <3>2. CASE y \in 1 .. len
      BY <2>2, <2>6, <3>1, <3>2 DEF After, Ordered, len
    <3>3. CASE y = len + 1
      <4>1. PICK i \in 1 .. m : then.kept[x] = packets[i]
        BY <2>3, <3>1
      <4>2. packets[i].pos < packet.pos
        <5>1. i \in 1 .. Len(packets) /\ i < n
          BY <1>1
        <5>. QED BY <1>1, <5>1 DEF Inv, Ordered
      <4>. QED BY <2>2, <3>3, <4>1, <4>2
    <3>. QED BY <2>2, <3>2, <3>3
  <2>7. Ordered(then.kept)
    BY <2>2, <2>6 DEF Ordered
  <2>. QED BY <1>4, <1>5, <2>4, <2>5, <2>7 DEF After, then
<1>7. CASE ~St(n)
  <2>1. then = pass
    <3>1. ~pass.failed /\ Due(drain, n) /\ ~F(n)
      BY <1>1, <1>7 DEF Stays, After
    <3>. QED BY <3>1 DEF Turn, Falls, Due
  <2>. HIDE DEF then
  <2>2. \A x \in 1 .. Len(pass.kept) : \E i \in 1 .. n : St(i) /\ pass.kept[x] = packets[i]
    BY <1>1 DEF After
  <2>3. \A i \in 1 .. n : St(i) => \E x \in 1 .. Len(pass.kept) : pass.kept[x] = packets[i]
    BY <1>1, <1>7 DEF After
  <2>. QED BY <1>4, <1>5, <2>1, <2>2, <2>3 DEF After, then
<1>. QED BY <1>6, <1>7

(* The compacting loop leaves the packets that stay, in their order.       *)
LEMMA PassKeeps ==
  ASSUME Inv, NEW drain \in BOOLEAN, NEW failing
  PROVE  After(drain, failing, Len(packets), Passed(drain, failing)[Len(packets)])
<1>. DEFINE len == Len(packets)
            S == {m \in 0 .. len : After(drain, failing, m, Passed(drain, failing)[m])}
<1>1. len \in Nat
  BY DEF Inv
<1>2. 0 \in S
  <2>. DEFINE start == [failed |-> FALSE, kept |-> <<>>]
  <2>1. start \in Pass
    <3>1. <<>> \in Seq(Entry)
      OBVIOUS
    <3>. QED BY <3>1 DEF Pass
  <2>2. After(drain, failing, 0, start)
    BY <2>1 DEF After, Ordered
  <2>. QED BY <1>1, <2>2, PassedTurns
<1>3. ASSUME NEW n \in 0 .. len, n \in S, n < len PROVE n + 1 \in S
  <2>1. n \in Nat /\ n + 1 \in 1 .. len /\ (n + 1) - 1 = n
    BY <1>1, <1>3
  <2>2. Passed(drain, failing)[n + 1]
          = Turn(drain, failing, Passed(drain, failing)[n], packets[n + 1])
    BY <2>1, PassedTurns
  <2>3. After(drain, failing, n, Passed(drain, failing)[n])
    BY <1>3
  <2>. QED BY <1>1, <1>3, <2>1, <2>2, <2>3, TurnMoves
<1>4. 0 .. len \subseteq S
  <2>. HIDE DEF S
  <2>. QED BY <1>1, <1>2, <1>3, Induct
<1>. QED BY <1>1, <1>4

-----------------------------------------------------------------------------
(* The array read as ages by position.                                     *)

Capped(a) == IF a > LagMaxMs THEN LagMaxMs + 1 ELSE a

PositionOf(ps, k) == CHOOSE i \in DOMAIN ps : ps[i].pos = k

(* ageBar, of any array at any time.                                       *)
Ages(ps, time) ==
  [k \in {ps[i].pos : i \in DOMAIN ps} |->
     IF time - ps[PositionOf(ps, k)].arrived_ms > LagMaxMs THEN LagMaxMs + 1
     ELSE time - ps[PositionOf(ps, k)].arrived_ms]

LEMMA AgeBarIs ==
  /\ ageBar = Ages(packets, now)
  /\ ageBar' = Ages(packets', now')
<1>1. ageBar = Ages(packets, now)
  BY DEF ageBar, Ages, At, PositionOf
<1>2. ageBar' = Ages(packets', now')
  BY DEF ageBar, Ages, At, PositionOf
<1>. QED BY <1>1, <1>2

LEMMA PositionsDiffer ==
  ASSUME NEW ps \in Seq(Entry), Ordered(ps),
         NEW i \in 1 .. Len(ps), NEW j \in 1 .. Len(ps), ps[i].pos = ps[j].pos
  PROVE  i = j
<1>1. ps[i].pos \in Nat /\ ps[j].pos \in Nat
  <2>1. ps[i] \in Entry /\ ps[j] \in Entry
    OBVIOUS
  <2>. QED BY <2>1 DEF Entry
<1>2. ~(i < j) /\ ~(j < i)
  BY <1>1 DEF Ordered
<1>. QED BY <1>2

LEMMA AgesRead ==
  ASSUME NEW ps \in Seq(Entry), NEW time \in Nat, Ordered(ps)
  PROVE  /\ DOMAIN Ages(ps, time) = {ps[i].pos : i \in 1 .. Len(ps)}
         /\ \A i \in 1 .. Len(ps) : Ages(ps, time)[ps[i].pos] = Capped(time - ps[i].arrived_ms)
<1>1. DOMAIN ps = 1 .. Len(ps)
  OBVIOUS
<1>2. ASSUME NEW i \in 1 .. Len(ps) PROVE PositionOf(ps, ps[i].pos) = i
  <2>. DEFINE j == PositionOf(ps, ps[i].pos)
  <2>1. j \in DOMAIN ps /\ ps[j].pos = ps[i].pos
    BY <1>1 DEF PositionOf
  <2>. HIDE DEF j
  <2>2. j \in 1 .. Len(ps) /\ ps[j].pos = ps[i].pos
    BY <1>1, <2>1
  <2>3. j = i
    BY <2>2, PositionsDiffer
  <2>. QED BY <2>3 DEF j
<1>. QED BY <1>1, <1>2 DEF Ages, Capped

(* age gives every packet of ps the age it has at that time, and nothing   *)
(* else an age.                                                            *)
Reads(age, ps, time) ==
  /\ age = [k \in {ps[i].pos : i \in 1 .. Len(ps)} |-> age[k]]
  /\ \A i \in 1 .. Len(ps) : age[ps[i].pos] = Capped(time - ps[i].arrived_ms)

LEMMA AgesEqual ==
  ASSUME NEW ps \in Seq(Entry), NEW time \in Nat, Ordered(ps), NEW age, Reads(age, ps, time)
  PROVE  Ages(ps, time) = age
<1>. DEFINE D == {ps[i].pos : i \in 1 .. Len(ps)}
<1>. USE DEF Reads
<1>1. DOMAIN Ages(ps, time) = D /\ Ages(ps, time) = [k \in D |-> Ages(ps, time)[k]]
  BY AgesRead DEF Ages
<1>2. ASSUME NEW k \in D PROVE Ages(ps, time)[k] = age[k]
  <2>1. PICK i \in 1 .. Len(ps) : k = ps[i].pos
    OBVIOUS
  <2>2. Ages(ps, time)[ps[i].pos] = Capped(time - ps[i].arrived_ms)
    BY AgesRead
  <2>. QED BY <2>1, <2>2
<1>. QED BY <1>1, <1>2

(* What stands in the array is pushed, and its age is its waiting time.    *)
LEMMA Held ==
  ASSUME Inv
  PROVE  /\ Q!held = {packets[i].pos : i \in 1 .. Len(packets)}
         /\ \A i \in 1 .. Len(packets) :
              /\ packets[i].pos \in Q!held
              /\ ageBar[packets[i].pos] = Capped(now - packets[i].arrived_ms)
              /\ packets[i].pos \in 1 .. Len(pushed)
              /\ pushed[packets[i].pos]
                    = [id |-> packets[i].id, outbound |-> packets[i].outbound]
  BY AgeBarIs, AgesRead DEF Inv, Records, Q!held

(* The loop finds a packet due when its age has reached its delay.         *)
LEMMA RemainingAgrees ==
  ASSUME Inv, NEW i \in 1 .. Len(packets), NEW t \in Nat
  PROVE  LET k == packets[i].pos IN
         /\ t < remaining(packets[i]) => Q!Remaining(k, ageBar[k] + t) > 0
         /\ t >= remaining(packets[i]) => Q!Remaining(k, ageBar[k] + t) = 0
         /\ Q!Remaining(k, ageBar[k]) = 0 <=> remaining(packets[i]) = 0
<1>. DEFINE delay == Delay(lag, packets[i].outbound)
            at == packets[i].arrived_ms
            k == packets[i].pos
            a == ageBar[k]
<1>1. delay \in 0 .. LagMaxMs
  BY LagLimitsAssumption DEF Inv, LagSettings, lagSettingsValidate, Delay
<1>2. at \in Nat /\ now \in Nat /\ at <= now
  <2>1. packets[i] \in Entry
    BY DEF Inv
  <2>. QED BY <2>1 DEF Entry, Inv, Records
<1>3. a = IF now - at > LagMaxMs THEN LagMaxMs + 1 ELSE now - at
  BY Held DEF Capped
<1>4. pushed[k].outbound = packets[i].outbound
  <2>1. pushed[k] = [id |-> packets[i].id, outbound |-> packets[i].outbound]
    BY Held
  <2>. QED BY <2>1
<1>5. remaining(packets[i]) =
        LET elapsed == IF now >= at THEN now - at ELSE 0
        IN  IF delay = 0 \/ elapsed >= delay THEN 0 ELSE delay - elapsed
  BY DEF remaining
<1>6. \A b \in Int : Q!Remaining(k, b) = IF b >= delay THEN 0 ELSE delay - b
  <2>1. Q!Delay(lag, pushed[k].outbound) = delay
    BY <1>4 DEF Q!Delay, Delay
  <2>. HIDE DEF delay, k
  <2>. QED BY <2>1 DEF Q!Remaining
<1>. HIDE DEF delay, at, k, a
<1>7. LagMaxMs \in Nat
  BY LagLimitsAssumption
<1>8. /\ t < remaining(packets[i]) => Q!Remaining(k, a + t) > 0
      /\ t >= remaining(packets[i]) => Q!Remaining(k, a + t) = 0
      /\ Q!Remaining(k, a) = 0 <=> remaining(packets[i]) = 0
  BY <1>1, <1>2, <1>3, <1>5, <1>6, <1>7
<1>. QED BY <1>8 DEF k, a

-----------------------------------------------------------------------------
(* The actions, field by field.                                            *)

LEMMA ProcessLeaves ==
  ASSUME Inv, NEW drain \in BOOLEAN, NEW failing, linuxLagQueueProcess(drain, failing)
  PROVE  /\ packets' \in Seq(Entry) /\ Ordered(packets')
         /\ \A x \in 1 .. Len(packets') :
              \E i \in 1 .. Len(packets) :
                Stays(drain, failing, i) /\ packets'[x] = packets[i]
         /\ \A i \in 1 .. Len(packets) :
              Stays(drain, failing, i) => \E x \in 1 .. Len(packets') : packets'[x] = packets[i]
<1>. DEFINE pass == Passed(drain, failing)[Len(packets)]
<1>1. packets' = pass.kept
  BY DEF linuxLagQueueProcess, Kept
<1>2. After(drain, failing, Len(packets), pass)
  BY PassKeeps
<1>. HIDE DEF pass
<1>3. pass.kept \in Seq(Entry)
  BY <1>2 DEF After, Pass
<1>. QED BY <1>1, <1>2, <1>3 DEF After

LEMMA PushAppends ==
  ASSUME Inv, NEW id \in Ids, NEW outbound \in BOOLEAN, linuxLagQueuePush(id, outbound)
  PROVE  LET len == Len(packets)
             n == Len(pushed) + 1
         IN  /\ n \in Nat /\ len \in Nat
             /\ packets' \in Seq(Entry) /\ Len(packets') = len + 1 /\ Ordered(packets')
             /\ \A i \in 1 .. len : packets'[i] = packets[i]
             /\ packets'[len + 1].pos = n /\ packets'[len + 1].arrived_ms = now
             /\ packets'[len + 1].id = id /\ packets'[len + 1].outbound = outbound
             /\ Len(pushed') = n /\ pushed'[n] = [id |-> id, outbound |-> outbound]
             /\ \A k \in 1 .. Len(pushed) : pushed'[k] = pushed[k]
<1>. DEFINE len == Len(packets)
            n == Len(pushed) + 1
            new == [id |-> id, outbound |-> outbound, arrived_ms |-> now, pos |-> n]
<1>1. n \in Nat /\ len \in Nat /\ now \in Nat
  BY DEF Inv
<1>2. new \in Entry
  BY <1>1 DEF Entry
<1>3. new.pos = n /\ new.arrived_ms = now /\ new.id = id /\ new.outbound = outbound
  OBVIOUS
<1>4. packets' = Append(packets, new)
  BY DEF linuxLagQueuePush
<1>5. /\ Len(pushed') = n /\ pushed'[n] = [id |-> id, outbound |-> outbound]
      /\ \A k \in 1 .. Len(pushed) : pushed'[k] = pushed[k]
  <2>1. pushed' = Append(pushed, [id |-> id, outbound |-> outbound])
    BY DEF linuxLagQueuePush
  <2>2. pushed \in Seq([id : Ids, outbound : BOOLEAN])
    BY DEF Inv
  <2>. QED BY <2>1, <2>2
<1>. HIDE DEF new
<1>6. /\ packets' \in Seq(Entry) /\ Len(packets') = len + 1 /\ packets'[len + 1] = new
      /\ \A i \in 1 .. len : packets'[i] = packets[i]
  BY <1>2, <1>4 DEF Inv
<1>7. ASSUME NEW i \in 1 .. len + 1, NEW j \in 1 .. len + 1, i < j
      PROVE  packets'[i].pos < packets'[j].pos
  <2>1. i \in 1 .. len
    BY <1>1, <1>7
  <2>2. CASE j \in 1 .. len
    BY <1>6, <1>7, <2>1, <2>2 DEF Inv, Ordered
  <2>3. CASE j = len + 1
    <3>1. packets[i].pos \in 1 .. Len(pushed)
      BY <2>1, Held
    <3>. QED BY <1>1, <1>3, <1>6, <2>1, <2>3, <3>1
  <2>. QED BY <1>1, <2>2, <2>3
<1>8. Ordered(packets')
  BY <1>6, <1>7 DEF Ordered
<1>. QED BY <1>1, <1>3, <1>5, <1>6, <1>8

LEMMA TickMoves ==
  ASSUME Inv, Tick
  PROVE  /\ now' \in Nat /\ now' <= LongAgo
         /\ packets' \in Seq(Entry) /\ Len(packets') = Len(packets) /\ Ordered(packets')
         /\ \A i \in 1 .. Len(packets) :
              /\ packets'[i].pos = packets[i].pos
              /\ packets'[i].id = packets[i].id
              /\ packets'[i].outbound = packets[i].outbound
              /\ packets'[i].arrived_ms \in Nat /\ packets'[i].arrived_ms <= now'
              /\ Capped(now' - packets'[i].arrived_ms)
                   = IF Capped(now - packets[i].arrived_ms) < LagMaxMs + 1
                     THEN Capped(now - packets[i].arrived_ms) + 1 ELSE LagMaxMs + 1
<1>. USE LagLimitsAssumption
<1>1. /\ now \in Nat /\ now <= LongAgo /\ packets \in Seq(Entry)
      /\ \A i \in 1 .. Len(packets) :
           /\ packets[i] \in Entry
           /\ packets[i].arrived_ms \in Nat /\ packets[i].arrived_ms <= now
  <2>1. \A i \in 1 .. Len(packets) : packets[i] \in Entry
    BY DEF Inv
  <2>. QED BY <2>1 DEF Inv, Records, Entry
<1>2. now' \in Nat /\ now' <= LongAgo
  BY <1>1 DEF Tick, LongAgo
<1>3. CASE now < LongAgo
  <2>1. packets' = packets /\ now' = now + 1
    BY <1>3 DEF Tick
  <2>2. ASSUME NEW i \in 1 .. Len(packets)
        PROVE  /\ packets'[i].arrived_ms <= now'
               /\ Capped(now' - packets'[i].arrived_ms)
                    = IF Capped(now - packets[i].arrived_ms) < LagMaxMs + 1
                      THEN Capped(now - packets[i].arrived_ms) + 1 ELSE LagMaxMs + 1
    BY <1>1, <1>3, <2>1 DEF Capped, LongAgo
  <2>. QED BY <1>1, <1>2, <2>1, <2>2 DEF Inv
<1>4. CASE now = LongAgo
  <2>. DEFINE at(i) == packets[i].arrived_ms
              moved(i) == IF at(i) = 0 THEN 0 ELSE at(i) - 1
  <2>1. /\ now' = now
        /\ packets' = [i \in DOMAIN packets |-> [packets[i] EXCEPT !.arrived_ms = moved(i)]]
    BY <1>1, <1>4 DEF Tick, LongAgo
  <2>2. ASSUME NEW i \in 1 .. Len(packets)
        PROVE  moved(i) \in Nat /\ moved(i) <= now
    BY <1>1
  <2>3. ASSUME NEW i \in 1 .. Len(packets)
        PROVE  /\ packets'[i] \in Entry
               /\ packets'[i].pos = packets[i].pos
               /\ packets'[i].id = packets[i].id
               /\ packets'[i].outbound = packets[i].outbound
               /\ packets'[i].arrived_ms = moved(i)
    <3>1. packets'[i] = [packets[i] EXCEPT !.arrived_ms = moved(i)]
      <4>1. i \in DOMAIN packets
        BY <1>1
      <4>. HIDE DEF moved
      <4>. QED BY <2>1, <4>1
    <3>2. packets[i] \in Entry /\ moved(i) \in Nat
      BY <1>1, <2>2
    <3>. HIDE DEF moved
    <3>. QED BY <3>1, <3>2 DEF Entry
  <2>4. packets' \in Seq(Entry) /\ Len(packets') = Len(packets)
    <3>1. /\ DOMAIN packets' = 1 .. Len(packets)
          /\ packets' = [i \in 1 .. Len(packets) |-> packets'[i]]
      BY <1>1, <2>1
    <3>2. Len(packets) \in Nat
      BY <1>1
    <3>3. packets' \in [1 .. Len(packets) -> Entry]
      BY <2>3, <3>1
    <3>. QED BY <3>2, <3>3
  <2>5. ASSUME NEW i \in 1 .. Len(packets)
        PROVE  Capped(now' - packets'[i].arrived_ms)
                    = IF Capped(now - packets[i].arrived_ms) < LagMaxMs + 1
                      THEN Capped(now - packets[i].arrived_ms) + 1 ELSE LagMaxMs + 1
    <3>1. packets'[i].arrived_ms = IF at(i) = 0 THEN 0 ELSE at(i) - 1
      BY <2>3
    <3>. QED BY <1>1, <1>4, <2>1, <3>1 DEF Capped, LongAgo
  <2>6. Ordered(packets')
    BY <2>3, <2>4 DEF Inv, Ordered
  <2>. HIDE DEF moved
  <2>. QED BY <1>2, <2>1, <2>2, <2>3, <2>4, <2>5, <2>6
<1>. QED BY <1>1, <1>3, <1>4 DEF LongAgo

-----------------------------------------------------------------------------
LEMMA DefaultIsValid ==
  lagSettingsDefault \in LagSettings /\ lagSettingsValidate(lagSettingsDefault)
  BY LagLimitsAssumption DEF lagSettingsDefault, LagSettings, lagSettingsValidate

(* The array lists what is held in the order it came, each entry with the  *)
(* id and direction it was pushed with and an arrival time in the past.    *)
THEOREM InvHolds == Spec => []Inv
<1>. USE LagLimitsAssumption, LagQueueAssumption
<1>1. <<>> \in Seq(Entry) /\ <<>> \in Seq([id : Ids, outbound : BOOLEAN])
  OBVIOUS
<1>2. Init => Inv
  BY <1>1, DefaultIsValid DEF Init, Inv, Records, Ordered, LongAgo
<1>3. Inv /\ [Next]_vars => Inv'
  <2>. SUFFICES ASSUME Inv, [Next]_vars PROVE Inv'
    OBVIOUS
  <2>1. CASE linuxLagQueueInit
    BY <2>1, <1>1, DefaultIsValid DEF linuxLagQueueInit, Inv, Records, Ordered
  <2>2. ASSUME NEW s \in Settings, linuxLagQueueConfigure(s) PROVE Inv'
    BY <2>2 DEF linuxLagQueueConfigure, Inv, Records, lagSettingsValidate
  <2>3. ASSUME NEW id \in Ids, NEW outbound \in BOOLEAN, linuxLagQueuePush(id, outbound)
        PROVE  Inv'
    <3>1. now' = now /\ lag' = lag /\ pushed' \in Seq([id : Ids, outbound : BOOLEAN])
      BY <2>3 DEF linuxLagQueuePush, Inv
    <3>2. Records'
      <4>. SUFFICES ASSUME NEW i \in 1 .. Len(packets) + 1
                    PROVE  /\ packets'[i].arrived_ms <= now'
                           /\ packets'[i].pos \in 1 .. Len(pushed')
                           /\ pushed'[packets'[i].pos]
                                = [id |-> packets'[i].id, outbound |-> packets'[i].outbound]
        BY <2>3, PushAppends DEF Records
      <4>1. CASE i \in 1 .. Len(packets)
        <5>1. /\ packets'[i] = packets[i]
              /\ Len(pushed') = Len(pushed) + 1 /\ Len(pushed) + 1 \in Nat
              /\ \A k \in 1 .. Len(pushed) : pushed'[k] = pushed[k]
          BY <2>3, <4>1, PushAppends
        <5>2. /\ packets[i].arrived_ms <= now /\ packets[i].pos \in 1 .. Len(pushed)
              /\ pushed[packets[i].pos] = [id |-> packets[i].id, outbound |-> packets[i].outbound]
          BY <4>1 DEF Inv, Records
        <5>. QED BY <3>1, <5>1, <5>2
      <4>2. CASE i = Len(packets) + 1
        <5>1. /\ packets'[i].pos = Len(pushed) + 1 /\ packets'[i].arrived_ms = now
              /\ packets'[i].id = id /\ packets'[i].outbound = outbound
              /\ Len(pushed') = Len(pushed) + 1 /\ Len(pushed) + 1 \in Nat
              /\ pushed'[Len(pushed) + 1] = [id |-> id, outbound |-> outbound]
          BY <2>3, <4>2, PushAppends
        <5>2. now \in Nat /\ Len(pushed) \in Nat
          BY DEF Inv
        <5>. QED BY <3>1, <5>1, <5>2
      <4>. QED BY <2>3, <4>1, <4>2, PushAppends
    <3>3. packets' \in Seq(Entry) /\ Ordered(packets')
      BY <2>3, PushAppends
    <3>. QED BY <3>1, <3>2, <3>3 DEF Inv, lagSettingsValidate
  <2>4. ASSUME NEW drain \in BOOLEAN, NEW failing, linuxLagQueueProcess(drain, failing)
        PROVE  Inv'
    <3>1. now' = now /\ lag' = lag /\ pushed' = pushed
      BY <2>4 DEF linuxLagQueueProcess
    <3>2. Records'
      <4>. SUFFICES ASSUME NEW x \in 1 .. Len(packets')
                    PROVE  /\ packets'[x].arrived_ms <= now
                           /\ packets'[x].pos \in 1 .. Len(pushed)
                           /\ pushed[packets'[x].pos]
                                = [id |-> packets'[x].id, outbound |-> packets'[x].outbound]
        BY <3>1 DEF Records
      <4>1. PICK i \in 1 .. Len(packets) : packets'[x] = packets[i]
        BY <2>4, ProcessLeaves
      <4>2. Records
        BY DEF Inv
      <4>. QED BY <4>1, <4>2 DEF Records
    <3>3. packets' \in Seq(Entry) /\ Ordered(packets')
      BY <2>4, ProcessLeaves
    <3>. QED BY <3>1, <3>2, <3>3 DEF Inv, lagSettingsValidate
  <2>5. CASE Tick
    <3>1. lag' = lag /\ pushed' = pushed
      BY <2>5 DEF Tick
    <3>2. Records'
      BY <2>5, <3>1, TickMoves DEF Inv, Records
    <3>3. /\ now' \in Nat /\ now' <= LongAgo
          /\ packets' \in Seq(Entry) /\ Ordered(packets')
      BY <2>5, TickMoves
    <3>. QED BY <3>1, <3>2, <3>3 DEF Inv, lagSettingsValidate
  <2>6. CASE UNCHANGED vars
    BY <2>6 DEF vars, Inv, Records, lagSettingsValidate
  <2>. QED BY <2>1, <2>2, <2>3, <2>4, <2>5, <2>6 DEF Next
<1>. QED BY <1>2, <1>3, PTL DEF Spec

-----------------------------------------------------------------------------
(* No two entries have one position, so the array is as long as the set of *)
(* held positions is large.                                                *)
LEMMA HeldCounts ==
  ASSUME Inv
  PROVE  Q!Cardinality(Q!held) = Len(packets)
<1>. DEFINE len == Len(packets)
            f == [i \in 1 .. len |-> packets[i].pos]
<1>1. len \in Nat
  BY DEF Inv
<1>2. f \in Bijection(1 .. len, Q!held)
  <2>1. \A i, j \in 1 .. len : f[i] = f[j] => i = j
    BY PositionsDiffer DEF Inv
  <2>2. f \in [1 .. len -> Q!held]
    BY Held
  <2>3. \A k \in Q!held : \E i \in 1 .. len : f[i] = k
    BY Held
  <2>. HIDE DEF f
  <2>. QED BY <2>1, <2>2, <2>3 DEF Bijection, Injection, Surjection, IsInjective
<1>3. ExistsBijection(1 .. len, Q!held)
  BY <1>2 DEF ExistsBijection
<1>4. Cardinality(Q!held) = len
  BY <1>1, <1>3, FS_CountingElements
<1>5. Q!Cardinality(Q!held) = Cardinality(Q!held)
  BY DEF Q!Cardinality, Cardinality
<1>. QED BY <1>4, <1>5

LEMMA InitImplements ==
  ASSUME Init PROVE Q!Init
<1>1. ageBar = [k \in {} |-> 0]
  BY DEF Init, ageBar
<1>. QED BY <1>1 DEF Init, Q!Init, Q!lagSettingsDefault, lagSettingsDefault

LEMMA ReinitImplements ==
  ASSUME linuxLagQueueInit PROVE Q!Reinit
<1>1. ageBar' = [k \in {} |-> 0]
  BY DEF linuxLagQueueInit, ageBar
<1>. QED BY <1>1 DEF linuxLagQueueInit, Q!Reinit, Q!lagSettingsDefault, lagSettingsDefault

LEMMA ConfigureImplements ==
  ASSUME NEW s \in Settings, linuxLagQueueConfigure(s) PROVE Q!Configure(s)
<1>1. ageBar' = ageBar
  BY AgeBarIs DEF linuxLagQueueConfigure
<1>. QED BY <1>1 DEF linuxLagQueueConfigure, Q!Configure, Q!lagSettingsValidate,
                     lagSettingsValidate

LEMMA PushImplements ==
  ASSUME Inv, NEW id \in Ids, NEW outbound \in BOOLEAN, linuxLagQueuePush(id, outbound)
  PROVE  Q!Push(id, outbound)
<1>. DEFINE n == Len(pushed) + 1
            len == Len(packets)
            target == [k \in Q!held \cup {n} |-> IF k \in Q!held THEN ageBar[k] ELSE 0]
<1>1. Q!Cardinality(Q!held) # Capacity
  BY HeldCounts DEF linuxLagQueuePush
<1>2. Q!IdIsFree(id)
  <2>1. \A i \in 1 .. len : packets[i].id # id
    BY DEF linuxLagQueuePush, Inv
  <2>2. ASSUME NEW i \in 1 .. len PROVE pushed[packets[i].pos].id = packets[i].id
    <3>1. pushed[packets[i].pos] = [id |-> packets[i].id, outbound |-> packets[i].outbound]
      BY Held
    <3>. QED BY <3>1
  <2>. QED BY <2>1, <2>2, Held DEF Q!IdIsFree
<1>3. /\ now' = now /\ now \in Nat /\ len \in Nat
      /\ packets' \in Seq(Entry) /\ Len(packets') = len + 1 /\ Ordered(packets')
      /\ \A i \in 1 .. len : packets'[i] = packets[i]
      /\ packets'[len + 1].pos = n /\ packets'[len + 1].arrived_ms = now
  BY PushAppends DEF linuxLagQueuePush, Inv
<1>4. Q!held \cup {n} = {packets'[i].pos : i \in 1 .. Len(packets')}
  <2>1. 1 .. len + 1 = (1 .. len) \cup {len + 1}
    BY <1>3
  <2>. HIDE DEF len, n
  <2>. QED BY <1>3, <2>1, Held DEF len
<1>5. n \notin Q!held
  <2>1. Q!held \subseteq 1 .. Len(pushed) /\ Len(pushed) \in Nat
    <3>1. Len(pushed) \in Nat
      BY DEF Inv
    <3>. QED BY <3>1, Held
  <2>. QED BY <2>1
<1>6. ASSUME NEW i \in 1 .. len + 1
      PROVE  target[packets'[i].pos] = Capped(now - packets'[i].arrived_ms)
  <2>1. CASE i \in 1 .. len
    BY <1>3, <2>1, Held
  <2>2. CASE i = len + 1
    BY <1>3, <1>5, <2>2, LagLimitsAssumption DEF Capped
  <2>. QED BY <1>3, <2>1, <2>2
<1>7. target = [k \in Q!held \cup {n} |-> target[k]]
  OBVIOUS
<1>. HIDE DEF target, n, len
<1>8. ageBar' = target
  <2>1. \A i \in 1 .. Len(packets') :
          target[packets'[i].pos] = Capped(now' - packets'[i].arrived_ms)
    BY <1>3, <1>6
  <2>2. Reads(target, packets', now')
    BY <1>4, <1>7, <2>1 DEF Reads
  <2>. QED BY <1>3, <2>2, AgeBarIs, AgesEqual
<1>. QED BY <1>1, <1>2, <1>8 DEF linuxLagQueuePush, Q!Push, Q!Added, target, n

(* The verdict that fails is that of the first due packet with the id, or  *)
(* of none.                                                                *)
LEMMA ProcessImplements ==
  ASSUME Inv, NEW drain \in BOOLEAN, NEW failing, linuxLagQueueProcess(drain, failing)
  PROVE  \E f \in Q!held \cup {Len(pushed) + 1} : Q!Process(drain, f)
<1>. DEFINE len == Len(packets)
            Fallen == {j \in 1 .. len : Falls(drain, failing, j)}
            beyond == Len(pushed) + 1
            At0(i) == packets[i].pos
            Left == {i \in 1 .. len : Stays(drain, failing, i)}
<1>1. /\ len \in Nat /\ beyond \in Nat /\ now \in Nat /\ packets \in Seq(Entry)
      /\ \A i \in 1 .. len : At0(i) \in Q!held /\ At0(i) \in Nat /\ At0(i) < beyond
  <2>1. Len(pushed) \in Nat /\ len \in Nat /\ now \in Nat /\ packets \in Seq(Entry)
    BY DEF Inv
  <2>2. \A i \in 1 .. len : At0(i) \in Q!held /\ At0(i) \in 1 .. Len(pushed)
    BY Held
  <2>. HIDE DEF At0
  <2>. QED BY <2>1, <2>2
<1>2. \A i, j \in 1 .. len : At0(i) < At0(j) <=> i < j
  <2>. SUFFICES ASSUME NEW i \in 1 .. len, NEW j \in 1 .. len
                PROVE  At0(i) < At0(j) <=> i < j
    OBVIOUS
  <2>1. i < j => At0(i) < At0(j)
    BY DEF Inv, Ordered
  <2>2. j < i => At0(j) < At0(i)
    BY DEF Inv, Ordered
  <2>. QED BY <1>1, <2>1, <2>2
<1>3. \A i \in 1 .. len : At0(i) \in Q!Eligible(drain) <=> Due(drain, i)
  <2>1. \A i \in 1 .. len : Q!Remaining(At0(i), ageBar[At0(i)]) = 0 <=> remaining(packets[i]) = 0
    BY RemainingAgrees, 0 \in Nat
  <2>. QED BY <1>1, <2>1 DEF Q!Eligible, Due
<1>4. PICK f : /\ f \in Q!Eligible(drain) \cup {beyond}
               /\ \A i \in 1 .. len : i \in Left <=> ~(Due(drain, i) /\ At0(i) < f)
  <2>1. CASE Fallen = {}
    <3>1. \A i \in 1 .. len : i \in Left <=> ~Due(drain, i)
      BY <2>1 DEF Stays
    <3>. QED BY <1>1, <3>1
  <2>2. CASE Fallen # {}
    <3>1. Fallen \in SUBSET Nat
      OBVIOUS
    <3>2. PICK j \in Fallen : \A i \in Fallen : j <= i
      BY <2>2, <3>1, Least
    <3>3. j \in 1 .. len /\ At0(j) \in Q!Eligible(drain)
      BY <1>3, <3>2 DEF Falls
    <3>4. ASSUME NEW i \in 1 .. len
          PROVE  i \in Left <=> ~(Due(drain, i) /\ At0(i) < At0(j))
      <4>1. (\E n \in 1 .. i : Falls(drain, failing, n)) <=> j <= i
        BY <1>1, <3>2, <3>3
      <4>2. At0(i) < At0(j) <=> i < j
        BY <1>2, <3>3
      <4>. QED BY <1>1, <3>3, <4>1, <4>2 DEF Stays
    <3>. QED BY <3>3, <3>4
  <2>. QED BY <2>1, <2>2
<1>. HIDE DEF Fallen, beyond, At0, Left
<1>. DEFINE Remain == Q!held \ {k \in Q!Eligible(drain) : k < f}
            target == [k \in Remain |-> ageBar[k]]
<1>5. Remain = {At0(i) : i \in Left}
  <2>1. Q!held = {At0(i) : i \in 1 .. len} /\ Left \subseteq 1 .. len
    BY Held DEF At0, Left
  <2>2. \A i \in 1 .. len : At0(i) \in Remain <=> i \in Left
    BY <1>1, <1>3, <1>4
  <2>. QED BY <2>1, <2>2
<1>6. /\ packets' \in Seq(Entry) /\ Ordered(packets')
      /\ \A x \in 1 .. Len(packets') : \E i \in Left : packets'[x] = packets[i]
      /\ \A i \in Left : \E x \in 1 .. Len(packets') : packets'[x] = packets[i]
  BY ProcessLeaves DEF Left
<1>7. now' = now /\ lag' = lag /\ pushed' = pushed
  BY DEF linuxLagQueueProcess
<1>8. Remain = {packets'[x].pos : x \in 1 .. Len(packets')}
  BY <1>5, <1>6 DEF At0
<1>9. ASSUME NEW x \in 1 .. Len(packets')
      PROVE  target[packets'[x].pos] = Capped(now' - packets'[x].arrived_ms)
  <2>1. PICK i \in Left : packets'[x] = packets[i]
    BY <1>6
  <2>2. i \in 1 .. len /\ At0(i) \in Remain
    BY <1>5 DEF Left
  <2>3. ageBar[At0(i)] = Capped(now - packets[i].arrived_ms)
    BY <2>2, Held DEF At0
  <2>. QED BY <1>7, <2>1, <2>2, <2>3 DEF At0
<1>10. target = [k \in Remain |-> target[k]]
  OBVIOUS
<1>. HIDE DEF target, Remain
<1>11. Reads(target, packets', now')
  BY <1>8, <1>9, <1>10 DEF Reads
<1>12. ageBar' = target
  BY <1>1, <1>6, <1>7, <1>11, AgeBarIs, AgesEqual
<1>13. Q!Process(drain, f)
  BY <1>4, <1>7, <1>12 DEF Q!Process, Q!AgesOf, target, Remain, beyond
<1>14. f \in Q!held \cup {Len(pushed) + 1}
  BY <1>4 DEF Q!Eligible, beyond
<1>. QED BY <1>13, <1>14

LEMMA TickImplements ==
  ASSUME Inv, Tick PROVE Q!Tick
<1>. DEFINE len == Len(packets)
            target == [k \in Q!held |-> IF ageBar[k] < Q!AgeCap THEN ageBar[k] + 1 ELSE Q!AgeCap]
<1>1. /\ now' \in Nat /\ packets' \in Seq(Entry) /\ Len(packets') = len /\ Ordered(packets')
      /\ \A i \in 1 .. len : packets'[i].pos = packets[i].pos
  BY TickMoves
<1>2. Q!held = {packets'[i].pos : i \in 1 .. Len(packets')}
  BY <1>1, Held
<1>3. ASSUME NEW i \in 1 .. Len(packets')
      PROVE  target[packets'[i].pos] = Capped(now' - packets'[i].arrived_ms)
  <2>1. ageBar[packets[i].pos] = Capped(now - packets[i].arrived_ms) /\ packets[i].pos \in Q!held
    BY <1>1, <1>3, Held
  <2>2. Capped(now' - packets'[i].arrived_ms)
          = IF Capped(now - packets[i].arrived_ms) < LagMaxMs + 1
            THEN Capped(now - packets[i].arrived_ms) + 1 ELSE LagMaxMs + 1
    BY <1>1, TickMoves
  <2>. QED BY <1>1, <2>1, <2>2 DEF Q!AgeCap
<1>4. target = [k \in Q!held |-> target[k]]
  OBVIOUS
<1>. HIDE DEF target
<1>5. Reads(target, packets', now')
  BY <1>2, <1>3, <1>4 DEF Reads
<1>6. ageBar' = target
  BY <1>1, <1>5, AgeBarIs, AgesEqual
<1>. QED BY <1>6 DEF Tick, Q!Tick, target

(* The array of lag_queue.c, compacted in place pass after pass, does what *)
(* a set of held positions does: the loop, its early stop and its memmove  *)
(* lose, duplicate and reorder nothing.                                    *)
THEOREM ImplementsLagQueueHolds == Spec => ImplementsLagQueue
<1>1. Inv /\ [Next]_vars => [Q!Next]_Q!vars
  <2>. SUFFICES ASSUME Inv, [Next]_vars PROVE Q!Next \/ UNCHANGED Q!vars
    OBVIOUS
  <2>1. CASE linuxLagQueueInit
    BY <2>1, ReinitImplements DEF Q!Next
  <2>2. ASSUME NEW s \in Settings, linuxLagQueueConfigure(s) PROVE Q!Next
    BY <2>2, ConfigureImplements DEF Q!Next
  <2>3. ASSUME NEW id \in Ids, NEW outbound \in BOOLEAN, linuxLagQueuePush(id, outbound)
        PROVE  Q!Next
    BY <2>3, PushImplements DEF Q!Next
  <2>4. ASSUME NEW drain \in BOOLEAN, NEW failing, linuxLagQueueProcess(drain, failing)
        PROVE  Q!Next
    BY <2>4, ProcessImplements DEF Q!Next
  <2>5. CASE Tick
    BY <2>5, TickImplements DEF Q!Next
  <2>6. CASE UNCHANGED vars
    BY <2>6, AgeBarIs DEF vars, Q!vars
  <2>. QED BY <2>1, <2>2, <2>3, <2>4, <2>5, <2>6 DEF Next
<1>. QED BY <1>1, InitImplements, InvHolds, PTL DEF Spec, ImplementsLagQueue, Q!Spec

-----------------------------------------------------------------------------
(* LagQueue by itself: what its specification promises, with nothing used  *)
(* of what stands for its ages.                                            *)

(* A fresh queue holds nothing.                                            *)
LEMMA EmptyQueueTyped ==
  /\ <<>> \in Seq(Q!Pushed)
  /\ DOMAIN [k \in {} |-> 0] = {}
  /\ [k \in {} |-> 0] \in [{} -> 0 .. Q!AgeCap]
  OBVIOUS

(* The values of LagQueue are those of LagQueueArray.                      *)
LEMMA SameValues ==
  /\ Q!LagSettings = LagSettings /\ Q!lagSettingsDefault = lagSettingsDefault
  /\ \A s : Q!lagSettingsValidate(s) <=> lagSettingsValidate(s)
  /\ \A S : Q!Cardinality(S) = Cardinality(S)
  BY DEF Q!LagSettings, LagSettings, Q!lagSettingsDefault, lagSettingsDefault,
         Q!lagSettingsValidate, lagSettingsValidate, Q!Cardinality, Cardinality

(* A pass keeps the ages of what it keeps, and keeps only what was held.   *)
LEMMA ProcessKeeps ==
  ASSUME NEW drain, NEW failing, Q!Process(drain, failing)
  PROVE  /\ Q!held' \subseteq Q!held
         /\ \A k \in Q!held' : ageBar'[k] = ageBar[k]
         /\ pushed' = pushed
  BY DEF Q!Process, Q!AgesOf, Q!held, Q!Eligible

(* The type of the queue is an invariant (lag_queue.c never indexes past   *)
(* what was pushed, and never holds settings it should have refused).      *)
THEOREM QueueTyped == Q!Spec => []Q!TypeOK
<1> USE LagLimitsAssumption, LagQueueAssumption
<1>1. Q!Init => Q!TypeOK
  BY EmptyQueueTyped, DefaultIsValid, SameValues DEF Q!Init, Q!TypeOK, Q!held
<1>2. Q!TypeOK /\ [Q!Next]_Q!vars => Q!TypeOK'
  <2> SUFFICES ASSUME Q!TypeOK, [Q!Next]_Q!vars PROVE Q!TypeOK'
    OBVIOUS
  <2>1. CASE Q!Reinit
    BY <2>1, EmptyQueueTyped, DefaultIsValid, SameValues DEF Q!Reinit, Q!TypeOK, Q!held
  <2>2. ASSUME NEW s \in Settings, Q!Configure(s) PROVE Q!TypeOK'
    BY <2>2, SameValues DEF Q!Configure, Q!TypeOK, Q!held
  <2>3. ASSUME NEW id \in Ids, NEW outbound \in BOOLEAN, Q!Push(id, outbound)
        PROVE  Q!TypeOK'
    <3>1. pushed' \in Seq(Q!Pushed) /\ Len(pushed') = Len(pushed) + 1
      BY <2>3 DEF Q!Push, Q!Added, Q!TypeOK, Q!Pushed
    <3>2. Q!held' = Q!held \cup {Len(pushed) + 1}
      BY <2>3 DEF Q!Push, Q!Added, Q!held
    <3>3. Q!held' \subseteq 1 .. Len(pushed')
      BY <3>1, <3>2 DEF Q!TypeOK
    <3>4. ageBar' \in [Q!held' -> 0 .. Q!AgeCap]
      BY <2>3, <3>2 DEF Q!Push, Q!Added, Q!TypeOK, Q!AgeCap, Q!held
    <3>5. QED
      BY <2>3, <3>1, <3>3, <3>4 DEF Q!Push, Q!Added, Q!TypeOK, Q!lagSettingsValidate
  <2>4. ASSUME NEW drain \in BOOLEAN, NEW failing \in Q!held \cup {Len(pushed) + 1},
               Q!Process(drain, failing)
        PROVE  Q!TypeOK'
    <3>1. ageBar' \in [Q!held' -> 0 .. Q!AgeCap]
      BY <2>4 DEF Q!Process, Q!AgesOf, Q!TypeOK, Q!held, Q!Eligible
    <3>2. QED
      BY <2>4, <3>1, ProcessKeeps DEF Q!Process, Q!TypeOK, Q!lagSettingsValidate
  <2>5. CASE Q!Tick
    <3>1. Q!held' = Q!held
      BY <2>5 DEF Q!Tick, Q!held
    <3>2. ageBar' \in [Q!held -> 0 .. Q!AgeCap]
      BY <2>5 DEF Q!Tick, Q!TypeOK, Q!AgeCap
    <3>3. QED
      BY <2>5, <3>1, <3>2 DEF Q!Tick, Q!TypeOK, Q!lagSettingsValidate
  <2>6. CASE UNCHANGED Q!vars
    BY <2>6 DEF Q!vars, Q!TypeOK, Q!held, Q!lagSettingsValidate
  <2>7. QED
    BY <2>1, <2>2, <2>3, <2>4, <2>5, <2>6 DEF Q!Next
<1>3. QED
  BY <1>1, <1>2, PTL DEF Q!Spec

-----------------------------------------------------------------------------
(* Of two packets of one direction, the older becomes eligible first.      *)
LEMMA EligibilityIsMonotone ==
  ASSUME Q!TypeOK, Q!OlderFirst, NEW drain \in BOOLEAN,
         NEW i \in Q!held, NEW j \in Q!held, i < j,
         pushed[i].outbound = pushed[j].outbound,
         j \in Q!Eligible(drain)
  PROVE  i \in Q!Eligible(drain)
<1> DEFINE delay == Q!Delay(lag, pushed[i].outbound)
<1>1. delay \in Nat
  BY DEF Q!TypeOK, Q!LagSettings, Q!Delay
<1>2. ageBar[i] \in Int /\ ageBar[j] \in Int /\ ageBar[i] >= ageBar[j]
  BY LagLimitsAssumption DEF Q!TypeOK, Q!OlderFirst, Q!AgeCap
<1>3. CASE drain
  BY <1>3 DEF Q!Eligible
<1>4. CASE ~drain
  <2>1. Q!Remaining(j, ageBar[j]) = 0
    BY <1>4 DEF Q!Eligible
  <2>2. ageBar[j] >= delay
    <3> HIDE DEF delay
    <3>1. Q!Remaining(j, ageBar[j]) = IF ageBar[j] >= delay THEN 0 ELSE delay - ageBar[j]
      BY DEF Q!Remaining, delay
    <3>2. QED
      BY <1>1, <1>2, <2>1, <3>1
  <2>3. Q!Remaining(i, ageBar[i]) = 0
    <3>1. Q!Remaining(i, ageBar[i]) = IF ageBar[i] >= delay THEN 0 ELSE delay - ageBar[i]
      BY DEF Q!Remaining
    <3> HIDE DEF delay
    <3>2. QED
      BY <1>1, <1>2, <2>2, <3>1
  <2>4. QED
    BY <2>3 DEF Q!Eligible
<1>5. QED
  BY <1>3, <1>4

(* What makes the order inductive: a direction is released from its front, *)
(* and an earlier packet is never younger.                                 *)
OrderInv == Q!FifoPerDirection /\ Q!OlderFirst

(* Live setting changes, failed verdicts, drains and the passage of time   *)
(* never let a packet overtake an earlier one of its direction             *)
(* (linuxLagQueueProcess, lag_queue.c:36-59).                              *)
THEOREM QueueKeepsOrder == Q!Spec => []Q!FifoPerDirection
<1> USE LagLimitsAssumption, LagQueueAssumption
<1>1. Q!Init => OrderInv
  BY DEF Q!Init, OrderInv, Q!FifoPerDirection, Q!OlderFirst, Q!held
<1>2. Q!TypeOK /\ OrderInv /\ [Q!Next]_Q!vars => OrderInv'
  <2> SUFFICES ASSUME Q!TypeOK, OrderInv, [Q!Next]_Q!vars PROVE OrderInv'
    OBVIOUS
  <2>1. CASE Q!Reinit
    BY <2>1 DEF Q!Reinit, OrderInv, Q!FifoPerDirection, Q!OlderFirst, Q!held
  <2>2. ASSUME NEW s \in Settings, Q!Configure(s) PROVE OrderInv'
    BY <2>2 DEF Q!Configure, OrderInv, Q!FifoPerDirection, Q!OlderFirst, Q!held
  <2>3. ASSUME NEW id \in Ids, NEW outbound \in BOOLEAN, Q!Push(id, outbound)
        PROVE  OrderInv'
    <3> DEFINE n == Len(pushed)
    <3>1. n \in Nat /\ Len(pushed') = n + 1
      BY <2>3 DEF Q!Push, Q!Added, Q!TypeOK
    <3>2. \A k \in 1 .. n : pushed'[k] = pushed[k]
      BY <2>3 DEF Q!Push, Q!Added, Q!TypeOK
    <3>3. Q!held' = Q!held \cup {n + 1} /\ Q!held \subseteq 1 .. n
      BY <2>3 DEF Q!Push, Q!Added, Q!held, Q!TypeOK
    <3>4. /\ \A k \in Q!held : ageBar'[k] = ageBar[k]
          /\ ageBar'[n + 1] = 0
      <4>1. n + 1 \notin Q!held
        BY <3>1, <3>3
      <4>2. QED
        BY <2>3, <4>1 DEF Q!Push, Q!Added, Q!held
    <3>5. \A k \in Q!held : ageBar[k] \in Int /\ ageBar[k] >= 0
      BY DEF Q!TypeOK, Q!AgeCap
    <3> HIDE DEF n
    <3>6. Q!FifoPerDirection'
      <4> SUFFICES ASSUME NEW i \in 1 .. n + 1, NEW j \in 1 .. n + 1, i < j,
                          pushed'[i].outbound = pushed'[j].outbound, i \in Q!held'
                   PROVE  j \in Q!held'
        BY <3>1 DEF Q!FifoPerDirection
      <4>1. CASE j = n + 1
        BY <4>1, <3>3
      <4>2. CASE j # n + 1
        <5>1. i \in 1 .. n /\ j \in 1 .. n /\ i \in Q!held
          BY <4>2, <3>1, <3>3
        <5>2. QED
          BY <5>1, <3>1, <3>2, <3>3 DEF OrderInv, Q!FifoPerDirection, n
      <4>3. QED
        BY <4>1, <4>2
    <3>7. Q!OlderFirst'
      BY <3>1, <3>3, <3>4, <3>5 DEF OrderInv, Q!OlderFirst
    <3>8. QED
      BY <3>6, <3>7 DEF OrderInv
  <2>4. ASSUME NEW drain \in BOOLEAN, NEW failing \in Q!held \cup {Len(pushed) + 1},
               Q!Process(drain, failing)
        PROVE  OrderInv'
    <3>1. Q!OlderFirst'
      BY <2>4, ProcessKeeps DEF OrderInv, Q!OlderFirst
    <3>2. Q!FifoPerDirection'
      <4> SUFFICES ASSUME NEW i \in 1 .. Len(pushed), NEW j \in 1 .. Len(pushed), i < j,
                          pushed[i].outbound = pushed[j].outbound,
                          i \in Q!held', j \notin Q!held'
                   PROVE  FALSE
        BY <2>4, ProcessKeeps DEF Q!FifoPerDirection
      <4>1. Q!held' = Q!held \ {k \in Q!Eligible(drain) : k < failing}
        BY <2>4 DEF Q!Process, Q!AgesOf, Q!held
      <4>2. i \in Q!held /\ j \in Q!held
        BY <2>4, ProcessKeeps DEF OrderInv, Q!FifoPerDirection
      <4>3. j \in Q!Eligible(drain) /\ j < failing
        BY <4>1, <4>2
      <4>4. i \in Q!Eligible(drain)
        BY <4>2, <4>3, EligibilityIsMonotone DEF OrderInv
      <4>5. failing \in Int
        BY DEF Q!TypeOK
      <4>6. QED
        BY <4>1, <4>3, <4>4, <4>5
    <3>3. QED
      BY <3>1, <3>2 DEF OrderInv
  <2>5. CASE Q!Tick
    <3>1. Q!held' = Q!held /\ pushed' = pushed
      BY <2>5 DEF Q!Tick, Q!held
    <3>2. Q!FifoPerDirection'
      BY <3>1 DEF OrderInv, Q!FifoPerDirection
    <3>3. Q!OlderFirst'
      <4> SUFFICES ASSUME NEW i \in Q!held, NEW j \in Q!held, i < j
                   PROVE  ageBar'[i] >= ageBar'[j]
        BY <3>1 DEF Q!OlderFirst
      <4>1. /\ ageBar[i] \in 0 .. Q!AgeCap /\ ageBar[j] \in 0 .. Q!AgeCap
            /\ ageBar[i] >= ageBar[j]
        BY DEF Q!TypeOK, OrderInv, Q!OlderFirst
      <4>2. /\ ageBar'[i] = IF ageBar[i] < Q!AgeCap THEN ageBar[i] + 1 ELSE Q!AgeCap
            /\ ageBar'[j] = IF ageBar[j] < Q!AgeCap THEN ageBar[j] + 1 ELSE Q!AgeCap
        BY <2>5 DEF Q!Tick
      <4>3. QED
        BY <4>1, <4>2 DEF Q!AgeCap
    <3>4. QED
      BY <3>2, <3>3 DEF OrderInv
  <2>6. CASE UNCHANGED Q!vars
    BY <2>6 DEF Q!vars, OrderInv, Q!FifoPerDirection, Q!OlderFirst, Q!held
  <2>7. QED
    BY <2>1, <2>2, <2>3, <2>4, <2>5, <2>6 DEF Q!Next
<1>3. QED
  BY <1>1, <1>2, QueueTyped, PTL DEF Q!Spec, OrderInv

-----------------------------------------------------------------------------
(* What the array holds is finite, so it can be counted.                   *)
LEMMA HeldIsFinite ==
  ASSUME Q!TypeOK
  PROVE  IsFiniteSet(Q!held) /\ Cardinality(Q!held) \in Nat
<1>1. Len(pushed) \in Nat
  BY DEF Q!TypeOK
<1>2. IsFiniteSet(1 .. Len(pushed))
  BY <1>1, FS_Interval
<1>3. IsFiniteSet(Q!held)
  BY <1>2, FS_Subset DEF Q!TypeOK
<1> QED BY <1>3, FS_CardinalityType

(* The array never overflows (linuxLagQueuePush, lag_queue.c:16).          *)
THEOREM QueueBounded == Q!Spec => []Q!HeldBounded
<1> USE LagQueueAssumption
<1>1. Q!Init => Q!HeldBounded
  BY FS_EmptySet, SameValues DEF Q!Init, Q!HeldBounded, Q!held
<1>2. Q!TypeOK /\ Q!HeldBounded /\ [Q!Next]_Q!vars => Q!HeldBounded'
  <2> SUFFICES ASSUME Q!TypeOK, Q!HeldBounded, [Q!Next]_Q!vars PROVE Q!HeldBounded'
    OBVIOUS
  <2>1. CASE Q!Reinit
    BY <2>1, FS_EmptySet, SameValues DEF Q!Reinit, Q!HeldBounded, Q!held
  <2>2. ASSUME NEW id \in Ids, NEW outbound \in BOOLEAN, Q!Push(id, outbound)
        PROVE  Q!HeldBounded'
    <3>1. Q!held' = Q!held \cup {Len(pushed) + 1}
      BY <2>2 DEF Q!Push, Q!Added, Q!held
    <3>2. Cardinality(Q!held) \in Nat /\ Cardinality(Q!held) < Capacity
      BY <2>2, HeldIsFinite, SameValues DEF Q!Push, Q!HeldBounded
    <3>3. Cardinality(Q!held') <= Cardinality(Q!held) + 1
      <4>1. Cardinality(Q!held') =
              IF Len(pushed) + 1 \in Q!held THEN Cardinality(Q!held) ELSE Cardinality(Q!held) + 1
        BY <3>1, HeldIsFinite, FS_AddElement
      <4> QED BY <3>2, <4>1
    <3>4. Cardinality(Q!held') \in Nat
      BY <3>1, HeldIsFinite, FS_AddElement, FS_CardinalityType
    <3> QED BY <3>2, <3>3, <3>4, SameValues DEF Q!HeldBounded
  <2>3. ASSUME NEW drain \in BOOLEAN, NEW failing, Q!Process(drain, failing)
        PROVE  Q!HeldBounded'
    <3>1. Q!held' \subseteq Q!held
      BY <2>3, ProcessKeeps
    <3>2. /\ Cardinality(Q!held') <= Cardinality(Q!held)
          /\ Cardinality(Q!held) \in Nat /\ Cardinality(Q!held') \in Nat
      BY <3>1, HeldIsFinite, FS_Subset, FS_CardinalityType
    <3> QED BY <3>2, SameValues DEF Q!HeldBounded
  <2>4. (\E s \in Settings : Q!Configure(s)) \/ Q!Tick \/ UNCHANGED Q!vars => Q!held' = Q!held
    BY DEF Q!Configure, Q!Tick, Q!vars, Q!held
  <2> QED BY <2>1, <2>2, <2>3, <2>4, SameValues DEF Q!Next, Q!HeldBounded
<1> QED BY <1>1, <1>2, QueueTyped, PTL DEF Q!Spec

(* No id is held twice, so no packet is ever given two verdicts            *)
(* (linuxLagQueuePush, lag_queue.c:17-19).                                 *)
THEOREM QueueIdsUnique == Q!Spec => []Q!IdsUnique
<1>1. Q!Init => Q!IdsUnique
  BY DEF Q!Init, Q!IdsUnique, Q!held
<1>2. Q!TypeOK /\ Q!IdsUnique /\ [Q!Next]_Q!vars => Q!IdsUnique'
  <2> SUFFICES ASSUME Q!TypeOK, Q!IdsUnique, [Q!Next]_Q!vars PROVE Q!IdsUnique'
    OBVIOUS
  <2>1. CASE Q!Reinit
    BY <2>1 DEF Q!Reinit, Q!IdsUnique, Q!held
  <2>2. ASSUME NEW id \in Ids, NEW outbound \in BOOLEAN, Q!Push(id, outbound)
        PROVE  Q!IdsUnique'
    <3> DEFINE n == Len(pushed)
    <3>1. n \in Nat /\ Q!held' = Q!held \cup {n + 1} /\ Q!held \subseteq 1 .. n
      BY <2>2 DEF Q!Push, Q!Added, Q!held, Q!TypeOK
    <3>2. /\ \A k \in 1 .. n : pushed'[k] = pushed[k]
          /\ pushed'[n + 1].id = id
      BY <2>2 DEF Q!Push, Q!Added, Q!TypeOK
    <3>3. \A k \in Q!held : pushed[k].id # id
      BY <2>2 DEF Q!Push, Q!IdIsFree
    <3> HIDE DEF n
    <3> QED BY <3>1, <3>2, <3>3 DEF Q!IdsUnique
  <2>3. ASSUME NEW drain \in BOOLEAN, NEW failing, Q!Process(drain, failing)
        PROVE  Q!IdsUnique'
    BY <2>3, ProcessKeeps DEF Q!IdsUnique
  <2>4. (\E s \in Settings : Q!Configure(s)) \/ Q!Tick \/ UNCHANGED Q!vars =>
          Q!held' = Q!held /\ pushed' = pushed
    BY DEF Q!Configure, Q!Tick, Q!vars, Q!held
  <2> QED BY <2>1, <2>2, <2>3, <2>4 DEF Q!Next, Q!IdsUnique
<1> QED BY <1>1, <1>2, QueueTyped, PTL DEF Q!Spec

-----------------------------------------------------------------------------
(* What LagQueue promises of the order holds of the array: packets of one  *)
(* direction leave in the order they came, whichever passes, failed        *)
(* verdicts and live setting changes come between.                         *)
THEOREM FifoHolds == Spec => []FifoPerDirection
  BY QueueKeepsOrder, ImplementsLagQueueHolds, PTL DEF FifoPerDirection, ImplementsLagQueue

ArrayIsSound ==
  /\ Len(packets) <= Capacity
  /\ \A i, j \in 1 .. Len(packets) : packets[i].id = packets[j].id => i = j

(* No push ever writes past the end of packets[], and an id stands in the  *)
(* array at most once, so that the pass gives a packet one verdict         *)
(* (lag_queue.c:15-23).                                                    *)
THEOREM ArrayIsSoundHolds == Spec => []ArrayIsSound
<1>1. Inv /\ Q!HeldBounded => Len(packets) <= Capacity
  BY HeldCounts DEF Q!HeldBounded
<1>2. ASSUME Inv, Q!IdsUnique, NEW i \in 1 .. Len(packets), NEW j \in 1 .. Len(packets),
             packets[i].id = packets[j].id
      PROVE  i = j
  <2>1. \A k \in 1 .. Len(packets) :
          packets[k].pos \in Q!held /\ pushed[packets[k].pos].id = packets[k].id
    <3>. TAKE k \in 1 .. Len(packets)
    <3>1. /\ packets[k].pos \in Q!held
          /\ pushed[packets[k].pos] = [id |-> packets[k].id, outbound |-> packets[k].outbound]
      BY <1>2, Held
    <3>2. [id |-> packets[k].id, outbound |-> packets[k].outbound].id = packets[k].id
      OBVIOUS
    <3>. QED BY <3>1, <3>2
  <2>2. packets[i].pos = packets[j].pos
    BY <1>2, <2>1 DEF Q!IdsUnique
  <2>. QED BY <1>2, <2>2, PositionsDiffer DEF Inv
<1>3. Inv /\ Q!HeldBounded /\ Q!IdsUnique => ArrayIsSound
  BY <1>1, <1>2 DEF ArrayIsSound
<1>. QED BY <1>3, InvHolds, QueueBounded, QueueIdsUnique, ImplementsLagQueueHolds, PTL
         DEF ImplementsLagQueue

-----------------------------------------------------------------------------
(* The running minimum, turn by turn.                                      *)
Minimal(m) ==
  /\ Shortest[m] \in Nat
  /\ \E i \in 1 .. m : Shortest[m] = remaining(packets[i])
  /\ \A i \in 1 .. m : Shortest[m] <= remaining(packets[i])

LEMMA ShortestIsMinimal ==
  ASSUME Inv, packets # <<>>
  PROVE  Minimal(Len(packets))
<1>. DEFINE len == Len(packets)
            S == {m \in 0 .. len : m = 0 \/ Minimal(m)}
            R(i) == remaining(packets[i])
<1>1. len \in Nat /\ len # 0
  BY DEF Inv
<1>2. 0 \in S
  BY <1>1
<1>3. \A i \in 1 .. len : R(i) \in Nat
  BY RemainingTyped
<1>4. Shortest[0] = -1
  BY ShortestTurns
<1>5. \A n \in 1 .. len :
        Shortest[n] = IF Shortest[n - 1] < 0 \/ R(n) < Shortest[n - 1]
                      THEN R(n) ELSE Shortest[n - 1]
  BY ShortestTurns
<1>6. ASSUME NEW m \in 0 .. len, m \in S, m < len PROVE m + 1 \in S
  <2>. HIDE DEF R
  <2>1. m + 1 \in 1 .. len /\ (m + 1) - 1 = m /\ 1 .. m + 1 = (1 .. m) \cup {m + 1}
    BY <1>1, <1>6
  <2>2. Shortest[m + 1] = IF Shortest[m] < 0 \/ R(m + 1) < Shortest[m]
                          THEN R(m + 1) ELSE Shortest[m]
    BY <1>5, <2>1
  <2>3. R(m + 1) \in Nat
    BY <1>3, <2>1
  <2>4. CASE m = 0
    <3>1. Shortest[m + 1] = R(m + 1)
      BY <1>4, <2>2, <2>4
    <3>. QED BY <2>1, <2>3, <2>4, <3>1 DEF Minimal, R
  <2>5. CASE m # 0
    <3>1. Shortest[m] \in Nat /\ \A i \in 1 .. m : Shortest[m] <= R(i) /\ R(i) \in Nat
      BY <1>3, <1>6, <2>5 DEF Minimal, R
    <3>2. PICK i \in 1 .. m : Shortest[m] = R(i)
      BY <1>6, <2>5 DEF Minimal, R
    <3>3. /\ Shortest[m + 1] \in Nat
          /\ \E n \in 1 .. m + 1 : Shortest[m + 1] = R(n)
      BY <2>1, <2>2, <2>3, <3>1, <3>2
    <3>4. ASSUME NEW n \in 1 .. m + 1 PROVE Shortest[m + 1] <= R(n)
      BY <2>1, <2>2, <2>3, <3>1
    <3>. QED BY <2>1, <3>3, <3>4 DEF Minimal, R
  <2>. QED BY <2>1, <2>4, <2>5
<1>7. 0 .. len \subseteq S
  <2>. HIDE DEF S
  <2>. QED BY <1>1, <1>2, <1>6, Induct
<1>. QED BY <1>1, <1>7

(* The worker's poll timeout (linuxLagQueueWait) ends exactly when a held  *)
(* packet becomes eligible.                                                *)
THEOREM WaitIsExactHolds == Spec => []WaitIsExact
<1>1. Inv => WaitIsExact
  <2>. SUFFICES ASSUME Inv PROVE WaitIsExact
    OBVIOUS
  <2>1. CASE packets = <<>>
    <3>1. Len(packets) = 0
      BY <2>1
    <3>2. wait = -1
      BY <3>1, ShortestTurns DEF wait
    <3>. QED BY <2>1, <3>2 DEF WaitIsExact
  <2>2. CASE packets # <<>>
    <3>. DEFINE len == Len(packets)
    <3>1. /\ wait \in Nat
          /\ \A i \in 1 .. len : wait <= remaining(packets[i])
      BY <2>2, ShortestIsMinimal DEF wait, Minimal
    <3>2. PICK i \in 1 .. len : wait = remaining(packets[i])
      BY <2>2, ShortestIsMinimal DEF wait, Minimal
    <3>3. ASSUME NEW k \in Q!held, NEW t \in 0 .. LagMaxMs, t < wait
          PROVE  Q!Remaining(k, ageBar[k] + t) > 0
      <4>1. PICK j \in 1 .. len : k = packets[j].pos
        BY Held
      <4>2. t \in Nat /\ t < remaining(packets[j])
        BY <3>1, <3>3, LagLimitsAssumption, RemainingTyped
      <4>. QED BY <4>1, <4>2, RemainingAgrees
    <3>4. packets[i].pos \in Q!held
      BY Held
    <3>5. Q!Remaining(packets[i].pos, ageBar[packets[i].pos] + wait) = 0
      BY <3>1, <3>2, RemainingAgrees
    <3>. HIDE DEF len
    <3>. QED BY <2>2, <3>3, <3>4, <3>5 DEF WaitIsExact
  <2>. QED BY <2>1, <2>2
<1>. QED BY <1>1, InvHolds, PTL
=============================================================================
