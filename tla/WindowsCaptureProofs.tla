------------------------ MODULE WindowsCaptureProofs ------------------------
(***************************************************************************)
(* Proofs about WindowsCapture, for every limit of the buffer, every set   *)
(* of settings and any number of packets.                                  *)
(*                                                                         *)
(* The invariant has a half about packets and one about threads.  Packets: *)
(* the packet list and the buffer, the one in the reader's hands and the   *)
(* driver's queue form one line in the order of arrival, and everything    *)
(* in front of it is gone (Line); held packets are ordered by age and pass *)
(* no earlier one of their direction (Order); none goes twice (Once).      *)
(* Threads: what each place of the owner says of the others (Calls), and   *)
(* who may have left what in the lists (Hands).                            *)
(***************************************************************************)
EXTENDS WindowsCapture, FiniteSetTheorems, SequenceTheorems, TLAPS

Ascending(s) == \A a, b \in DOMAIN s : a < b => s[a] < s[b]

(* Wherever s holds i and j, i comes first.                                *)
Before(s, i, j) == \A a, b \in DOMAIN s : s[a] = i /\ s[b] = j => a < b

Earlier(S, T) == \A p \in S, q \in T : p < q

Typed ==
  /\ driver \in Seq(Nat) /\ reading \in Seq(Nat) /\ list \in Seq(Nat) /\ buffer \in Seq(Nat)
  /\ sent \in Seq(Nat) /\ arrived \in Seq(BOOLEAN)
  /\ age \in [ToSet(buffer) -> Nat]

Quiet == reading = <<>> /\ list = <<>> /\ buffer = <<>> /\ ~lastEnabled

(* What each place of the owner says of the rest.                          *)
Calls ==
  /\ pc["owner"] \in {"idle", "opened", "spawn", "abort", "shutdown", "join", "drain"}
  /\ ~running => Quiet /\ pc["reader"] \in {"none", "gate"} /\ pc["clock"] = "none"
  /\ ~running /\ pc["owner"] = "idle" => WorkersGone /\ handle = "closed" /\ driver = <<>>
  /\ pc["owner"] = "opened" => ~running /\ WorkersGone
  /\ pc["owner"] = "spawn" => ~running /\ ~stopLooping
  /\ pc["owner"] = "abort" => ~running /\ faulty
  /\ pc["owner"] \in {"shutdown", "join", "drain"} => running /\ stopLooping
  /\ pc["owner"] = "drain" => WorkersGone /\ Quiet

Working(t) == pc[t] \in {"consume", "process"}

(* Who may touch the lists, and what a thread has left in them.            *)
Hands ==
  /\ DOMAIN pc = Threads
  /\ pc["reader"] \in {"none", "gate", "recv", "lock", "consume", "process"}
  /\ pc["clock"] \in {"none", "gate", "loop", "consume", "process"}
  /\ ~(Working("reader") /\ Working("clock"))
  /\ pc["reader"] = "process" \/ pc["clock"] = "process" => lastEnabled
  /\ ~lastEnabled => buffer = <<>>
  /\ pc["reader"] # "lock" => reading = <<>>
  /\ list # <<>> =>
       Working("reader") \/ Working("clock") \/ (pc["reader"] = "none" /\ stopLooping)

(* Each packet is in one place: gone, or in one of four sequences, each of *)
(* which ascends and holds earlier packets than the next.                  *)
InLine(b, l, r, d) ==
  /\ Earlier(b, l) /\ Earlier(b, r) /\ Earlier(b, d)
  /\ Earlier(l, r) /\ Earlier(l, d) /\ Earlier(r, d)

Line ==
  /\ Ascending(buffer) /\ Ascending(list) /\ Ascending(reading) /\ Ascending(driver)
  /\ InLine(ToSet(buffer), ToSet(list), ToSet(reading), ToSet(driver))
  /\ Gone \cap (ToSet(buffer) \cup ToSet(list) \cup ToSet(reading) \cup ToSet(driver)) = {}
  /\ Numbers = Gone \cup ToSet(buffer) \cup ToSet(list) \cup ToSet(reading) \cup ToSet(driver)

(* Of two held packets the earlier is not the younger, so that it is ready *)
(* whenever the other is; and no packet stays behind one that was held.    *)
Order ==
  /\ ToSet(buffer) \subseteq everHeld /\ everHeld \subseteq Gone \cup ToSet(buffer)
  /\ \A p, q \in ToSet(buffer) : p < q => age[q] <= age[p]
  /\ \A i \in Numbers, j \in everHeld :
       i < j /\ arrived[i] = arrived[j] => i \in Gone \cup ToSet(buffer)
  /\ \A i \in Numbers, j \in Numbers \cap everHeld :
       (i < j /\ arrived[i] = arrived[j] /\ j \in Gone) => i \in Gone /\ Before(sent, i, j)

(* No packet goes twice.                                                   *)
Once == IsInjective(sent) /\ ToSet(sent) \cap lost = {}

Packets == Typed /\ Line /\ Order /\ Once

Reported == lost # {} => faulty

Control == Calls /\ Hands /\ Reported

Inv == lag \in LagSettings /\ Packets /\ Control

-----------------------------------------------------------------------------
(* Sequences of packets.                                                   *)

(* The first len places of s at which it holds a member of S.              *)
Selects(len, place, s, S) ==
  /\ place \in [1 .. len -> DOMAIN s]
  /\ Among(s, S) = [k \in 1 .. len |-> s[place[k]]]
  /\ \A k, l \in 1 .. len : k < l => place[k] < place[l]
  /\ \A n \in DOMAIN s : s[n] \in S <=> \E k \in 1 .. len : place[k] = n

(* The k-th entry of Among(s, S) stands at the k-th place at which s holds *)
(* a member of S: ranking those places is a bijection.                     *)
LEMMA AmongPlaces ==
  ASSUME NEW s \in Seq(Nat), NEW S
  PROVE  \E len \in Nat : \E place : Selects(len, place, s, S)
<1>. DEFINE at == {n \in DOMAIN s : s[n] \in S}
            upto(n) == {m \in at : m <= n}
            rank == [n \in at |-> Cardinality(upto(n))]
            len == Cardinality(at)
            nth(k) == CHOOSE n \in at : Cardinality({m \in at : m <= n}) = k
            place == [k \in 1 .. len |-> nth(k)]
<1>1. DOMAIN s = 1 .. Len(s) /\ Len(s) \in Nat
  OBVIOUS
<1>2. IsFiniteSet(1 .. Len(s))
  BY <1>1, FS_Interval
<1>3. at \subseteq 1 .. Len(s) /\ IsFiniteSet(at) /\ len \in Nat
  BY <1>1, <1>2, FS_Subset, FS_CardinalityType
<1>4. Among(s, S) = [k \in 1 .. len |-> s[nth(k)]]
  BY DEF Among
<1>. DEFINE count(n) == Cardinality(upto(n))
<1>. HIDE DEF at, len
<1>5. \A n \in at : n \in Nat /\ n \in upto(n) /\ upto(n) \subseteq at
  BY <1>3
<1>6. \A n \in at : IsFiniteSet(upto(n)) /\ count(n) \in Nat /\ count(n) \in 1 .. len
  <2>. TAKE n \in at
  <2>1. IsFiniteSet(upto(n)) /\ Cardinality(upto(n)) <= Cardinality(at)
    BY <1>3, <1>5, FS_Subset
  <2>2. Cardinality(upto(n)) \in Nat /\ Cardinality(upto(n)) # 0
    BY <2>1, <1>5, FS_CardinalityType, FS_EmptySet
  <2>. QED BY <1>3, <2>1, <2>2 DEF len
<1>7. \A m, n \in at : m < n => count(m) < count(n)
  <2>. TAKE m, n \in at
  <2>. HAVE m < n
  <2>1. upto(m) \in SUBSET upto(n) /\ n \in upto(n) /\ n \notin upto(m)
    BY <1>5
  <2>2. IsFiniteSet(upto(n))
    BY <1>6
  <2>. HIDE DEF upto
  <2>3. /\ Cardinality(upto(m)) <= Cardinality(upto(n))
        /\ Cardinality(upto(m)) = Cardinality(upto(n)) => upto(m) = upto(n)
    BY <2>1, <2>2, FS_Subset
  <2>4. Cardinality(upto(m)) \in Nat /\ Cardinality(upto(n)) \in Nat
    BY <1>6
  <2>. QED BY <2>1, <2>3, <2>4
<1>8. /\ rank = [n \in at |-> count(n)]
      /\ \A k : nth(k) = CHOOSE n \in at : count(n) = k
  OBVIOUS
<1>9. at \subseteq Nat
  BY <1>5
<1>. HIDE DEF count, rank, nth, upto
<1>10. \A m, n \in at : count(m) = count(n) => m = n
  BY <1>6, <1>7, <1>9
<1>11. rank \in Injection(at, 1 .. len)
  BY <1>6, <1>8, <1>10 DEF Injection, IsInjective
<1>12. rank \in Surjection(at, 1 .. len)
  <2>1. IsFiniteSet(1 .. len) /\ Cardinality(1 .. len) = len
    BY <1>3, FS_Interval
  <2>. QED BY <1>11, <2>1, FS_Injection DEF len
<1>13. \A k \in 1 .. len : nth(k) \in at /\ count(nth(k)) = k
  <2>. TAKE k \in 1 .. len
  <2>1. \E n \in at : count(n) = k
    BY <1>8, <1>12 DEF Surjection
  <2>. QED BY <1>8, <2>1
<1>14. /\ place \in [1 .. len -> DOMAIN s]
       /\ Among(s, S) = [k \in 1 .. len |-> s[place[k]]]
       /\ \A k \in 1 .. len : place[k] = nth(k)
  BY <1>4, <1>13 DEF at
<1>15. ASSUME NEW k \in 1 .. len, NEW l \in 1 .. len, k < l PROVE nth(k) < nth(l)
  <2>1. PICK m \in at : m = nth(k) /\ count(m) = k
    BY <1>13
  <2>2. PICK n \in at : n = nth(l) /\ count(n) = l
    BY <1>13
  <2>3. m \in Nat /\ n \in Nat /\ m # n
    BY <1>9, <1>15, <2>1, <2>2
  <2>4. ~(n < m)
    BY <1>7, <1>15, <2>1, <2>2
  <2>. QED BY <2>1, <2>2, <2>3, <2>4
<1>16. ASSUME NEW n \in DOMAIN s, s[n] \in S PROVE \E k \in 1 .. len : nth(k) = n
  <2>1. n \in at
    BY <1>16 DEF at
  <2>. QED BY <1>6, <1>10, <1>13, <2>1
<1>17. \A k \in 1 .. len : s[nth(k)] \in S
  BY <1>13 DEF at
<1>. QED
  <2>. HIDE DEF place
  <2>1. \A k, l \in 1 .. len : k < l => place[k] < place[l]
    BY <1>14, <1>15
  <2>2. \A n \in DOMAIN s : s[n] \in S <=> \E k \in 1 .. len : place[k] = n
    BY <1>14, <1>16, <1>17
  <2>3. Selects(len, place, s, S)
    BY <1>14, <2>1, <2>2 DEF Selects
  <2>. QED BY <1>3, <2>3

(* Among(s, S) has the entries of s in S, and nothing changes its order.   *)
LEMMA AmongKeeps ==
  ASSUME NEW s \in Seq(Nat), NEW S
  PROVE  /\ Among(s, S) \in Seq(Nat)
         /\ ToSet(Among(s, S)) = ToSet(s) \cap S
         /\ Ascending(s) => Ascending(Among(s, S))
         /\ IsInjective(s) => IsInjective(Among(s, S))
         /\ \A i, j : Before(s, i, j) => Before(Among(s, S), i, j)
<1>. DEFINE r == Among(s, S)
<1>1. PICK len \in Nat : \E place : Selects(len, place, s, S)
  BY AmongPlaces
<1>2. PICK place : Selects(len, place, s, S)
  BY <1>1
<1>3. DOMAIN s = 1 .. Len(s) /\ \A n \in DOMAIN s : n \in Nat /\ s[n] \in Nat
  OBVIOUS
<1>4. /\ \A k \in 1 .. len : place[k] \in DOMAIN s
      /\ r = [k \in 1 .. len |-> s[place[k]]]
      /\ \A k, l \in 1 .. len : k < l => place[k] < place[l]
      /\ \A n \in DOMAIN s : s[n] \in S <=> \E k \in 1 .. len : place[k] = n
  BY <1>2 DEF Selects
<1>. HIDE DEF r
<1>5. DOMAIN r = 1 .. len /\ \A k \in 1 .. len : place[k] \in DOMAIN s /\ r[k] = s[place[k]]
  BY <1>4
<1>6. r \in Seq(Nat)
  <2>1. \A k \in 1 .. len : s[place[k]] \in Nat
    BY <1>3, <1>4
  <2>. QED BY <1>4, <2>1
<1>7. ToSet(r) = ToSet(s) \cap S
  <2>1. ASSUME NEW k \in 1 .. len PROVE r[k] \in ToSet(s) \cap S
    BY <1>5, <1>4 DEF ToSet
  <2>2. ASSUME NEW n \in DOMAIN s, s[n] \in S PROVE s[n] \in ToSet(r)
    BY <1>5, <1>4, <2>2 DEF ToSet
  <2>3. ToSet(r) = {r[k] : k \in 1 .. len} /\ ToSet(s) = {s[n] : n \in DOMAIN s}
    BY <1>5 DEF ToSet
  <2>. QED BY <2>1, <2>2, <2>3
<1>8. Ascending(s) => Ascending(r)
  BY <1>5, <1>4 DEF Ascending
<1>9. ASSUME NEW i, NEW j, Before(s, i, j) PROVE Before(r, i, j)
  <2>. SUFFICES ASSUME NEW a \in 1 .. len, NEW b \in 1 .. len, r[a] = i, r[b] = j PROVE a < b
    BY <1>5 DEF Before
  <2>1. place[a] < place[b]
    BY <1>5, <1>9 DEF Before
  <2>2. place[a] \in Nat /\ place[b] \in Nat
    BY <1>3, <1>5
  <2>3. CASE b < a
    BY <1>4, <2>1, <2>2, <2>3
  <2>4. CASE b = a
    BY <2>1, <2>2, <2>4
  <2>. QED BY <2>3, <2>4
<1>10. ASSUME IsInjective(s) PROVE IsInjective(r)
  <2>. SUFFICES ASSUME NEW a \in 1 .. len, NEW b \in 1 .. len, r[a] = r[b] PROVE a = b
    BY <1>5 DEF IsInjective
  <2>1. place[a] = place[b]
    BY <1>5, <1>10 DEF IsInjective
  <2>2. place[a] \in Nat
    BY <1>3, <1>5
  <2>3. ~(a < b) /\ ~(b < a)
    BY <1>4, <2>1, <2>2
  <2>. QED BY <2>3
<1>. QED BY <1>6, <1>7, <1>8, <1>9, <1>10 DEF r

LEMMA AscendingIsInjective ==
  ASSUME NEW s \in Seq(Nat), Ascending(s)
  PROVE  IsInjective(s)
<1>. SUFFICES ASSUME NEW a \in DOMAIN s, NEW b \in DOMAIN s, s[a] = s[b] PROVE a = b
  BY DEF IsInjective
<1>1. a \in Nat /\ b \in Nat /\ s[a] \in Nat
  OBVIOUS
<1>2. ~(a < b) /\ ~(b < a)
  BY <1>1 DEF Ascending
<1>. QED BY <1>1, <1>2

LEMMA AscendingIsBefore ==
  ASSUME NEW s \in Seq(Nat), Ascending(s), NEW i \in Nat, NEW j \in Nat, i < j
  PROVE  Before(s, i, j)
<1>. SUFFICES ASSUME NEW a \in DOMAIN s, NEW b \in DOMAIN s, s[a] = i, s[b] = j PROVE a < b
  BY DEF Before
<1>1. a \in Nat /\ b \in Nat
  OBVIOUS
<1>2. ~(b < a) /\ b # a
  BY DEF Ascending
<1>. QED BY <1>1, <1>2

LEMMA Joined ==
  ASSUME NEW s \in Seq(Nat), NEW t \in Seq(Nat)
  PROVE  /\ s \o t \in Seq(Nat)
         /\ ToSet(s \o t) = ToSet(s) \cup ToSet(t)
         /\ Ascending(s) /\ Ascending(t) /\ Earlier(ToSet(s), ToSet(t)) => Ascending(s \o t)
         /\ IsInjective(s) /\ IsInjective(t) /\ ToSet(s) \cap ToSet(t) = {} => IsInjective(s \o t)
         /\ \A i, j : Before(s, i, j) /\ Before(t, i, j) /\ ~(j \in ToSet(s) /\ i \in ToSet(t))
                        => Before(s \o t, i, j)
<1>. DEFINE u == s \o t
<1>1. /\ u \in Seq(Nat) /\ Len(u) = Len(s) + Len(t) /\ Len(s) \in Nat /\ Len(t) \in Nat
      /\ \A n \in 1 .. Len(s) : u[n] = s[n]
      /\ \A n \in 1 .. Len(t) : u[n + Len(s)] = t[n]
  OBVIOUS
<1>. HIDE DEF u
<1>2. \A n \in 1 .. Len(u) :
        \/ n \in 1 .. Len(s) /\ u[n] = s[n]
        \/ ~(n \in 1 .. Len(s)) /\ n - Len(s) \in 1 .. Len(t) /\ u[n] = t[n - Len(s)]
  <2>. TAKE n \in 1 .. Len(u)
  <2>1. CASE n <= Len(s)
    BY <1>1, <2>1
  <2>2. CASE ~(n <= Len(s))
    <3>1. n - Len(s) \in 1 .. Len(t) /\ (n - Len(s)) + Len(s) = n
      BY <1>1, <2>2
    <3>. QED BY <1>1, <2>2, <3>1
  <2>. QED BY <2>1, <2>2
<1>3. DOMAIN s = 1 .. Len(s) /\ DOMAIN t = 1 .. Len(t) /\ DOMAIN u = 1 .. Len(u)
  BY <1>1
<1>4. \A n \in 1 .. Len(s) : s[n] \in ToSet(s)
  BY <1>3 DEF ToSet
<1>5. \A n \in 1 .. Len(t) : t[n] \in ToSet(t)
  BY <1>3 DEF ToSet
<1>6. ToSet(u) = ToSet(s) \cup ToSet(t)
  <2>1. ToSet(u) \subseteq ToSet(s) \cup ToSet(t)
    BY <1>2, <1>3 DEF ToSet
  <2>2. ASSUME NEW p \in ToSet(s) PROVE p \in ToSet(u)
    BY <1>1, <1>3 DEF ToSet
  <2>3. ASSUME NEW p \in ToSet(t) PROVE p \in ToSet(u)
    <3>1. PICK n \in 1 .. Len(t) : p = t[n]
      BY <1>3 DEF ToSet
    <3>2. n + Len(s) \in 1 .. Len(u)
      BY <1>1
    <3>3. u[n + Len(s)] = p
      BY <1>1, <3>1
    <3>. QED BY <1>3, <3>2, <3>3 DEF ToSet
  <2>. QED BY <2>1, <2>2, <2>3
<1>7. ASSUME Ascending(s), Ascending(t), Earlier(ToSet(s), ToSet(t)) PROVE Ascending(u)
  <2>. SUFFICES ASSUME NEW a \in 1 .. Len(u), NEW b \in 1 .. Len(u), a < b PROVE u[a] < u[b]
    BY <1>3 DEF Ascending
  <2>1. CASE a \in 1 .. Len(s) /\ b \in 1 .. Len(s)
    BY <1>2, <1>3, <1>7, <2>1 DEF Ascending
  <2>2. CASE a \in 1 .. Len(s) /\ ~(b \in 1 .. Len(s))
    BY <1>2, <1>4, <1>5, <1>7, <2>2 DEF Earlier
  <2>3. CASE ~(a \in 1 .. Len(s))
    <3>1. ~(b \in 1 .. Len(s)) /\ a - Len(s) < b - Len(s)
      BY <1>1, <2>3
    <3>. QED BY <1>2, <1>3, <1>7, <2>3, <3>1 DEF Ascending
  <2>. QED BY <2>1, <2>2, <2>3
<1>8. ASSUME NEW i, NEW j, Before(s, i, j), Before(t, i, j), ~(j \in ToSet(s) /\ i \in ToSet(t))
      PROVE  Before(u, i, j)
  <2>. SUFFICES ASSUME NEW a \in 1 .. Len(u), NEW b \in 1 .. Len(u), u[a] = i, u[b] = j
                PROVE  a < b
    BY <1>3 DEF Before
  <2>1. CASE a \in 1 .. Len(s) /\ b \in 1 .. Len(s)
    BY <1>2, <1>3, <1>8, <2>1 DEF Before
  <2>2. CASE ~(a \in 1 .. Len(s)) /\ ~(b \in 1 .. Len(s))
    <3>1. a - Len(s) < b - Len(s)
      BY <1>2, <1>3, <1>8, <2>2 DEF Before
    <3>. QED BY <1>1, <3>1
  <2>3. CASE a \in 1 .. Len(s) /\ ~(b \in 1 .. Len(s))
    BY <1>1, <2>3
  <2>4. CASE ~(a \in 1 .. Len(s)) /\ b \in 1 .. Len(s)
    BY <1>2, <1>4, <1>5, <1>8, <2>4
  <2>. QED BY <2>1, <2>2, <2>3, <2>4
<1>9. ASSUME IsInjective(s), IsInjective(t), ToSet(s) \cap ToSet(t) = {} PROVE IsInjective(u)
  <2>. SUFFICES ASSUME NEW a \in 1 .. Len(u), NEW b \in 1 .. Len(u), u[a] = u[b] PROVE a = b
    BY <1>3 DEF IsInjective
  <2>1. CASE a \in 1 .. Len(s) /\ b \in 1 .. Len(s)
    BY <1>2, <1>3, <1>9, <2>1 DEF IsInjective
  <2>2. CASE ~(a \in 1 .. Len(s)) /\ ~(b \in 1 .. Len(s))
    <3>1. a - Len(s) = b - Len(s)
      BY <1>2, <1>3, <1>9, <2>2 DEF IsInjective
    <3>. QED BY <1>1, <3>1
  <2>3. CASE a \in 1 .. Len(s) /\ ~(b \in 1 .. Len(s))
    BY <1>2, <1>4, <1>5, <1>9, <2>3
  <2>4. CASE ~(a \in 1 .. Len(s)) /\ b \in 1 .. Len(s)
    BY <1>2, <1>4, <1>5, <1>9, <2>4
  <2>. QED BY <2>1, <2>2, <2>3, <2>4
<1>. QED BY <1>1, <1>6, <1>7, <1>8, <1>9 DEF u

(* The first entries of a sequence; of an ascending one, the lowest.       *)
LEMMA FirstKeeps ==
  ASSUME NEW s \in Seq(Nat), NEW n \in Int
  PROVE  /\ FirstOf(s, n) \in Seq(Nat)
         /\ ToSet(FirstOf(s, n)) \subseteq ToSet(s)
         /\ Ascending(s) =>
              /\ Ascending(FirstOf(s, n))
              /\ \A p \in ToSet(FirstOf(s, n)), q \in ToSet(s) : q < p => q \in ToSet(FirstOf(s, n))
<1>. DEFINE r == FirstOf(s, n)
<1>1. PICK c \in 0 .. Len(s) : r = [k \in 1 .. c |-> s[k]]
  <2>. DEFINE m == IF n < Len(s) THEN n ELSE Len(s)
  <2>1. m \in Int /\ m <= Len(s) /\ Len(s) \in Nat
    OBVIOUS
  <2>2. r = SubSeq(s, 1, m)
    BY DEF FirstOf
  <2>. HIDE DEF m, r
  <2>3. r = [k \in 1 .. m |-> s[k]]
    <3>1. \A k \in 1 .. m : s[k] \in Nat
      BY <2>1
    <3>2. /\ r \in Seq(Nat) /\ Len(r) = IF 1 <= m THEN m - 1 + 1 ELSE 0
          /\ \A k \in 1 .. m - 1 + 1 : r[k] = s[1 + k - 1]
      BY <2>1, <2>2, <3>1, SubSeqProperties
    <3>3. DOMAIN r = 1 .. m
      BY <2>1, <3>2
    <3>4. \A k \in 1 .. m : r[k] = s[k]
      BY <2>1, <3>2
    <3>. QED BY <3>2, <3>3, <3>4
  <2>4. CASE m >= 0
    BY <2>1, <2>3, <2>4
  <2>5. CASE m < 0
    <3>1. 1 .. m = 1 .. 0
      BY <2>1, <2>5
    <3>. QED BY <2>1, <2>3, <3>1
  <2>. QED BY <2>1, <2>4, <2>5
<1>. HIDE DEF r
<1>2. /\ r \in Seq(Nat) /\ DOMAIN r = 1 .. c /\ DOMAIN s = 1 .. Len(s)
      /\ \A k \in 1 .. c : k \in 1 .. Len(s) /\ r[k] = s[k]
  BY <1>1
<1>3. ToSet(r) \subseteq ToSet(s)
  BY <1>2 DEF ToSet
<1>4. ASSUME Ascending(s) PROVE Ascending(r)
  BY <1>2, <1>4 DEF Ascending
<1>5. ASSUME Ascending(s), NEW p \in ToSet(r), NEW q \in ToSet(s), q < p PROVE q \in ToSet(r)
  <2>1. PICK k \in 1 .. c : p = s[k]
    BY <1>2 DEF ToSet
  <2>2. PICK l \in 1 .. Len(s) : q = s[l]
    BY <1>2 DEF ToSet
  <2>3. s[k] \in Nat /\ s[l] \in Nat /\ k \in 1 .. Len(s)
    BY <1>2
  <2>4. ~(k < l)
    <3>1. k < l => s[k] < s[l]
      BY <1>2, <1>5, <2>3 DEF Ascending
    <3>. QED BY <1>5, <2>1, <2>2, <2>3, <3>1
  <2>5. l \in 1 .. c
    BY <2>4
  <2>. QED BY <1>2, <2>2, <2>5 DEF ToSet
<1>. QED BY <1>2, <1>3, <1>4, <1>5 DEF r

LEMMA Singles ==
  /\ ToSet(<<>>) = {}
  /\ \A p \in Nat : <<p>> \in Seq(Nat) /\ ToSet(<<p>>) = {p} /\ Ascending(<<p>>)
  /\ Ascending(<<>>) /\ <<>> \in Seq(Nat)
BY DEF ToSet, Ascending

LEMMA HeadFirst ==
  ASSUME NEW s \in Seq(Nat), s # <<>>
  PROVE  /\ Head(s) \in Nat /\ Tail(s) \in Seq(Nat)
         /\ ToSet(s) = {Head(s)} \cup ToSet(Tail(s))
         /\ Ascending(s) => Ascending(Tail(s)) /\ Earlier({Head(s)}, ToSet(Tail(s)))
<1>1. /\ Head(s) = s[1] /\ Tail(s) \in Seq(Nat) /\ Len(Tail(s)) = Len(s) - 1
      /\ Len(s) \in Nat /\ Len(s) >= 1
      /\ \A n \in 1 .. Len(s) - 1 : Tail(s)[n] = s[n + 1] /\ n + 1 \in 1 .. Len(s)
  OBVIOUS
<1>2. \A n \in 1 .. Len(s) :
        n # 1 => n - 1 \in 1 .. Len(s) - 1 /\ s[n] = Tail(s)[n - 1]
  <2>1. ASSUME NEW n \in 1 .. Len(s), n # 1
        PROVE  n - 1 \in 1 .. Len(s) - 1 /\ s[n] = Tail(s)[n - 1]
    <3>1. n - 1 \in 1 .. Len(s) - 1 /\ (n - 1) + 1 = n
      BY <1>1, <2>1
    <3>. QED BY <1>1, <3>1
  <2>. QED BY <2>1
<1>3. DOMAIN s = 1 .. Len(s) /\ DOMAIN Tail(s) = 1 .. Len(s) - 1 /\ 1 \in 1 .. Len(s)
  BY <1>1
<1>4. ToSet(s) = {Head(s)} \cup ToSet(Tail(s))
  <2>1. \A n \in 1 .. Len(s) : s[n] \in {Head(s)} \cup ToSet(Tail(s))
    BY <1>1, <1>2, <1>3 DEF ToSet
  <2>2. \A n \in 1 .. Len(s) - 1 : Tail(s)[n] \in ToSet(s)
    BY <1>1, <1>3 DEF ToSet
  <2>3. Head(s) \in ToSet(s)
    BY <1>1, <1>3 DEF ToSet
  <2>. QED BY <1>3, <2>1, <2>2, <2>3 DEF ToSet
<1>5. ASSUME Ascending(s) PROVE Ascending(Tail(s)) /\ Earlier({Head(s)}, ToSet(Tail(s)))
  <2>1. Ascending(Tail(s))
    <3>1. SUFFICES ASSUME NEW a \in 1 .. Len(s) - 1, NEW b \in 1 .. Len(s) - 1, a < b
                   PROVE  Tail(s)[a] < Tail(s)[b]
      BY <1>3 DEF Ascending
    <3>2. a + 1 \in 1 .. Len(s) /\ b + 1 \in 1 .. Len(s) /\ a + 1 < b + 1
      BY <1>1, <3>1
    <3>3. s[a + 1] < s[b + 1]
      BY <1>3, <1>5, <3>2 DEF Ascending
    <3>. QED BY <1>1, <3>3
  <2>2. ASSUME NEW q \in ToSet(Tail(s)) PROVE Head(s) < q
    <3>1. PICK n \in 1 .. Len(s) - 1 : q = Tail(s)[n]
      BY <1>3 DEF ToSet
    <3>2. 1 < n + 1 /\ n + 1 \in 1 .. Len(s)
      BY <1>1, <3>1
    <3>. QED BY <1>1, <1>3, <1>5, <3>1, <3>2 DEF Ascending
  <2>. QED BY <2>1, <2>2 DEF Earlier
<1>. QED BY <1>1, <1>4, <1>5

LEMMA Elsewhere ==
  ASSUME NEW s \in Seq(Nat), NEW i, NEW j, i \notin ToSet(s) \/ j \notin ToSet(s)
  PROVE  Before(s, i, j)
BY DEF Before, ToSet

-----------------------------------------------------------------------------
(* Sending.                                                                *)

(* Whatever sends fail, each packet is sent or lost, and order is kept.    *)
LEMMA Sends ==
  ASSUME Typed, NEW out \in Seq(Nat), SendAll(out)
  PROVE  /\ sent' \in Seq(Nat)
         /\ Gone' = Gone \cup ToSet(out)
         /\ (faulty => faulty') /\ (Reported => Reported')
         /\ Once /\ IsInjective(out) /\ ToSet(out) \cap Gone = {} => Once'
         /\ \A i, j : /\ Before(sent, i, j) /\ Before(out, i, j)
                      /\ ~(j \in ToSet(sent) /\ i \in ToSet(out))
                      => Before(sent', i, j)
<1>1. PICK failing \in SUBSET ToSet(out) :
        /\ sent' = sent \o Among(out, ToSet(out) \ failing)
        /\ lost' = lost \cup failing
        /\ faulty' = (faulty \/ failing # {})
  BY DEF SendAll
<1>. DEFINE made == Among(out, ToSet(out) \ failing)
<1>2. /\ made \in Seq(Nat) /\ ToSet(made) = ToSet(out) \cap (ToSet(out) \ failing)
      /\ IsInjective(out) => IsInjective(made)
      /\ \A i, j : Before(out, i, j) => Before(made, i, j)
  BY AmongKeeps
<1>3. sent \in Seq(Nat)
  BY DEF Typed
<1>. HIDE DEF made
<1>4. /\ sent \o made \in Seq(Nat) /\ ToSet(sent \o made) = ToSet(sent) \cup ToSet(made)
      /\ IsInjective(sent) /\ IsInjective(made) /\ ToSet(sent) \cap ToSet(made) = {}
           => IsInjective(sent \o made)
      /\ \A i, j : /\ Before(sent, i, j) /\ Before(made, i, j)
                   /\ ~(j \in ToSet(sent) /\ i \in ToSet(made))
                   => Before(sent \o made, i, j)
  BY <1>2, <1>3, Joined
<1>5. sent' = sent \o made
  BY <1>1 DEF made
<1>6. Gone' = Gone \cup ToSet(out)
  <2>1. ToSet(sent)' = ToSet(sent')
    BY DEF ToSet
  <2>. QED BY <1>1, <1>2, <1>4, <1>5, <2>1 DEF Gone
<1>7. (faulty => faulty') /\ (Reported => Reported')
  BY <1>1 DEF Reported
<1>8. ASSUME Once, IsInjective(out), ToSet(out) \cap Gone = {} PROVE Once'
  <2>1. IsInjective(sent') /\ ToSet(sent') \cap lost' = {}
    BY <1>1, <1>2, <1>4, <1>5, <1>8 DEF Once, Gone
  <2>. QED BY <2>1 DEF Once, IsInjective, ToSet
<1>. QED BY <1>2, <1>4, <1>5, <1>6, <1>7, <1>8

(* Held packets stay in order when what is sent with them is in order.     *)
LEMMA SentInOrder ==
  ASSUME Packets, NEW out \in Seq(Nat), SendAll(out), arrived' = arrived,
         ToSet(out) \cap Gone = {},
         everHeld' \cap Gone \subseteq everHeld,
         \A i \in Numbers, j \in Numbers \cap everHeld' :
           (i < j /\ arrived[i] = arrived[j] /\ j \in ToSet(out)) =>
             /\ i \in Gone \cup ToSet(out)
             /\ Before(out, i, j)
  PROVE  \A i \in Numbers', j \in Numbers' \cap everHeld' :
           (i < j /\ arrived'[i] = arrived'[j] /\ j \in Gone') =>
             /\ i \in Gone'
             /\ Before(sent', i, j)
<1>1. /\ Gone' = Gone \cup ToSet(out)
      /\ \A i, j : /\ Before(sent, i, j) /\ Before(out, i, j)
                   /\ ~(j \in ToSet(sent) /\ i \in ToSet(out))
                   => Before(sent', i, j)
  BY Sends DEF Packets
<1>2. Numbers' = Numbers
  BY DEF Numbers
<1>. SUFFICES ASSUME NEW i \in Numbers, NEW j \in Numbers \cap everHeld',
                     i < j, arrived[i] = arrived[j], j \in Gone \cup ToSet(out)
              PROVE  i \in Gone \cup ToSet(out) /\ Before(sent', i, j)
  BY <1>1, <1>2
<1>3. sent \in Seq(Nat) /\ ToSet(sent) \subseteq Gone
  BY DEF Packets, Typed, Gone
<1>4. CASE j \in Gone
  <2>1. i \in Gone /\ Before(sent, i, j)
    BY <1>4 DEF Packets, Order
  <2>2. i \notin ToSet(out)
    BY <2>1
  <2>3. Before(out, i, j)
    BY <2>2, Elsewhere
  <2>. QED BY <1>1, <2>1, <2>2, <2>3
<1>5. CASE j \in ToSet(out)
  <2>1. j \notin ToSet(sent)
    BY <1>3, <1>5
  <2>2. Before(sent, i, j)
    BY <1>3, <2>1, Elsewhere
  <2>3. i \in Gone \cup ToSet(out) /\ Before(out, i, j)
    BY <1>5
  <2>. QED BY <1>1, <2>1, <2>2, <2>3
<1>. QED BY <1>4, <1>5

-----------------------------------------------------------------------------
(* What each step does to the packets.                                     *)

(* No packet is in two places.                                             *)
LEMMA Apart ==
  ASSUME Packets
  PROVE  /\ Numbers \subseteq Nat /\ Gone \subseteq Numbers
         /\ ToSet(buffer) \subseteq Numbers /\ ToSet(list) \subseteq Numbers
         /\ ToSet(reading) \subseteq Numbers /\ ToSet(driver) \subseteq Numbers
         /\ ToSet(buffer) \cap (ToSet(list) \cup ToSet(reading) \cup ToSet(driver)) = {}
         /\ ToSet(list) \cap (ToSet(reading) \cup ToSet(driver)) = {}
         /\ ToSet(reading) \cap ToSet(driver) = {}
         /\ everHeld \cap (ToSet(list) \cup ToSet(reading) \cup ToSet(driver)) = {}
<1>1. /\ Numbers \subseteq Nat /\ Gone \subseteq Numbers
      /\ ToSet(buffer) \subseteq Numbers /\ ToSet(list) \subseteq Numbers
      /\ ToSet(reading) \subseteq Numbers /\ ToSet(driver) \subseteq Numbers
  BY DEF Packets, Line, Numbers
<1>2. \A p \in Nat : ~(p < p)
  OBVIOUS
<1>3. InLine(ToSet(buffer), ToSet(list), ToSet(reading), ToSet(driver))
  BY DEF Packets, Line
<1>4. /\ ToSet(buffer) \cap (ToSet(list) \cup ToSet(reading) \cup ToSet(driver)) = {}
      /\ ToSet(list) \cap (ToSet(reading) \cup ToSet(driver)) = {}
      /\ ToSet(reading) \cap ToSet(driver) = {}
  BY <1>1, <1>2, <1>3 DEF InLine, Earlier
<1>5. everHeld \cap (ToSet(list) \cup ToSet(reading) \cup ToSet(driver)) = {}
  BY <1>4 DEF Packets, Order, Line
<1>. QED BY <1>1, <1>4, <1>5

LEMMA PacketsStay ==
  ASSUME Packets, UNCHANGED <<packets, arrived, sent, lost, everHeld>>
  PROVE  Packets'
BY DEF Packets, Typed, Line, Order, Once, InLine, Numbers, Gone, packets

LEMMA PacketsTick ==
  ASSUME Packets, LagMaxMs \in Nat,
         age' = [p \in DOMAIN age |-> IF age[p] < AgeCap THEN age[p] + 1 ELSE AgeCap],
         UNCHANGED <<driver, reading, list, buffer, history>>
  PROVE  Packets'
<1>1. AgeCap \in Nat
  BY DEF AgeCap
<1>2. age \in [ToSet(buffer) -> Nat]
  BY DEF Packets, Typed
<1>3. age' \in [ToSet(buffer) -> Nat]
  BY <1>1, <1>2
<1>4. \A p, q \in ToSet(buffer) : p < q => age'[q] <= age'[p]
  <2>1. \A p, q \in ToSet(buffer) : p < q => age[q] <= age[p]
    BY DEF Packets, Order
  <2>2. \A p \in ToSet(buffer) :
          age[p] \in Nat /\ age'[p] = IF age[p] < AgeCap THEN age[p] + 1 ELSE AgeCap
    BY <1>2
  <2>. QED BY <1>1, <2>1, <2>2
<1>5. Typed' /\ Line' /\ Once'
  BY <1>3 DEF Packets, Typed, Line, Once, InLine, Numbers, Gone, history
<1>6. Order'
  BY <1>4 DEF Packets, Order, Numbers, Gone, history
<1>. QED BY <1>5, <1>6 DEF Packets

LEMMA PacketsArrive ==
  ASSUME Packets, NEW outbound \in BOOLEAN, Arrive(outbound)
  PROVE  Packets'
<1>. DEFINE n == Len(arrived) + 1
<1>1. /\ arrived \in Seq(BOOLEAN) /\ driver \in Seq(Nat) /\ Len(arrived) \in Nat
  BY DEF Packets, Typed
<1>2. /\ arrived' = Append(arrived, outbound) /\ Len(arrived') = n
      /\ driver' = driver \o <<n>> /\ n \in Nat
      /\ UNCHANGED <<reading, list, buffer, age, sent, lost, everHeld>>
  <2>1. arrived' = Append(arrived, outbound) /\ Len(arrived') = n /\ n \in Nat
    BY <1>1 DEF Arrive
  <2>2. driver' = Append(driver, n)
    BY <2>1 DEF Arrive
  <2>3. driver' = driver \o <<n>>
    BY <1>1, <2>1, <2>2
  <2>. QED BY <2>1, <2>3 DEF Arrive
<1>3. arrived' \in Seq(BOOLEAN) /\ \A i \in Numbers : arrived'[i] = arrived[i]
  BY <1>1, <1>2 DEF Numbers
<1>4. Numbers' = Numbers \cup {n} /\ (\A i \in Numbers : i < n) /\ n \notin Numbers
  BY <1>1, <1>2 DEF Numbers
<1>5. /\ Gone \subseteq Numbers /\ ToSet(buffer) \subseteq Numbers /\ ToSet(list) \subseteq Numbers
      /\ ToSet(reading) \subseteq Numbers /\ ToSet(driver) \subseteq Numbers
  BY DEF Packets, Line
<1>6. <<n>> \in Seq(Nat) /\ ToSet(<<n>>) = {n} /\ Ascending(<<n>>)
  BY <1>2, Singles
<1>. HIDE DEF n
<1>7. Earlier(ToSet(driver), {n})
  BY <1>4, <1>5 DEF Earlier
<1>8. driver' \in Seq(Nat) /\ ToSet(driver') = ToSet(driver) \cup {n} /\ Ascending(driver')
  <2>1. Ascending(driver)
    BY DEF Packets, Line
  <2>. QED BY <1>1, <1>2, <1>6, <1>7, <2>1, Joined
<1>9. Gone' = Gone
  BY <1>2 DEF Gone
<1>10. Typed'
  BY <1>2, <1>3, <1>8 DEF Packets, Typed
<1>11. Line'
  <2>1. InLine(ToSet(buffer), ToSet(list), ToSet(reading), ToSet(driver'))
    BY <1>4, <1>5, <1>8 DEF Packets, Line, InLine, Earlier
  <2>2. n \notin Gone \cup ToSet(buffer) \cup ToSet(list) \cup ToSet(reading)
    BY <1>4, <1>5
  <2>. QED BY <1>2, <1>4, <1>8, <1>9, <2>1, <2>2 DEF Packets, Line
<1>12. Order'
  <2>1. everHeld \subseteq Numbers
    BY <1>5 DEF Packets, Order
  <2>2. \A i \in Numbers', j \in everHeld :
          i < j /\ arrived'[i] = arrived'[j] => i \in Numbers /\ arrived[i] = arrived[j]
    <3>. SUFFICES ASSUME NEW i \in Numbers \cup {n}, NEW j \in everHeld, i < j
                  PROVE  i \in Numbers /\ arrived'[i] = arrived[i] /\ arrived'[j] = arrived[j]
      BY <1>4
    <3>1. j \in Numbers /\ j < n /\ j \in Nat
      BY <1>4, <2>1 DEF Numbers
    <3>2. i # n
      BY <1>2, <3>1
    <3>. QED BY <1>3, <3>1, <3>2
  <2>3. /\ \A i \in Numbers, j \in everHeld :
             i < j /\ arrived[i] = arrived[j] => i \in Gone \cup ToSet(buffer)
        /\ \A i \in Numbers, j \in Numbers \cap everHeld :
             (i < j /\ arrived[i] = arrived[j] /\ j \in Gone) => i \in Gone /\ Before(sent, i, j)
    BY DEF Packets, Order
  <2>4. \A i \in Numbers', j \in everHeld' :
          i < j /\ arrived'[i] = arrived'[j] => i \in Gone' \cup ToSet(buffer')
    BY <1>2, <1>9, <2>2, <2>3
  <2>5. \A i \in Numbers', j \in Numbers' \cap everHeld' :
          (i < j /\ arrived'[i] = arrived'[j] /\ j \in Gone') =>
            i \in Gone' /\ Before(sent', i, j)
    BY <1>2, <1>9, <2>1, <2>2, <2>3
  <2>6. /\ ToSet(buffer') \subseteq everHeld' /\ everHeld' \subseteq Gone' \cup ToSet(buffer')
        /\ \A p, q \in ToSet(buffer') : p < q => age'[q] <= age'[p]
    BY <1>2, <1>9 DEF Packets, Order
  <2>. QED BY <2>4, <2>5, <2>6 DEF Order
<1>13. Once'
  BY <1>2 DEF Packets, Once
<1>. QED BY <1>10, <1>11, <1>12, <1>13 DEF Packets

LEMMA PacketsClose ==
  ASSUME Packets, CloseHandle, UNCHANGED <<reading, list, buffer, age, arrived, sent, everHeld>>
  PROVE  Packets'
<1>1. Gone' = Gone \cup ToSet(driver) /\ driver' = <<>> /\ Numbers' = Numbers
  BY DEF Gone, CloseHandle, Numbers
<1>2. ToSet(driver') = {} /\ Ascending(driver') /\ driver' \in Seq(Nat)
  BY <1>1, Singles
<1>3. Typed'
  BY <1>2 DEF Packets, Typed
<1>4. Line'
  BY <1>1, <1>2, Apart DEF Packets, Line, InLine, Earlier
<1>5. Order'
  <2>1. everHeld \cap ToSet(driver) = {}
    BY Apart
  <2>. QED BY <1>1, <2>1 DEF Packets, Order
<1>6. Once'
  <2>1. ToSet(sent) \cap ToSet(driver) = {} /\ lost' = lost \cup ToSet(driver)
    BY DEF Packets, Line, Gone, CloseHandle
  <2>. QED BY <2>1 DEF Packets, Once
<1>. QED BY <1>3, <1>4, <1>5, <1>6 DEF Packets

LEMMA PacketsReceived ==
  ASSUME Packets, reading = <<>>, driver # <<>>,
         reading' = <<Head(driver)>>, driver' = Tail(driver),
         UNCHANGED <<list, buffer, age, history>>
  PROVE  Packets'
<1>1. driver \in Seq(Nat) /\ Ascending(driver) /\ ToSet(reading) = {}
  BY Singles DEF Packets, Typed, Line
<1>2. /\ Head(driver) \in Nat /\ driver' \in Seq(Nat)
      /\ ToSet(driver) = {Head(driver)} \cup ToSet(driver')
      /\ Ascending(driver') /\ Earlier({Head(driver)}, ToSet(driver'))
  BY <1>1, HeadFirst
<1>3. reading' \in Seq(Nat) /\ ToSet(reading') = {Head(driver)} /\ Ascending(reading')
  BY <1>2, Singles
<1>4. Numbers' = Numbers /\ Gone' = Gone
  BY DEF Numbers, Gone, history
<1>5. Typed'
  BY <1>2, <1>3 DEF Packets, Typed, history
<1>6. Line'
  <2>1. InLine(ToSet(buffer), ToSet(list), ToSet(reading'), ToSet(driver'))
    BY <1>2, <1>3 DEF Packets, Line, InLine, Earlier
  <2>. QED BY <1>1, <1>2, <1>3, <1>4, <2>1 DEF Packets, Line
<1>7. Order' /\ Once'
  BY <1>4 DEF Packets, Order, Once, history
<1>. QED BY <1>5, <1>6, <1>7 DEF Packets

LEMMA PacketsDropped ==
  ASSUME Packets, reading' = <<>>, lost' = lost \cup ToSet(reading),
         UNCHANGED <<driver, list, buffer, age, arrived, sent, everHeld>>
  PROVE  Packets'
<1>1. Gone' = Gone \cup ToSet(reading) /\ Numbers' = Numbers
  BY DEF Gone, Numbers
<1>2. ToSet(reading') = {} /\ Ascending(reading') /\ reading' \in Seq(Nat)
  BY Singles
<1>3. Typed'
  BY <1>2 DEF Packets, Typed
<1>4. Line'
  BY <1>1, <1>2, Apart DEF Packets, Line, InLine, Earlier
<1>5. Order'
  <2>1. everHeld \cap ToSet(reading) = {}
    BY Apart
  <2>. QED BY <1>1, <2>1 DEF Packets, Order
<1>6. Once'
  <2>1. ToSet(sent) \cap ToSet(reading) = {}
    BY DEF Packets, Line, Gone
  <2>. QED BY <2>1 DEF Packets, Once
<1>. QED BY <1>3, <1>4, <1>5, <1>6 DEF Packets

LEMMA PacketsListed ==
  ASSUME Packets, list' = list \o reading, reading' = <<>>,
         UNCHANGED <<driver, buffer, age, history>>
  PROVE  Packets'
<1>1. /\ list \in Seq(Nat) /\ reading \in Seq(Nat) /\ Ascending(list) /\ Ascending(reading)
      /\ Earlier(ToSet(list), ToSet(reading))
  BY DEF Packets, Typed, Line, InLine
<1>2. /\ list' \in Seq(Nat) /\ Ascending(list')
      /\ ToSet(list') = ToSet(list) \cup ToSet(reading)
  BY <1>1, Joined
<1>3. ToSet(reading') = {} /\ Ascending(reading') /\ reading' \in Seq(Nat)
  BY Singles
<1>4. Numbers' = Numbers /\ Gone' = Gone
  BY DEF Numbers, Gone, history
<1>5. Typed'
  BY <1>2, <1>3 DEF Packets, Typed, history
<1>6. Line'
  <2>1. InLine(ToSet(buffer), ToSet(list'), ToSet(reading'), ToSet(driver))
    BY <1>2, <1>3 DEF Packets, Line, InLine, Earlier
  <2>. QED BY <1>2, <1>3, <1>4, <2>1 DEF Packets, Line
<1>7. Order' /\ Once'
  BY <1>4 DEF Packets, Order, Once, history
<1>. QED BY <1>5, <1>6, <1>7 DEF Packets

LEMMA PacketsDrained ==
  ASSUME Packets, driver # <<>>, SendAll(<<Head(driver)>>), driver' = Tail(driver),
         UNCHANGED <<reading, list, buffer, age, arrived, everHeld>>
  PROVE  Packets'
<1>. DEFINE out == <<Head(driver)>>
<1>1. driver \in Seq(Nat) /\ Ascending(driver)
  BY DEF Packets, Typed, Line
<1>2. /\ Head(driver) \in Nat /\ driver' \in Seq(Nat)
      /\ ToSet(driver) = {Head(driver)} \cup ToSet(driver')
      /\ Ascending(driver') /\ Earlier({Head(driver)}, ToSet(driver'))
  BY <1>1, HeadFirst
<1>3. out \in Seq(Nat) /\ ToSet(out) = {Head(driver)} /\ IsInjective(out) /\ SendAll(out)
  BY <1>2, Singles, AscendingIsInjective
<1>. HIDE DEF out
<1>4. sent' \in Seq(Nat) /\ Gone' = Gone \cup {Head(driver)} /\ Numbers' = Numbers
  <2>1. Typed
    BY DEF Packets
  <2>. QED BY <1>3, <2>1, Sends DEF Numbers
<1>5. /\ Head(driver) \notin ToSet(driver') /\ Head(driver) \in ToSet(driver)
  BY <1>2 DEF Earlier
<1>6. Typed'
  BY <1>2, <1>4 DEF Packets, Typed
<1>7. Line'
  <2>1. InLine(ToSet(buffer), ToSet(list), ToSet(reading), ToSet(driver'))
    BY <1>2 DEF Packets, Line, InLine, Earlier
  <2>. QED BY <1>2, <1>4, <1>5, <2>1, Apart DEF Packets, Line
<1>8. Order'
  <2>1. everHeld \cap ToSet(out) = {} /\ ToSet(out) \cap Gone = {}
    BY <1>3, <1>5, Apart DEF Packets, Line
  <2>2. \A i \in Numbers', j \in Numbers' \cap everHeld' :
           (i < j /\ arrived'[i] = arrived'[j] /\ j \in Gone') =>
             /\ i \in Gone'
             /\ Before(sent', i, j)
    BY <1>3, <2>1, SentInOrder
  <2>3. \A i \in Numbers', j \in everHeld' :
          i < j /\ arrived'[i] = arrived'[j] => i \in Gone' \cup ToSet(buffer')
    BY <1>4 DEF Packets, Order
  <2>. QED BY <1>4, <2>2, <2>3 DEF Packets, Order
<1>9. Once'
  <2>1. ToSet(out) \cap Gone = {}
    BY <1>3, <1>5 DEF Packets, Line
  <2>. QED BY <1>3, <2>1, Sends DEF Packets
<1>. QED BY <1>6, <1>7, <1>8, <1>9 DEF Packets

LEMMA PacketsFlushed ==
  ASSUME Packets, ~lastEnabled => buffer = <<>>, CloseDown,
         UNCHANGED <<driver, reading, arrived, everHeld>>
  PROVE  Packets'
<1>. DEFINE held == IF lastEnabled THEN buffer ELSE <<>>
            out == held \o list
<1>1. held = buffer /\ SendAll(out) /\ list' = <<>>
  BY DEF CloseDown
<1>2. buffer' = <<>> /\ age' = [p \in {} |-> AgeOf(p)]
  BY Singles DEF CloseDown, Buffered
<1>3. /\ buffer \in Seq(Nat) /\ list \in Seq(Nat) /\ Ascending(buffer) /\ Ascending(list)
      /\ Earlier(ToSet(buffer), ToSet(list))
  BY DEF Packets, Typed, Line, InLine
<1>. HIDE DEF held
<1>4. /\ out \in Seq(Nat) /\ Ascending(out) /\ ToSet(out) = ToSet(buffer) \cup ToSet(list)
  BY <1>1, <1>3, Joined
<1>. HIDE DEF out
<1>5. sent' \in Seq(Nat) /\ Gone' = Gone \cup ToSet(buffer) \cup ToSet(list) /\ Numbers' = Numbers
  <2>1. Typed
    BY DEF Packets
  <2>. QED BY <1>1, <1>4, <2>1, Sends DEF Numbers
<1>6. /\ ToSet(buffer') = {} /\ Ascending(buffer') /\ buffer' \in Seq(Nat)
      /\ ToSet(list') = {} /\ Ascending(list') /\ list' \in Seq(Nat)
  BY <1>1, <1>2, Singles
<1>7. Typed'
  BY <1>2, <1>5, <1>6 DEF Packets, Typed
<1>8. Line'
  <2>1. InLine(ToSet(buffer'), ToSet(list'), ToSet(reading), ToSet(driver))
    BY <1>6 DEF Packets, Line, InLine, Earlier
  <2>. QED BY <1>5, <1>6, <2>1, Apart DEF Packets, Line
<1>9. Order'
  <2>1. ToSet(out) \cap Gone = {}
    BY <1>4 DEF Packets, Line
  <2>2. ASSUME NEW i \in Numbers, NEW j \in Numbers \cap everHeld', i < j,
               arrived[i] = arrived[j], j \in ToSet(out)
        PROVE  i \in Gone \cup ToSet(out) /\ Before(out, i, j)
    <3>1. i \in Gone \cup ToSet(buffer)
      BY <2>2 DEF Packets, Order
    <3>2. i \in Nat /\ j \in Nat
      BY DEF Numbers
    <3>. QED BY <1>4, <2>2, <3>1, <3>2, AscendingIsBefore
  <2>3. \A i \in Numbers', j \in Numbers' \cap everHeld' :
           (i < j /\ arrived'[i] = arrived'[j] /\ j \in Gone') =>
             /\ i \in Gone'
             /\ Before(sent', i, j)
    BY <1>1, <1>4, <2>1, <2>2, SentInOrder
  <2>4. \A i \in Numbers', j \in everHeld' :
          i < j /\ arrived'[i] = arrived'[j] => i \in Gone' \cup ToSet(buffer')
    BY <1>5 DEF Packets, Order
  <2>. QED BY <1>5, <1>6, <2>3, <2>4 DEF Packets, Order
<1>10. Once'
  <2>1. IsInjective(out) /\ ToSet(out) \cap Gone = {}
    BY <1>4, AscendingIsInjective DEF Packets, Line
  <2>. QED BY <1>1, <1>4, <2>1, Sends DEF Packets
<1>. QED BY <1>7, <1>8, <1>9, <1>10 DEF Packets

-----------------------------------------------------------------------------
(* A pass of the Lag module.                                               *)

(* A packet that is ready makes every earlier one of its direction ready.  *)
LEMMA ReadyIsMonotone ==
  ASSUME Packets, lag \in LagSettings,
         NEW T \in SUBSET ToSet(list),
         NEW p \in ToSet(buffer) \cup T, NEW q \in ToSet(buffer) \cup T,
         p < q, arrived[p] = arrived[q], Ready(q)
  PROVE  Ready(p)
<1>. DEFINE delay == Delay(lag, arrived[q])
<1>1. delay \in Nat
  BY DEF LagSettings, Delay
<1>2. Lagging(p) <=> delay > 0
  BY DEF Lagging
<1>3. Delay(lag, arrived[p]) = delay /\ (Lagging(q) <=> delay > 0)
  BY DEF Lagging
<1>. HIDE DEF delay
<1>4. age \in [ToSet(buffer) -> Nat]
  BY DEF Packets, Typed
<1>5. \A t \in T : AgeOf(t) = 0
  BY <1>4, Apart DEF AgeOf
<1>6. \A b \in ToSet(buffer) : AgeOf(b) = age[b] /\ age[b] \in Nat
  BY <1>4 DEF AgeOf
<1>7. SUFFICES ASSUME delay > 0, AgeOf(q) > delay PROVE AgeOf(p) > delay
  BY <1>2, <1>3 DEF Ready, delay
<1>8. q \in ToSet(buffer)
  BY <1>1, <1>5, <1>7
<1>9. p \in ToSet(buffer)
  <2>1. p \in T => q < p
    BY <1>8 DEF Packets, Line, InLine, Earlier
  <2>2. p \in Nat /\ q \in Nat
    BY Apart
  <2>. QED BY <2>1, <2>2
<1>10. age[q] <= age[p]
  BY <1>8, <1>9 DEF Packets, Order
<1>. QED BY <1>1, <1>6, <1>7, <1>8, <1>9, <1>10

(* What the module takes from the list: of the packets that are to lag the *)
(* earlier ones.                                                           *)
LEMMA TakenIsFirst ==
  ASSUME Packets, KeepAtMost \in Nat
  PROVE  /\ Taken \in Seq(Nat) /\ Ascending(Taken)
         /\ \A p \in ToSet(Taken) : p \in ToSet(list) /\ Lagging(p)
         /\ \A p \in ToSet(Taken), q \in ToSet(list) : Lagging(q) /\ q < p => q \in ToSet(Taken)
<1>. DEFINE lagging == {p \in ToSet(list) : Lagging(p)}
            s == Among(list, lagging)
            room == KeepAtMost - Len(buffer)
<1>1. list \in Seq(Nat) /\ Ascending(list) /\ buffer \in Seq(Nat)
  BY DEF Packets, Typed, Line
<1>2. s \in Seq(Nat) /\ Ascending(s) /\ ToSet(s) = ToSet(list) \cap lagging
  BY <1>1, AmongKeeps
<1>3. room \in Int
  BY <1>1
<1>4. Taken = FirstOf(s, room)
  BY DEF Taken
<1>5. \A p : p \in ToSet(list) \cap lagging <=> p \in ToSet(list) /\ Lagging(p)
  OBVIOUS
<1>. HIDE DEF lagging, s, room
<1>6. /\ FirstOf(s, room) \in Seq(Nat) /\ ToSet(FirstOf(s, room)) \subseteq ToSet(s)
      /\ Ascending(FirstOf(s, room))
      /\ \A p \in ToSet(FirstOf(s, room)), q \in ToSet(s) : q < p => q \in ToSet(FirstOf(s, room))
  BY <1>2, <1>3, FirstKeeps
<1>. QED BY <1>2, <1>4, <1>5, <1>6

LEMMA FlushedIsFirst ==
  ASSUME NEW s \in Seq(Nat), Ascending(s), FlushWhenFull \in Nat
  PROVE  /\ Flushed(s) \in Seq(Nat) /\ Ascending(Flushed(s))
         /\ ToSet(Flushed(s)) \subseteq ToSet(s)
         /\ \A p \in ToSet(Flushed(s)), q \in ToSet(s) : q < p => q \in ToSet(Flushed(s))
<1>1. CASE Len(s) < KeepAtMost
  BY <1>1, Singles DEF Flushed
<1>2. CASE ~(Len(s) < KeepAtMost)
  <2>1. Flushed(s) = FirstOf(s, FlushWhenFull)
    BY <1>2 DEF Flushed
  <2>2. FlushWhenFull \in Int
    OBVIOUS
  <2>. QED BY <2>1, <2>2, FirstKeeps
<1>. QED BY <1>1, <1>2

(* What a pass leaves in the buffer and sends, as sets and orders.         *)
PassResult(taken, waiting, flushed, out) ==
  /\ taken \in Seq(Nat) /\ waiting \in Seq(Nat) /\ flushed \in Seq(Nat) /\ out \in Seq(Nat)
  /\ ToSet(taken) \subseteq ToSet(list)
  /\ \A p \in ToSet(taken), q \in ToSet(list) :
       q < p /\ arrived[q] = arrived[p] => q \in ToSet(taken)
  /\ ToSet(waiting) \subseteq ToSet(buffer) \cup ToSet(taken)
  /\ \A p \in ToSet(waiting), q \in ToSet(buffer) \cup ToSet(taken) :
       p < q /\ arrived[p] = arrived[q] => q \in ToSet(waiting)
  /\ ToSet(flushed) \subseteq ToSet(waiting)
  /\ \A p \in ToSet(flushed), q \in ToSet(waiting) : q < p => q \in ToSet(flushed)
  /\ Ascending(waiting)
  /\ ToSet(out) = (ToSet(list) \cup ToSet(buffer)) \ (ToSet(waiting) \ ToSet(flushed))
  /\ IsInjective(out)
  /\ \A i, j \in ToSet(buffer) \cup ToSet(list) :
       i < j /\ j \in ToSet(buffer) \cup ToSet(taken) /\ arrived[i] = arrived[j]
         => Before(out, i, j)

LEMMA PassYields ==
  ASSUME Packets, lag \in LagSettings, KeepAtMost \in Nat, FlushWhenFull \in Nat
  PROVE  LET taken == Taken
             waiting == Waiting(buffer \o taken)
             flushed == Flushed(waiting)
         IN  PassResult(taken, waiting, flushed,
               Among(list, ToSet(list) \ ToSet(taken))
                 \o Among(buffer \o taken, ToSet(buffer \o taken) \ ToSet(waiting))
                 \o flushed)
<1>. DEFINE taken == Taken
            entered == buffer \o taken
            B == ToSet(buffer)
            L == ToSet(list)
            T == ToSet(taken)
            waits == {p \in ToSet(entered) : ~Ready(p)}
            waiting == Waiting(entered)
            W == ToSet(waiting)
            flushed == Flushed(waiting)
            F == ToSet(flushed)
            passed == Among(list, L \ T)
            released == Among(entered, ToSet(entered) \ W)
            out == passed \o released \o flushed
<1>1. /\ buffer \in Seq(Nat) /\ list \in Seq(Nat) /\ Ascending(buffer) /\ Ascending(list)
      /\ Earlier(B, L)
  BY DEF Packets, Typed, Line, InLine
<1>2. B \subseteq Nat /\ L \subseteq Nat /\ B \cap L = {}
  BY Apart
<1>3. /\ taken \in Seq(Nat) /\ Ascending(taken) /\ T \subseteq L
      /\ \A p \in T : Lagging(p)
      /\ \A p \in T, q \in L : Lagging(q) /\ q < p => q \in T
  BY TakenIsFirst
<1>4. \A p \in T, q \in L : q < p /\ arrived[q] = arrived[p] => q \in T
  BY <1>3 DEF Lagging
<1>. HIDE DEF taken
<1>5. entered \in Seq(Nat) /\ Ascending(entered) /\ ToSet(entered) = B \cup T
  <2>1. Earlier(B, T)
    BY <1>1, <1>3 DEF Earlier
  <2>. QED BY <1>1, <1>3, <2>1, Joined
<1>. HIDE DEF entered
<1>6. waiting \in Seq(Nat) /\ Ascending(waiting) /\ W = ToSet(entered) \cap waits
  BY <1>5, AmongKeeps DEF Waiting
<1>7. W = {p \in B \cup T : ~Ready(p)}
  BY <1>5, <1>6
<1>. HIDE DEF waiting
<1>8. ASSUME NEW p \in W, NEW q \in B \cup T, p < q, arrived[p] = arrived[q] PROVE q \in W
  BY <1>3, <1>7, <1>8, ReadyIsMonotone
<1>9. /\ flushed \in Seq(Nat) /\ Ascending(flushed) /\ F \subseteq W
      /\ \A p \in F, q \in W : q < p => q \in F
  BY <1>6, FlushedIsFirst
<1>. HIDE DEF flushed
<1>10. passed \in Seq(Nat) /\ Ascending(passed) /\ ToSet(passed) = L \ T
  <2>1. L \cap (L \ T) = L \ T
    OBVIOUS
  <2>. QED BY <1>1, <2>1, AmongKeeps
<1>11. released \in Seq(Nat) /\ Ascending(released) /\ ToSet(released) = (B \cup T) \ W
  <2>1. (B \cup T) \cap ((B \cup T) \ W) = (B \cup T) \ W
    OBVIOUS
  <2>. QED BY <1>5, <2>1, AmongKeeps
<1>. HIDE DEF passed, released
<1>12. /\ passed \o released \in Seq(Nat)
       /\ ToSet(passed \o released) = (L \ T) \cup ((B \cup T) \ W)
       /\ IsInjective(passed \o released)
       /\ \A i, j : Before(passed, i, j) /\ Before(released, i, j)
                      /\ ~(j \in ToSet(passed) /\ i \in ToSet(released))
                      => Before(passed \o released, i, j)
  <2>1. ToSet(passed) \cap ToSet(released) = {}
    BY <1>2, <1>3, <1>10, <1>11
  <2>. QED BY <1>10, <1>11, <2>1, AscendingIsInjective, Joined
<1>13. /\ out \in Seq(Nat)
       /\ ToSet(out) = ((L \ T) \cup ((B \cup T) \ W)) \cup F
       /\ IsInjective(out)
       /\ \A i, j : Before(passed \o released, i, j) /\ Before(flushed, i, j)
                      /\ ~(j \in ToSet(passed \o released) /\ i \in ToSet(flushed))
                      => Before(out, i, j)
  <2>1. ToSet(passed \o released) \cap F = {}
    BY <1>2, <1>3, <1>7, <1>9, <1>12
  <2>. QED BY <1>9, <1>12, <2>1, AscendingIsInjective, Joined
<1>14. ToSet(out) = (L \cup B) \ (W \ F)
  BY <1>2, <1>3, <1>7, <1>9, <1>13
<1>15. ASSUME NEW i \in B \cup L, NEW j \in B \cup L,
              i < j, j \in B \cup T, arrived[i] = arrived[j]
       PROVE  Before(out, i, j)
  <2>1. i \in Nat /\ j \in Nat
    BY <1>2
  <2>2. Before(passed, i, j) /\ Before(released, i, j) /\ Before(flushed, i, j)
    BY <1>9, <1>10, <1>11, <1>15, <2>1, AscendingIsBefore
  <2>3. j \notin ToSet(passed)
    BY <1>2, <1>10, <1>15
  <2>4. Before(passed \o released, i, j)
    BY <1>12, <2>2, <2>3
  <2>5. ~(j \in ToSet(passed \o released) /\ i \in F)
    <3>1. SUFFICES ASSUME j \in (B \cup T) \ W, i \in F PROVE FALSE
      BY <1>10, <1>12, <2>3
    <3>. QED BY <1>8, <1>9, <1>15, <3>1
  <2>. QED BY <1>13, <2>2, <2>4, <2>5
<1>. HIDE DEF out
<1>16. PassResult(taken, waiting, flushed, out)
  BY <1>3, <1>4, <1>6, <1>7, <1>8, <1>9, <1>13, <1>14, <1>15 DEF PassResult
<1>. QED BY <1>16 DEF out, passed, released, flushed, waiting, entered, taken

LEMMA PacketsProcessed ==
  ASSUME Packets, lag \in LagSettings, KeepAtMost \in Nat, FlushWhenFull \in Nat,
         NEW t, Process(t)
  PROVE  Packets' /\ (Reported => Reported')
<1>. DEFINE taken == Taken
            waiting == Waiting(buffer \o taken)
            flushed == Flushed(waiting)
            out == Among(list, ToSet(list) \ ToSet(taken))
                     \o Among(buffer \o taken, ToSet(buffer \o taken) \ ToSet(waiting))
                     \o flushed
            left == Among(waiting, ToSet(waiting) \ ToSet(flushed))
            B == ToSet(buffer)
            L == ToSet(list)
            T == ToSet(taken)
            W == ToSet(waiting)
            F == ToSet(flushed)
<1>1. PassResult(taken, waiting, flushed, out)
  BY PassYields
<1>2. /\ SendAll(out)
      /\ buffer' = left /\ age' = [p \in ToSet(left) |-> AgeOf(p)]
      /\ everHeld' = everHeld \cup T
      /\ list' = <<>>
      /\ UNCHANGED <<driver, reading, arrived>>
  BY DEF Process, Buffered
<1>3. waiting \in Seq(Nat) /\ Ascending(waiting)
  BY <1>1 DEF PassResult
<1>4. left \in Seq(Nat) /\ Ascending(left) /\ ToSet(left) = W \ F
  <2>. HIDE DEF waiting, flushed
  <2>1. W \cap (W \ F) = W \ F
    OBVIOUS
  <2>. QED BY <1>3, <2>1, AmongKeeps
<1>. HIDE DEF left, out, flushed, waiting, taken
<1>5. /\ out \in Seq(Nat) /\ T \subseteq L /\ W \subseteq B \cup T /\ F \subseteq W
      /\ ToSet(out) = (L \cup B) \ (W \ F) /\ IsInjective(out)
  BY <1>1 DEF PassResult
<1>6. /\ B \cap L = {} /\ Gone \cap (B \cup L) = {} /\ Numbers \subseteq Nat
      /\ B \subseteq Numbers /\ L \subseteq Numbers /\ Gone \subseteq Numbers
      /\ everHeld \subseteq Gone \cup B /\ B \subseteq everHeld /\ everHeld \cap L = {}
  BY Apart DEF Packets, Line, Order
<1>7. /\ sent' \in Seq(Nat) /\ Gone' = Gone \cup ToSet(out) /\ Numbers' = Numbers
      /\ (Reported => Reported') /\ Once'
  <2>1. Typed /\ Once
    BY DEF Packets
  <2>2. Numbers' = Numbers
    BY <1>2 DEF Numbers
  <2>3. ToSet(out) \cap Gone = {}
    BY <1>5, <1>6
  <2>. QED BY <1>2, <1>5, <2>1, <2>2, <2>3, Sends
<1>8. /\ ToSet(buffer') = W \ F /\ Ascending(buffer') /\ buffer' \in Seq(Nat)
      /\ ToSet(list') = {} /\ Ascending(list') /\ list' \in Seq(Nat)
  BY <1>2, <1>4, Singles
<1>9. age \in [B -> Nat]
  BY DEF Packets, Typed
<1>10. /\ \A p \in W \ F : AgeOf(p) \in Nat /\ (p \in T => AgeOf(p) = 0)
       /\ \A p \in B : AgeOf(p) = age[p] /\ age[p] \in Nat
  BY <1>5, <1>6, <1>9 DEF AgeOf
<1>11. age' \in [ToSet(buffer') -> Nat]
  BY <1>2, <1>4, <1>8, <1>10
<1>12. Typed'
  BY <1>2, <1>7, <1>8, <1>11 DEF Packets, Typed
<1>13. Line'
  <2>1. InLine(ToSet(buffer'), ToSet(list'), ToSet(reading), ToSet(driver))
    BY <1>5, <1>8 DEF Packets, Line, InLine, Earlier
  <2>2. /\ Numbers = Gone \cup B \cup L \cup ToSet(reading) \cup ToSet(driver)
        /\ Gone \cap (B \cup L \cup ToSet(reading) \cup ToSet(driver)) = {}
        /\ B \cap (ToSet(reading) \cup ToSet(driver)) = {}
        /\ L \cap (ToSet(reading) \cup ToSet(driver)) = {}
    BY Apart DEF Packets, Line
  <2>3. /\ Gone' \cap (ToSet(buffer') \cup ToSet(list') \cup ToSet(reading) \cup ToSet(driver)) = {}
        /\ Numbers' = Gone' \cup ToSet(buffer') \cup ToSet(list') \cup ToSet(reading)
                        \cup ToSet(driver)
    BY <1>5, <1>6, <1>7, <1>8, <2>2
  <2>4. Ascending(reading') /\ Ascending(driver')
    BY <1>2 DEF Packets, Line
  <2>. QED BY <1>2, <1>8, <2>1, <2>3, <2>4 DEF Line
<1>14. ASSUME NEW i \in Numbers, NEW j \in everHeld', i < j, arrived[i] = arrived[j]
       PROVE  i \in Gone \cup B \cup T
  <2>1. CASE j \in everHeld
    BY <1>14, <2>1 DEF Packets, Order
  <2>2. CASE j \in T
    <3>1. i \in Gone \cup B \cup L
      <4>1. Numbers = Gone \cup B \cup L \cup ToSet(reading) \cup ToSet(driver)
        BY DEF Packets, Line
      <4>2. j \in L /\ j \in Nat /\ i \in Nat
        BY <1>5, <1>6, <2>2
      <4>3. i \notin ToSet(reading) \cup ToSet(driver)
        BY <1>14, <4>2 DEF Packets, Line, InLine, Earlier
      <4>. QED BY <4>1, <4>3
    <3>2. i \in L => i \in T
      BY <1>1, <1>14, <2>2 DEF PassResult
    <3>. QED BY <3>1, <3>2
  <2>. QED BY <1>2, <2>1, <2>2
<1>15. Order'
  <2>1. ToSet(buffer') \subseteq everHeld' /\ everHeld' \subseteq Gone' \cup ToSet(buffer')
    BY <1>2, <1>5, <1>6, <1>7, <1>8
  <2>2. ASSUME NEW p \in ToSet(buffer'), NEW q \in ToSet(buffer'), p < q
        PROVE  age'[q] <= age'[p]
    <3>1. age'[p] = AgeOf(p) /\ age'[q] = AgeOf(q) /\ p \in W \ F /\ q \in W \ F
      BY <1>2, <1>4, <1>8
    <3>2. CASE q \in T
      BY <1>10, <3>1, <3>2
    <3>3. CASE q \in B /\ p \in B
      BY <1>10, <2>2, <3>1, <3>3 DEF Packets, Order
    <3>4. CASE q \in B /\ p \in T
      <4>1. q < p
        BY <1>5, <3>4 DEF Packets, Line, InLine, Earlier
      <4>2. p \in Nat /\ q \in Nat
        BY <1>5, <1>6, <3>1
      <4>. QED BY <2>2, <4>1, <4>2
    <3>. QED BY <1>5, <3>1, <3>2, <3>3, <3>4
  <2>3. \A i \in Numbers', j \in everHeld' :
          i < j /\ arrived'[i] = arrived'[j] => i \in Gone' \cup ToSet(buffer')
    BY <1>2, <1>5, <1>7, <1>8, <1>14
  <2>4. ToSet(out) \cap Gone = {} /\ everHeld' \cap Gone \subseteq everHeld
    BY <1>2, <1>5, <1>6
  <2>5. ASSUME NEW i \in Numbers, NEW j \in Numbers \cap everHeld', i < j,
               arrived[i] = arrived[j], j \in ToSet(out)
        PROVE  i \in Gone \cup ToSet(out) /\ Before(out, i, j)
    <3>1. i \in Gone \cup B \cup T
      BY <1>14, <2>5
    <3>2. j \in B \cup T /\ j \notin W \ F /\ j \notin Gone
      BY <1>2, <1>5, <1>6, <2>4, <2>5
    <3>3. CASE i \in Gone
      <4>1. i \notin ToSet(out)
        BY <2>4, <3>3
      <4>. QED BY <1>5, <3>3, <4>1, Elsewhere
    <3>4. CASE i \in B \cup T
      <4>1. Before(out, i, j)
        BY <1>1, <1>5, <2>5, <3>2, <3>4 DEF PassResult
      <4>2. i \in W => j \in W
        BY <1>1, <2>5, <3>2 DEF PassResult
      <4>3. i \in W => i \in F
        BY <1>1, <2>5, <3>2, <4>2 DEF PassResult
      <4>. QED BY <1>5, <3>4, <4>1, <4>3
    <3>. QED BY <3>1, <3>3, <3>4
  <2>6. \A i \in Numbers', j \in Numbers' \cap everHeld' :
           (i < j /\ arrived'[i] = arrived'[j] /\ j \in Gone') =>
             /\ i \in Gone'
             /\ Before(sent', i, j)
    BY <1>2, <1>5, <2>4, <2>5, SentInOrder
  <2>. QED BY <2>1, <2>2, <2>3, <2>6 DEF Order
<1>. QED BY <1>7, <1>12, <1>13, <1>15 DEF Packets

-----------------------------------------------------------------------------
(* What each step does to the threads.                                     *)

LEMMA InitIsGood == Init => Inv
<1>. SUFFICES ASSUME Init PROVE Inv
  OBVIOUS
<1>1. lag \in LagSettings
  BY LagLimitsAssumption DEF Init, lagSettingsDefault, LagSettings
<1>2. /\ driver = <<>> /\ reading = <<>> /\ list = <<>> /\ buffer = <<>> /\ sent = <<>>
      /\ arrived = <<>> /\ lost = {} /\ everHeld = {} /\ age = [p \in {} |-> 0]
  BY DEF Init
<1>3. ToSet(<<>>) = {} /\ Ascending(<<>>) /\ <<>> \in Seq(Nat)
  BY Singles
<1>4. Numbers = {} /\ Gone = {} /\ arrived \in Seq(BOOLEAN)
  BY <1>2, <1>3 DEF Numbers, Gone
<1>5. Packets
  <2>1. Typed
    BY <1>2, <1>3, <1>4 DEF Typed
  <2>2. Line
    BY <1>2, <1>3, <1>4 DEF Line, InLine, Earlier
  <2>3. Order
    BY <1>2, <1>3, <1>4 DEF Order
  <2>4. Once
    BY <1>2, <1>3 DEF Once, IsInjective
  <2>. QED BY <2>1, <2>2, <2>3, <2>4 DEF Packets
<1>6. Control
  BY <1>2 DEF Init, Control, Calls, Hands, Reported, Quiet, WorkersGone, Working, Threads
<1>. QED BY <1>1, <1>5, <1>6 DEF Inv

LEMMA ControlKept ==
  ASSUME Inv, [Next]_vars
  PROVE  Control'
<1>. USE DEF Inv, Control, Calls, Hands, Reported, Quiet, WorkersGone, Working, Threads, Goto,
             control, packets, history
<1>1. ASSUME NEW s \in Settings, applyLag(s) \/ start(s) PROVE Control'
  BY <1>1 DEF applyLag, start
<1>2. ASSUME NEW outbound \in BOOLEAN, Arrive(outbound) PROVE Control'
  BY <1>2 DEF Arrive
<1>3. CASE Tick
  BY <1>3 DEF Tick
<1>4. CASE StartFails
  BY <1>4 DEF StartFails
<1>5. CASE stop
  BY <1>5 DEF stop
<1>6. CASE SpawnReader
  BY <1>6 DEF SpawnReader
<1>7. CASE SpawnClock
  BY <1>7 DEF SpawnClock
<1>8. CASE Abort
  BY <1>8 DEF Abort, CloseHandle
<1>9. CASE Shutdown
  BY <1>9 DEF Shutdown, CloseHandle
<1>10. CASE Join
  BY <1>10 DEF Join, CloseDown, Buffered, SendAll
<1>11. CASE Drain
  BY <1>11 DEF Drain, SendAll
<1>12. CASE Stopped
  <2>1. driver = <<>> => ToSet(driver) = {}
    BY Singles
  <2>. QED BY <1>12, <2>1 DEF Stopped, CloseHandle
<1>13. CASE ReaderGate
  BY <1>13 DEF ReaderGate, WorkersReady
<1>14. CASE ReaderReceives
  BY <1>14 DEF ReaderReceives
<1>15. CASE ReaderEnds
  BY <1>15 DEF ReaderEnds
<1>16. CASE ReaderFails
  BY <1>16 DEF ReaderFails
<1>17. CASE ReaderLocks
  BY <1>17 DEF ReaderLocks, MutexFree
<1>18. CASE ClockGate
  BY <1>18 DEF ClockGate
<1>19. CASE ClockLocks
  BY <1>19 DEF ClockLocks, MutexFree
<1>20. CASE ClockFails
  BY <1>20 DEF ClockFails
<1>21. ASSUME NEW t \in {"reader", "clock"}, Consume(t) PROVE Control'
  <2>1. CASE lag.enabled
    BY <1>21, <2>1 DEF Consume
  <2>2. CASE ~lag.enabled
    BY <1>21, <2>2 DEF Consume, CloseDown, Buffered, SendAll, Release
  <2>. QED BY <2>1, <2>2
<1>22. ASSUME NEW t \in {"reader", "clock"}, Process(t) PROVE Control'
  <2>1. pc[t] = "process" /\ list' = <<>> /\ Release(t)
    BY <1>22 DEF Process
  <2>2. UNCHANGED <<running, stopLooping, handle, lastEnabled, driver, reading>>
    BY <1>22 DEF Process
  <2>3. Reported'
    <3>1. KeepAtMost \in Nat /\ FlushWhenFull \in Nat
      BY WindowsAssumption
    <3>. QED BY <1>22, <3>1, PacketsProcessed
  <2>. QED BY <2>1, <2>2, <2>3 DEF Release
<1>23. CASE UNCHANGED vars
  BY <1>23 DEF vars
<1>. QED
  BY <1>1, <1>2, <1>3, <1>4, <1>5, <1>6, <1>7, <1>8, <1>9, <1>10, <1>11,
     <1>12, <1>13, <1>14, <1>15, <1>16, <1>17, <1>18, <1>19, <1>20, <1>21, <1>22, <1>23
  DEF Next, Owner, Reader, Clock

LEMMA PacketsKept ==
  ASSUME Inv, [Next]_vars
  PROVE  Packets'
<1>1. Packets /\ lag \in LagSettings /\ (~lastEnabled => buffer = <<>>)
  BY DEF Inv, Control, Hands
<1>. USE DEF control, packets, history
<1>2. LagMaxMs \in Nat /\ KeepAtMost \in Nat /\ FlushWhenFull \in Nat
  BY LagLimitsAssumption, WindowsAssumption
<1>3. ASSUME NEW s \in Settings, applyLag(s) \/ start(s) PROVE Packets'
  BY <1>1, <1>3, PacketsStay DEF applyLag, start
<1>4. ASSUME NEW outbound \in BOOLEAN, Arrive(outbound) PROVE Packets'
  BY <1>1, <1>4, PacketsArrive
<1>5. CASE Tick
  BY <1>1, <1>2, <1>5, PacketsTick DEF Tick
<1>6. CASE StartFails \/ stop \/ SpawnReader \/ SpawnClock
  BY <1>1, <1>6, PacketsStay DEF StartFails, stop, SpawnReader, SpawnClock
<1>7. CASE ReaderGate \/ ReaderEnds \/ ClockGate \/ ClockLocks \/ ClockFails
  BY <1>1, <1>7, PacketsStay DEF ReaderGate, ReaderEnds, ClockGate, ClockLocks, ClockFails
<1>8. CASE Abort \/ Stopped
  BY <1>1, <1>8, PacketsClose DEF Abort, Stopped
<1>9. CASE Shutdown
  <2>1. CASE CloseHandle
    BY <1>1, <1>9, <2>1, PacketsClose DEF Shutdown
  <2>2. CASE ~CloseHandle
    BY <1>1, <1>9, <2>2, PacketsStay DEF Shutdown
  <2>. QED BY <2>1, <2>2
<1>10. CASE Join
  BY <1>1, <1>10, PacketsFlushed DEF Join
<1>11. CASE Drain
  BY <1>1, <1>11, PacketsDrained DEF Drain
<1>12. CASE ReaderReceives
  <2>1. reading = <<>>
    BY <1>12 DEF ReaderReceives, Inv, Control, Hands
  <2>. QED BY <1>1, <1>12, <2>1, PacketsReceived DEF ReaderReceives
<1>13. CASE ReaderFails
  BY <1>1, <1>13, PacketsDropped DEF ReaderFails
<1>14. CASE ReaderLocks
  BY <1>1, <1>14, PacketsListed DEF ReaderLocks
<1>15. ASSUME NEW t \in {"reader", "clock"}, Consume(t) PROVE Packets'
  <2>1. CASE lag.enabled
    BY <1>1, <1>15, <2>1, PacketsStay DEF Consume
  <2>2. CASE ~lag.enabled
    BY <1>1, <1>15, <2>2, PacketsFlushed DEF Consume
  <2>. QED BY <2>1, <2>2
<1>16. ASSUME NEW t \in {"reader", "clock"}, Process(t) PROVE Packets'
  BY <1>1, <1>2, <1>16, PacketsProcessed
<1>17. CASE UNCHANGED vars
  BY <1>1, <1>17, PacketsStay DEF vars
<1>. QED
  BY <1>3, <1>4, <1>5, <1>6, <1>7, <1>8, <1>9, <1>10, <1>11, <1>12, <1>13, <1>14, <1>15, <1>16,
     <1>17
  DEF Next, Owner, Reader, Clock

LEMMA SettingsTyped ==
  ASSUME lag \in LagSettings, [Next]_vars
  PROVE  lag' \in LagSettings
<1>1. Settings \subseteq LagSettings
  BY WindowsAssumption
<1>2. ASSUME NEW s \in Settings, applyLag(s) \/ start(s) PROVE lag' \in LagSettings
  BY <1>1, <1>2 DEF applyLag, start
<1>3. \/ \E s \in Settings : applyLag(s) \/ start(s)
      \/ lag' = lag
  BY DEF Next, Owner, Reader, Clock, vars, Arrive, Tick, StartFails, stop, SpawnReader, SpawnClock,
         Abort, Shutdown, Join, Drain, Stopped, ReaderGate, ReaderReceives, ReaderEnds, ReaderFails,
         ReaderLocks, ClockGate, ClockLocks, ClockFails, Consume, Process
<1>. QED BY <1>2, <1>3

-----------------------------------------------------------------------------
(* The invariant holds in every state.                                     *)
THEOREM InvHolds == Spec => []Inv
<1>1. Init => Inv
  BY InitIsGood
<1>2. Inv /\ [Next]_vars => Inv'
  <2>. SUFFICES ASSUME Inv, [Next]_vars PROVE Inv'
    OBVIOUS
  <2>1. Packets' /\ Control'
    BY PacketsKept, ControlKept
  <2>2. lag \in LagSettings
    BY DEF Inv
  <2>3. lag' \in LagSettings
    BY <2>2, SettingsTyped
  <2>. QED BY <2>1, <2>3 DEF Inv
<1>. QED BY <1>1, <1>2, PTL DEF Spec

(* No packet is dropped unless something failed, and a stopped capture has *)
(* sent on every packet it took, whichever switch was thrown just before,  *)
(* and never one of them twice.                                            *)
THEOREM NothingIsLostHolds == Spec => []NothingIsLost
<1>1. Inv => NothingIsLost
  <2>. SUFFICES ASSUME Inv PROVE NothingIsLost
    OBVIOUS
  <2>1. lost # {} => faulty
    BY DEF Inv, Control, Reported
  <2>2. ASSUME ~running, pc["owner"] = "idle" PROVE Numbers \subseteq Gone
    <3>1. driver = <<>> /\ reading = <<>> /\ list = <<>> /\ buffer = <<>>
      BY <2>2 DEF Inv, Control, Calls, Quiet
    <3>. QED BY <3>1, Singles DEF Inv, Packets, Line
  <2>3. IsInjective(sent) /\ ToSet(sent) \cap lost = {}
    BY DEF Inv, Packets, Once
  <2>. QED BY <2>1, <2>2, <2>3 DEF NothingIsLost
<1>. QED BY <1>1, InvHolds, PTL

(* A packet that was held leaves behind all earlier ones of its direction, *)
(* through edits of the delay, overflow, close-down and stop.              *)
THEOREM HeldLeaveInOrderHolds == Spec => []HeldLeaveInOrder
<1>1. Inv => HeldLeaveInOrder
  BY DEF Inv, Packets, Order, HeldLeaveInOrder, Before
<1>. QED BY <1>1, InvHolds, PTL

(* The assertions of the sources hold: the list is empty when a packet is  *)
(* about to be listed, the buffer when the module is started up.           *)
THEOREM AssertionsHoldThroughout == Spec => []AssertionsHold
<1>1. Inv => AssertionsHold
  <2>. SUFFICES ASSUME Inv PROVE AssertionsHold
    OBVIOUS
  <2>1. pc["owner"] = "opened" => list = <<>>
    BY DEF Inv, Control, Calls, Quiet
  <2>2. pc["reader"] = "lock" /\ MutexFree => list = <<>>
    BY DEF Inv, Control, Hands, Working, MutexFree, Threads
  <2>3. ~lastEnabled => buffer = <<>>
    BY DEF Inv, Control, Hands
  <2>. QED BY <2>1, <2>2, <2>3 DEF AssertionsHold
<1>. QED BY <1>1, InvHolds, PTL

=============================================================================
