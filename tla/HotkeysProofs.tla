---------------------------- MODULE HotkeysProofs ----------------------------
(***************************************************************************)
(* The three promises of HotkeysHistory for every keyboard, every set of   *)
(* bindings, every normalisation of keys and every length of the message   *)
(* queue: keys held over from before a change of mode never act, nothing   *)
(* acts more often than its combination was completed, and what is         *)
(* recorded was pressed while recording.                                   *)
(*                                                                         *)
(* The model's many actions have few effects on what these promises speak  *)
(* of: a key is struck, the mode changes, the matcher resumes, a message   *)
(* is skipped or heard (Moves).  The invariants are shown of the effects:  *)
(* what the messages on their way tell of the keyboard (Held), which keys  *)
(* were pressed since the mode changed (Known), that a combination is      *)
(* latched as long as it is held (Latched), and that every completion the  *)
(* messages still bring is still to be counted (Counted).                  *)
(***************************************************************************)
EXTENDS HotkeysHistory, TLAPS

Fields == {"physical", "down", "settings", "latched", "waitForRelease", "recording",
           "recordingStarted", "recordingReleased", "recorded"}

Image(keys) == {normalize[k] : k \in keys}

(* A matcher whose logical keys are those of its physical ones.            *)
Matcher(m) == DOMAIN m = Fields /\ m.physical \subseteq Keys /\ m.down = Image(m.physical)

-----------------------------------------------------------------------------
(* Sequences of messages.                                                  *)
(* The head of a queue leaves: the rest moves up.                          *)
LEMMA HeadDropped ==
  ASSUME NEW q \in Seq(Message), q # <<>>
  PROVE  /\ Tail(q) \in Seq(Message) /\ Len(Tail(q)) = Len(q) - 1
         /\ Len(q) \in Nat \ {0} /\ Head(q) = q[1] /\ q[1] \in Message
         /\ \A i \in 1 .. Len(Tail(q)) : i + 1 \in 1 .. Len(q) /\ Tail(q)[i] = q[i + 1]
  OBVIOUS

(* A message joins a queue: the rest stays where it is.                    *)
LEMMA LastAdded ==
  ASSUME NEW q \in Seq(Message), NEW m \in Message
  PROVE  /\ Append(q, m) \in Seq(Message) /\ Len(Append(q, m)) = Len(q) + 1 /\ Len(q) \in Nat
         /\ Append(q, m)[Len(q) + 1] = m
         /\ \A i \in 1 .. Len(q) : Append(q, m)[i] = q[i]
  OBVIOUS

(* A change of mode makes every message stale.                             *)
LEMMA AllStale ==
  ASSUME NEW q \in Seq(Message), NEW r, r = [i \in DOMAIN q |-> Stale]
  PROVE  r \in Seq(Message) /\ Len(r) = Len(q) /\ \A i \in 1 .. Len(r) : ~r[i].current
<1>1. Stale \in Message /\ ~Stale.current
  BY DEF Stale, Message
<1>2. Len(q) \in Nat /\ DOMAIN q = 1 .. Len(q)
  OBVIOUS
<1>. HIDE DEF Stale, Message
<1>3. r \in [1 .. Len(q) -> Message]
  BY <1>1, <1>2
<1>4. r \in Seq(Message) /\ Len(r) = Len(q)
  BY <1>2, <1>3
<1>. QED BY <1>1, <1>2, <1>4

(* The smaller of two numbers.                                             *)
LEMMA MinOfTwo ==
  ASSUME NEW i \in Int, NEW j \in Int
  PROVE  Min({i, j}) = IF i <= j THEN i ELSE j
<1>1. \E x \in {i, j} : \A y \in {i, j} : x <= y
  OBVIOUS
<1>2. Min({i, j}) \in {i, j} /\ \A y \in {i, j} : Min({i, j}) <= y
  BY <1>1 DEF Min
<1>. QED BY <1>2

-----------------------------------------------------------------------------
(* The operations of the matcher.                                          *)
(* A matcher that starts anew with these keys down and waits them out.     *)
Waits(m, keys) ==
  /\ Matcher(m) /\ m.physical = keys /\ m.latched = {} /\ m.recorded = {}
  /\ keys # {} => m.waitForRelease
  /\ keys = {} => ~m.waitForRelease

(* Keys have logical keys.                                                 *)
LEMMA ImageEmpty == \A keys : (Image(keys) = {}) <=> (keys = {})
  BY DEF Image

(* A cancelled matcher waits for the release of what is down.              *)
LEMMA CancelWaits ==
  ASSUME NEW m, Matcher(m), NEW c, c = hotkeyMatcherCancel(m)
  PROVE  /\ m.recorded = {} => Waits(c, m.physical)
         /\ Waits([c EXCEPT !.recorded = {}], m.physical)
         /\ ~c.recording /\ DOMAIN c = Fields
<1>. DEFINE b == m.down # {}
<1>1. c = [m EXCEPT !.recording = FALSE, !.waitForRelease = b, !.latched = {}]
  BY DEF hotkeyMatcherCancel
<1>2. b <=> m.physical # {}
  BY ImageEmpty DEF Matcher
<1>3. b \in BOOLEAN
  OBVIOUS
<1>. HIDE DEF b
<1>4. /\ DOMAIN c = Fields /\ c.physical = m.physical /\ c.down = m.down /\ c.latched = {}
      /\ c.recorded = m.recorded /\ c.waitForRelease = b /\ c.recording = FALSE
  BY <1>1 DEF Matcher, Fields
<1>5. /\ [c EXCEPT !.recorded = {}].physical = c.physical /\ [c EXCEPT !.recorded = {}].down = c.down
      /\ [c EXCEPT !.recorded = {}].latched = {} /\ [c EXCEPT !.recorded = {}].recorded = {}
      /\ [c EXCEPT !.recorded = {}].waitForRelease = b
      /\ DOMAIN [c EXCEPT !.recorded = {}] = Fields
  BY <1>4 DEF Fields
<1>. QED BY <1>2, <1>3, <1>4, <1>5 DEF Waits, Matcher

(* Forgetting a recording that is over changes nothing else.               *)
LEMMA SettledIs ==
  ASSUME NEW m, DOMAIN m = Fields, NEW s, s = Settled(m)
  PROVE  /\ DOMAIN s = Fields /\ s.physical = m.physical /\ s.down = m.down
         /\ s.settings = m.settings /\ s.latched = m.latched
         /\ s.waitForRelease = m.waitForRelease /\ s.recording = m.recording
         /\ s.recorded \in {m.recorded, {}}
         /\ ~m.recording => s.recorded = {}
  BY DEF Settled, Fields

(* Told what is down, the matcher knows that and keeps the rest.           *)
LEMMA HoldingIs ==
  ASSUME NEW m, DOMAIN m = Fields, NEW keys \in SUBSET Keys, NEW h, h = Holding(m, keys)
  PROVE  /\ Matcher(h) /\ h.physical = keys
         /\ h.settings = m.settings /\ h.latched = m.latched
         /\ h.waitForRelease = m.waitForRelease /\ h.recording = m.recording
         /\ h.recordingStarted = m.recordingStarted /\ h.recordingReleased = m.recordingReleased
         /\ h.recorded = m.recorded
  BY DEF Holding, Fields, Matcher, Image

(* The second step of synchronizeInput waits out what the sample holds;    *)
(* so do new bindings, and so does a recording.                            *)
LEMMA SampledWaits ==
  ASSUME NEW m, Matcher(m), async \subseteq Keys, NEW s, s = Sampled(m)
  PROVE  Waits(s, async) /\ ~s.recording
<1>. DEFINE h == Holding(m, async)
            c == hotkeyMatcherCancel(h)
<1>1. Matcher(h) /\ h.physical = async
  BY HoldingIs DEF Matcher
<1>. HIDE DEF h
<1>2. Waits([c EXCEPT !.recorded = {}], async) /\ ~c.recording /\ DOMAIN c = Fields
  BY <1>1, CancelWaits
<1>3. s = Settled(c)
  BY DEF Sampled, h
<1>. HIDE DEF c
<1>4. /\ [c EXCEPT !.recorded = {}].physical = c.physical /\ [c EXCEPT !.recorded = {}].down = c.down
      /\ [c EXCEPT !.recorded = {}].latched = c.latched
      /\ [c EXCEPT !.recorded = {}].waitForRelease = c.waitForRelease
  BY <1>2 DEF Fields
<1>. QED BY <1>2, <1>3, <1>4, SettledIs DEF Waits, Matcher

LEMMA AppliedWaits ==
  ASSUME NEW m, Waits(m, async), NEW settings, NEW s, s = hotkeyMatcherApply(m, settings)
  PROVE  Waits(s, async) /\ ~s.recording
<1>. DEFINE n == [m EXCEPT !.settings = settings]
<1>1. Matcher(n) /\ n.physical = async /\ n.recorded = {}
  BY DEF Waits, Matcher, Fields
<1>2. s = hotkeyMatcherCancel(n)
  BY DEF hotkeyMatcherApply
<1>. HIDE DEF n
<1>. QED BY <1>1, <1>2, CancelWaits

LEMMA RecordWaits ==
  ASSUME NEW m, Waits(m, async), NEW s, s = hotkeyMatcherRecord(m)
  PROVE  Waits(s, async)
<1>. DEFINE c == hotkeyMatcherCancel(m)
<1>1. Waits(c, async) /\ DOMAIN c = Fields
  BY CancelWaits DEF Waits
<1>2. s = [c EXCEPT !.recording = TRUE, !.recordingStarted = FALSE,
                    !.recordingReleased = FALSE, !.recorded = {}]
  BY DEF hotkeyMatcherRecord
<1>. HIDE DEF c
<1>3. /\ DOMAIN s = Fields /\ s.physical = c.physical /\ s.down = c.down /\ s.latched = c.latched
      /\ s.recorded = {} /\ s.waitForRelease = c.waitForRelease
  BY <1>1, <1>2 DEF Fields
<1>. QED BY <1>1, <1>3 DEF Waits, Matcher

(* What an event does: after, of m, with the actions it fires.             *)
HeardBy(m, after, actions) ==
  /\ Matcher(after) /\ after.settings = m.settings
  /\ after.recorded \subseteq m.recorded \cup Image(after.physical)
  /\ m.waitForRelease =>
       /\ actions = {} /\ after.latched = m.latched /\ after.recorded \subseteq m.recorded
       /\ after.physical # {} => after.waitForRelease
       /\ ~after.waitForRelease => after.physical = {}
       /\ after.recording <=> m.recording
  /\ ~m.waitForRelease => ~after.waitForRelease
  /\ ~m.waitForRelease /\ m.recording =>
       /\ actions = {} /\ after.latched = m.latched
       /\ ~after.recording => after.physical = {}
  /\ ~m.waitForRelease /\ ~m.recording =>
       /\ ~after.recording
       /\ IF after.physical \subseteq m.physical
          THEN actions = {} /\ after.latched = m.latched \cap Matching(after)
          ELSE /\ actions = Matching(after) \ m.latched
               /\ after.latched = (m.latched \cap Matching(after)) \cup actions

(* A key heard by a recording.                                             *)
LEMMA RecordIs ==
  ASSUME NEW m, Matcher(m), NEW press \in BOOLEAN, NEW release \in BOOLEAN,
         NEW r, r = Record(m, press, release)
  PROVE  /\ Matcher(r) /\ r.physical = m.physical /\ r.settings = m.settings
         /\ r.latched = m.latched /\ r.waitForRelease = m.waitForRelease
         /\ r.recorded \in {m.recorded, m.down}
         /\ ~r.recording => m.physical = {}
<1>. DEFINE started == m.recordingStarted \/ (press /\ ~m.recordingReleased)
            released == m.recordingReleased \/ (release /\ started)
            recording == ~(released /\ m.down = {})
            recorded == IF press /\ ~m.recordingReleased THEN m.down ELSE m.recorded
<1>1. r = [m EXCEPT !.recordingStarted = started, !.recordingReleased = released,
                    !.recorded = recorded, !.recording = recording]
  BY DEF Record, Matcher, Fields
<1>2. ~recording => m.physical = {}
  BY ImageEmpty DEF Matcher
<1>3. recorded \in {m.recorded, m.down}
  OBVIOUS
<1>4. recording \in BOOLEAN
  OBVIOUS
<1>. HIDE DEF started, released, recording, recorded
<1>5. /\ DOMAIN r = Fields /\ r.physical = m.physical /\ r.settings = m.settings
      /\ r.down = m.down /\ r.latched = m.latched /\ r.waitForRelease = m.waitForRelease
      /\ r.recorded = recorded /\ r.recording = recording
  BY <1>1 DEF Matcher, Fields
<1>. QED BY <1>2, <1>3, <1>4, <1>5 DEF Matcher

(* A key heard by the shortcuts: what fires is what newly matches.         *)
LEMMA MatchIs ==
  ASSUME NEW m, Matcher(m), NEW press \in BOOLEAN, NEW r, r = Match(m, press)
  PROVE  /\ Matcher(r.matcher) /\ r.matcher.physical = m.physical
         /\ r.matcher.settings = m.settings /\ r.matcher.recorded = m.recorded
         /\ r.matcher.waitForRelease = m.waitForRelease /\ r.matcher.recording = m.recording
         /\ Matching(r.matcher) = Matching(m)
         /\ press => /\ r.actions = Matching(m) \ m.latched
                     /\ r.matcher.latched = (m.latched \cap Matching(m)) \cup r.actions
         /\ ~press => r.actions = {} /\ r.matcher.latched = m.latched \cap Matching(m)
<1>. DEFINE fired == IF press THEN Matching(m) \ m.latched ELSE {}
            latched == (m.latched \cap Matching(m)) \cup fired
            after == [m EXCEPT !.latched = latched]
<1>1. r = [matcher |-> after, actions |-> fired]
  BY DEF Match, Matcher, Fields
<1>2. /\ press => fired = Matching(m) \ m.latched
      /\ ~press => fired = {}
  OBVIOUS
<1>3. ~press => latched = m.latched \cap Matching(m)
  OBVIOUS
<1>4. latched = (m.latched \cap Matching(m)) \cup fired
  OBVIOUS
<1>. HIDE DEF fired, latched
<1>5. /\ DOMAIN after = Fields /\ after.physical = m.physical /\ after.settings = m.settings
      /\ after.down = m.down /\ after.latched = latched /\ after.recorded = m.recorded
      /\ after.waitForRelease = m.waitForRelease /\ after.recording = m.recording
  BY DEF Matcher, Fields
<1>6. r.matcher = after /\ r.actions = fired
  BY <1>1
<1>. HIDE DEF after
<1>7. Matching(after) = Matching(m)
  BY <1>5 DEF Matching
<1>. QED BY <1>2, <1>3, <1>4, <1>5, <1>6, <1>7 DEF Matcher

(* Such a key does what an event may do.                                   *)
LEMMA MatchHeard ==
  ASSUME NEW m, ~m.waitForRelease, ~m.recording,
         NEW h, Matcher(h), h.settings = m.settings, h.latched = m.latched,
         h.waitForRelease = m.waitForRelease, h.recording = m.recording,
         h.recorded = m.recorded,
         NEW press \in BOOLEAN, press <=> ~(h.physical \subseteq m.physical),
         NEW r, r = Match(h, press)
  PROVE  HeardBy(m, r.matcher, r.actions) /\ r.matcher.physical = h.physical
  BY MatchIs DEF HeardBy

(* The keys down after a message, if they were physical before.            *)
After(physical, m) ==
  IF ~m.current THEN physical
  ELSE IF m.down THEN physical \cup {m.key} ELSE physical \ {m.key}

(* A current message tells of a key.                                       *)
LEMMA MessageIs ==
  ASSUME NEW m \in Message, m.current
  PROVE  m.key \in Keys /\ m.down \in BOOLEAN
<1>1. ~Stale.current
  BY DEF Stale
<1>2. m \in [key : Keys, down : BOOLEAN, current : {TRUE}]
  BY <1>1 DEF Message
<1>. QED BY <1>2

(* hotkeyMatcherInput follows the key and does what an event may do.       *)
LEMMA InputIs ==
  ASSUME NEW m, Matcher(m), NEW head \in Message, head.current,
         NEW heard, heard = hotkeyMatcherInput(m, head.key, head.down)
  PROVE  /\ heard.matcher.physical = After(m.physical, head)
         /\ HeardBy(m, heard.matcher, heard.actions)
<1>. DEFINE key == head.key
            down == head.down
            wasDown == key \in m.physical
            physical == IF down THEN m.physical \cup {key} ELSE m.physical \ {key}
            h == Holding(m, physical)
            b == h.down # {}
            pressing == down /\ ~wasDown
            release == ~down /\ wasDown
            w == [h EXCEPT !.waitForRelease = b]
            recorded == Record(h, pressing, release)
<1>1. heard = IF m.waitForRelease THEN [matcher |-> w, actions |-> {}]
          ELSE IF m.recording THEN [matcher |-> recorded, actions |-> {}]
          ELSE Match(h, pressing)
  BY DEF hotkeyMatcherInput
<1>k. key \in Keys /\ down \in BOOLEAN
  BY MessageIs
<1>a. After(m.physical, head) = physical
  BY DEF After
<1>. HIDE DEF key, down
<1>2. physical \subseteq Keys
  BY <1>k DEF Matcher
<1>3. /\ Matcher(h) /\ h.physical = physical
      /\ h.settings = m.settings /\ h.latched = m.latched
      /\ h.waitForRelease = m.waitForRelease /\ h.recording = m.recording /\ h.recorded = m.recorded
  BY <1>2, HoldingIs DEF Matcher
<1>. HIDE DEF h
<1>4. b \in BOOLEAN /\ (b <=> physical # {})
  BY <1>3, ImageEmpty DEF Matcher
<1>. HIDE DEF b
<1>p. pressing \in BOOLEAN /\ release \in BOOLEAN
  OBVIOUS
<1>q. pressing <=> ~(physical \subseteq m.physical)
  BY <1>k
<1>. HIDE DEF physical
<1>5. CASE m.waitForRelease
  <2>1. heard.matcher = w /\ heard.actions = {}
    BY <1>1, <1>5
  <2>2. /\ DOMAIN w = Fields /\ w.physical = physical /\ w.down = h.down
        /\ w.settings = m.settings /\ w.latched = m.latched /\ w.recording = m.recording
        /\ w.recorded = m.recorded /\ w.waitForRelease = b
    BY <1>3 DEF Matcher, Fields
  <2>. HIDE DEF w
  <2>3. Matcher(w)
    BY <1>3, <2>2 DEF Matcher
  <2>. QED BY <1>a, <1>4, <1>5, <2>1, <2>2, <2>3 DEF HeardBy
<1>6. CASE ~m.waitForRelease /\ m.recording
  <2>1. heard.matcher = recorded /\ heard.actions = {}
    BY <1>1, <1>6
  <2>. HIDE DEF pressing, release
  <2>2. /\ Matcher(recorded) /\ recorded.physical = physical /\ recorded.settings = m.settings
        /\ recorded.latched = m.latched /\ recorded.waitForRelease = m.waitForRelease
        /\ recorded.recorded \in {m.recorded, Image(physical)}
        /\ ~recorded.recording => physical = {}
    BY <1>3, <1>p, RecordIs DEF Matcher
  <2>. HIDE DEF recorded
  <2>. QED BY <1>a, <1>6, <2>1, <2>2 DEF HeardBy
<1>7. CASE ~m.waitForRelease /\ ~m.recording
  <2>1. heard = Match(h, pressing)
    BY <1>1, <1>7
  <2>. HIDE DEF pressing
  <2>2. HeardBy(m, heard.matcher, heard.actions) /\ heard.matcher.physical = physical
    BY <1>3, <1>7, <1>p, <1>q, <2>1, MatchHeard
  <2>. QED BY <1>a, <2>2
<1>. QED BY <1>a, <1>5, <1>6, <1>7

-----------------------------------------------------------------------------
(* Messages on their way, and the keyboard they tell of.                   *)
Tells(m, key) == m.current /\ m.key = key

(* The last message about a key tells what has become of it.               *)
LastTells(queue, keys) ==
  \A i \in 1 .. Len(queue), key \in Keys :
    /\ Tells(queue[i], key)
    /\ \A j \in 1 .. Len(queue) : j > i => ~Tells(queue[j], key)
    => (queue[i].down <=> key \in keys)

(* No message tells of the key.                                            *)
Untold(queue, key) == \A i \in 1 .. Len(queue) : ~Tells(queue[i], key)

(* Where no message tells of a key, the matcher knows how it is.           *)
Tracks(queue, physical, keys) ==
  \A key \in Keys : Untold(queue, key) => (key \in physical <=> key \in keys)

(* No message tells of the release of one of these keys.                   *)
OnlyDown(queue, keys) ==
  \A i \in 1 .. Len(queue) : queue[i].current /\ queue[i].key \in keys => queue[i].down

(* No message will be heard.                                               *)
NoNews(queue) == \A i \in 1 .. Len(queue) : ~queue[i].current

(* A key is struck: the queue tells of the new keyboard.                   *)
LEMMA QueueGrows ==
  ASSUME NEW q \in Seq(Message), NEW m \in Message, m.current,
         NEW keys, LastTells(q, keys), NEW next, next = After(keys, m)
  PROVE  /\ LastTells(Append(q, m), next)
         /\ \A physical : Tracks(q, physical, keys) => Tracks(Append(q, m), physical, next)
<1>. DEFINE r == Append(q, m)
<1>1. /\ Len(r) = Len(q) + 1 /\ Len(q) \in Nat /\ r[Len(q) + 1] = m
      /\ \A i \in 1 .. Len(q) : r[i] = q[i]
  BY LastAdded
<1>2. m.key \in Keys /\ (m.key \in next <=> m.down)
      /\ \A key \in Keys : key # m.key => (key \in next <=> key \in keys)
  BY MessageIs DEF After
<1>. HIDE DEF r
<1>3. ASSUME NEW i \in 1 .. Len(r), NEW key \in Keys, Tells(r[i], key),
             \A j \in 1 .. Len(r) : j > i => ~Tells(r[j], key)
      PROVE  r[i].down <=> key \in next
  <2>1. CASE i = Len(q) + 1
    BY <1>1, <1>2, <1>3, <2>1 DEF Tells
  <2>2. CASE i # Len(q) + 1
    <3>1. i \in 1 .. Len(q) /\ Len(q) + 1 > i /\ Len(q) + 1 \in 1 .. Len(r)
      BY <1>1, <2>2
    <3>2. key # m.key
      BY <1>1, <1>3, <3>1 DEF Tells
    <3>3. \A j \in 1 .. Len(q) : j > i => ~Tells(q[j], key)
      BY <1>1, <1>3
    <3>4. q[i].down <=> key \in keys
      BY <1>1, <1>3, <3>1, <3>3 DEF LastTells
    <3>. QED BY <1>1, <1>2, <3>1, <3>2, <3>4
  <2>. QED BY <2>1, <2>2
<1>4. ASSUME NEW physical, Tracks(q, physical, keys), NEW key \in Keys, Untold(r, key)
      PROVE  key \in physical <=> key \in next
  <2>1. Untold(q, key) /\ ~Tells(m, key)
    BY <1>1, <1>4 DEF Untold
  <2>. QED BY <1>2, <1>4, <2>1 DEF Tracks, Tells
<1>. QED BY <1>3, <1>4 DEF LastTells, Tracks, r

(* A message is taken: what is left tells of the same keyboard.            *)
LEMMA QueueShrinks ==
  ASSUME NEW q \in Seq(Message), q # <<>>, NEW keys, LastTells(q, keys),
         NEW physical, Tracks(q, physical, keys)
  PROVE  LastTells(Tail(q), keys) /\ Tracks(Tail(q), After(physical, Head(q)), keys)
<1>. DEFINE r == Tail(q)
<1>1. /\ Len(r) = Len(q) - 1 /\ Len(q) \in Nat \ {0} /\ Head(q) = q[1] /\ q[1] \in Message
      /\ \A i \in 1 .. Len(r) : i + 1 \in 1 .. Len(q) /\ r[i] = q[i + 1]
  BY HeadDropped
<1>. HIDE DEF r
<1>2. \A i \in 2 .. Len(q) : i - 1 \in 1 .. Len(r) /\ r[i - 1] = q[i]
  BY <1>1
<1>3. ASSUME NEW i \in 1 .. Len(r), NEW key \in Keys, Tells(r[i], key),
             \A j \in 1 .. Len(r) : j > i => ~Tells(r[j], key)
      PROVE  r[i].down <=> key \in keys
  <2>1. \A j \in 1 .. Len(q) : j > i + 1 => ~Tells(q[j], key)
    BY <1>1, <1>2, <1>3
  <2>. QED BY <1>1, <1>3, <2>1 DEF LastTells
<1>4. ASSUME NEW key \in Keys, Untold(r, key)
      PROVE  key \in After(physical, q[1]) <=> key \in keys
  <2>1. \A j \in 2 .. Len(q) : ~Tells(q[j], key)
    BY <1>2, <1>4 DEF Untold
  <2>2. CASE Tells(q[1], key)
    <3>1. q[1].down <=> key \in keys
      BY <1>1, <2>1, <2>2 DEF LastTells
    <3>. QED BY <2>2, <3>1 DEF Tells, After
  <2>3. CASE ~Tells(q[1], key)
    <3>1. Untold(q, key)
      BY <1>1, <2>1, <2>3 DEF Untold
    <3>2. key \in After(physical, q[1]) <=> key \in physical
      BY <2>3 DEF After, Tells
    <3>. QED BY <3>1, <3>2 DEF Tracks
  <2>. QED BY <2>2, <2>3
<1>. QED BY <1>1, <1>3, <1>4 DEF LastTells, Tracks, r

(* Where nothing will be heard nothing is told.                            *)
LEMMA QueueStale ==
  ASSUME NEW q, NoNews(q)
  PROVE  \A keys : LastTells(q, keys) /\ Tracks(q, keys, keys) /\ OnlyDown(q, keys)
  BY DEF NoNews, LastTells, Tracks, OnlyDown, Tells

-----------------------------------------------------------------------------
(* The invariant.                                                          *)
Changing == {"synchronize", "apply", "record"}

UiFields == {"paused", "hotkeysEnabled", "inputSuspended", "listening", "keys",
             "recordAction", "enabled"}

(* The bridge's fields.                                                    *)
UiTyped(u) ==
  DOMAIN u = UiFields /\ DOMAIN u.keys = Actions /\ u.recordAction \in Actions \cup {NoAction}

(* Types, and where the listener hears nothing nothing is on its way.      *)
Typed ==
  /\ Matcher(matcher)
  /\ posted \in Seq(Message) /\ Len(posted) <= desk.queue
  /\ desk \in DeskRecord
  /\ keyboard \subseteq Keys /\ async = keyboard
  /\ UiTyped(ui)
  /\ pc.op = "apply" => DOMAIN pc.settings = Actions
  /\ credit \in [Actions -> Int] /\ \A a \in Actions : credit[a] <= CreditCap
  /\ ~ui.listening => posted = <<>>
  /\ pc.op \in Changing \/ pc = Idle => ui.listening
  /\ pc.op = "closed" => ~ui.listening

(* The messages lead from what the matcher knows to the keyboard; a key    *)
(* held over is known to be down, no message says otherwise, and the       *)
(* matcher waits for it.                                                   *)
Held ==
  /\ LastTells(posted, keyboard)
  /\ heldOver \subseteq keyboard /\ OnlyDown(posted, heldOver)
  /\ pc = Idle =>
       /\ Tracks(posted, matcher.physical, keyboard)
       /\ heldOver \subseteq matcher.physical
       /\ heldOver # {} => matcher.waitForRelease

-----------------------------------------------------------------------------
(* What a step does.                                                       *)
(* 1 when the keys newly complete the combination.                         *)
Completes(combination, before, after) ==
  IF /\ combination # {} /\ combination \subseteq Image(after)
     /\ ~(combination \subseteq Image(before))
  THEN 1 ELSE 0

Unmoved ==
  /\ keyboard' = keyboard /\ heldOver' = heldOver /\ pressed' = pressed

(* A key goes down or up, or repeats: message m of it is posted.           *)
Strikes(m) ==
  /\ m.current
  /\ m.down \/ m.key \in keyboard
  /\ keyboard' = After(keyboard, m)
  /\ desk.during \/ pc.op \notin Changing
  /\ Len(posted) < desk.queue
  /\ posted' = IF ui.listening THEN Append(posted, m) ELSE posted
  /\ heldOver' = heldOver \cap keyboard'
  /\ pressed' = pressed \cup (keyboard' \ keyboard)
  /\ pc' = pc /\ matcher' = matcher /\ executed' = {}
  /\ \A a \in Actions : \E e \in {0, 1} :
       /\ credit'[a] = Min({credit[a] + e, CreditCap})
       /\ pc = Idle => e = Completes(matcher.settings[a], keyboard, keyboard')

(* synchronizeInput, first step, or the listener goes.                     *)
ModeChanges ==
  /\ keyboard' = keyboard /\ heldOver' = keyboard /\ pressed' = {}
  /\ credit' = [a \in Actions |-> 0]
  /\ executed' = {} /\ pc' # Idle /\ NoNews(posted')

(* synchronizeInput, second step.                                          *)
Resumes ==
  /\ pc.op \in Changing /\ pc' = Idle /\ posted' = posted
  /\ Waits(matcher', keyboard) /\ executed' = {} /\ Unmoved /\ credit' = credit

(* Nothing happens that concerns the keys.                                 *)
Stands ==
  /\ pc = Idle /\ pc' = pc /\ posted' = posted /\ matcher' = matcher
  /\ executed' = {} /\ Unmoved /\ credit' = credit

(* A stale message is dropped.                                             *)
Skips ==
  /\ pc = Idle /\ pc' = pc /\ posted # <<>> /\ posted' = Tail(posted)
  /\ ~Head(posted).current /\ matcher' = Settled(matcher)
  /\ executed' = {} /\ Unmoved /\ credit' = credit

(* A current message is heard and makes actions of it.                     *)
Hears(actions) ==
  /\ pc = Idle /\ pc' = pc /\ posted # <<>> /\ posted' = Tail(posted)
  /\ Head(posted).current
  /\ matcher'.physical = After(matcher.physical, Head(posted))
  /\ HeardBy(matcher, matcher', actions)
  /\ executed' \subseteq actions /\ Unmoved
  /\ \A a \in Actions : credit'[a] = credit[a] - (IF a \in executed' THEN 1 ELSE 0)

Moves ==
  \/ \E m \in Message : Strikes(m)
  \/ ModeChanges \/ Resumes \/ Stands \/ Skips
  \/ \E actions : Hears(actions)

-----------------------------------------------------------------------------
(* What is remembered of a step.                                           *)
(* The history goes on while the mode stays or has just been changed.      *)
LEMMA Remembers ==
  ASSUME Typed, ~desk.lossy, desk' = desk, Remember, pc' = pc \/ pc' = Idle
  PROVE  /\ heldOver' = heldOver \cap keyboard'
         /\ pressed' = pressed \cup (keyboard' \ keyboard)
         /\ credit' \in [Actions -> Int] /\ \A a \in Actions : credit'[a] <= CreditCap'
         /\ \A a \in Actions : \E e \in {0, 1} :
              /\ credit'[a] = Min({credit[a] + e - (IF a \in executed' THEN 1 ELSE 0), CreditCap})
              /\ (e = 1) <=> Completed(a)
<1>1. CreditCap \in Int /\ CreditCap' = CreditCap
  BY DEF Typed, CreditCap, DeskRecord
<1>2. /\ heldOver' = heldOver \cap keyboard'
      /\ pressed' = pressed \cup (keyboard' \ keyboard)
      /\ credit' = [a \in Actions |->
           Min({credit[a] + (IF Completed(a) THEN 1 ELSE 0) - (IF a \in executed' THEN 1 ELSE 0),
                CreditCap})]
  BY DEF Remember
<1>3. ASSUME NEW a \in Actions
      PROVE  /\ credit'[a] \in Int /\ credit'[a] <= CreditCap
             /\ \E e \in {0, 1} :
                  /\ credit'[a] = Min({credit[a] + e - (IF a \in executed' THEN 1 ELSE 0), CreditCap})
                  /\ (e = 1) <=> Completed(a)
  <2>. DEFINE e == IF Completed(a) THEN 1 ELSE 0
              d == IF a \in executed' THEN 1 ELSE 0
  <2>1. e \in {0, 1} /\ d \in {0, 1} /\ ((e = 1) <=> Completed(a))
    OBVIOUS
  <2>2. credit'[a] = Min({credit[a] + e - d, CreditCap})
    BY <1>2
  <2>. HIDE DEF e, d
  <2>3. credit[a] + e - d \in Int
    BY <2>1 DEF Typed
  <2>4. Min({credit[a] + e - d, CreditCap})
          = IF credit[a] + e - d <= CreditCap THEN credit[a] + e - d ELSE CreditCap
    BY <1>1, <2>3, MinOfTwo
  <2>5. credit'[a] \in Int /\ credit'[a] <= CreditCap
    BY <1>1, <2>2, <2>3, <2>4
  <2>. QED BY <2>1, <2>2, <2>5 DEF d
<1>4. DOMAIN credit' = Actions
  BY <1>2
<1>5. credit' \in [Actions -> Int]
  BY <1>2, <1>3
<1>. QED BY <1>1, <1>2, <1>3, <1>5

(* No key moves: only what is executed is counted.                         *)
LEMMA RemembersSame ==
  ASSUME Typed, Held, ~desk.lossy, desk' = desk, Remember, pc' = pc \/ pc' = Idle,
         keyboard' = keyboard
  PROVE  /\ Unmoved
         /\ credit' \in [Actions -> Int] /\ \A a \in Actions : credit'[a] <= CreditCap'
         /\ \A a \in Actions : credit'[a] = credit[a] - (IF a \in executed' THEN 1 ELSE 0)
         /\ executed' = {} => credit' = credit
<1>1. CreditCap \in Int
  BY DEF Typed, CreditCap, DeskRecord
<1>2. ASSUME NEW a \in Actions PROVE credit'[a] = credit[a] - (IF a \in executed' THEN 1 ELSE 0)
  <2>1. ~Completed(a)
    BY DEF Completed
  <2>2. credit'[a] = Min({credit[a] + 0 - (IF a \in executed' THEN 1 ELSE 0), CreditCap})
    <3>1. PICK e \in {0, 1} :
            /\ credit'[a] = Min({credit[a] + e - (IF a \in executed' THEN 1 ELSE 0), CreditCap})
            /\ (e = 1) <=> Completed(a)
      BY Remembers
    <3>2. e = 0
      BY <2>1, <3>1
    <3>. QED BY <3>1, <3>2
  <2>. DEFINE d == IF a \in executed' THEN 1 ELSE 0
  <2>3. d \in {0, 1}
    OBVIOUS
  <2>4. credit'[a] = Min({credit[a] + 0 - d, CreditCap})
    BY <2>2
  <2>. HIDE DEF d
  <2>5. credit[a] + 0 - d \in Int /\ credit[a] + 0 - d <= CreditCap /\ credit[a] + 0 - d = credit[a] - d
    BY <1>1, <2>3 DEF Typed
  <2>6. credit'[a] = credit[a] - d
    BY <1>1, <2>4, <2>5, MinOfTwo
  <2>. QED BY <2>6 DEF d
<1>3. credit' \in [Actions -> Int]
  BY Remembers
<1>4. ASSUME executed' = {} PROVE credit' = credit
  <2>1. \A a \in Actions : credit'[a] = credit[a]
    BY <1>2, <1>4 DEF Typed
  <2>. QED BY <1>3, <2>1 DEF Typed
<1>5. Unmoved
  BY Remembers DEF Unmoved, Held
<1>. QED BY <1>2, <1>3, <1>4, <1>5, Remembers

(* A change of mode starts the history anew.                               *)
LEMMA Begins ==
  ASSUME Typed, ~desk.lossy, desk' = desk, Remember, pc' # pc, pc' # Idle
  PROVE  /\ heldOver' = keyboard /\ pressed' = {} /\ credit' = [a \in Actions |-> 0]
         /\ credit' \in [Actions -> Int] /\ \A a \in Actions : credit'[a] <= CreditCap'
<1>1. CreditCap' = CreditCap /\ CreditCap \in Nat
  BY DEF Typed, CreditCap, DeskRecord
<1>2. heldOver' = keyboard /\ pressed' = {} /\ credit' = [a \in Actions |-> 0]
  BY DEF Remember
<1>. QED BY <1>1, <1>2

-----------------------------------------------------------------------------
(* The actions, one after another.                                         *)
(* The thread's places differ.                                             *)
LEMMA PcShapes ==
  /\ Idle.op = "idle"
  /\ \A s : Applying(s).op = "apply" /\ Applying(s).settings = s
  BY DEF Idle, Applying

(* What every change of mode comes to.                                     *)
LEMMA Turns ==
  ASSUME Typed, ~desk.lossy, Remember, UNCHANGED <<desk, keyboard, async>>, executed' = {},
         pc' # pc, pc' # Idle, pc'.op # "closed", pc'.op \in Changing => ui'.listening,
         pc'.op = "apply" => DOMAIN pc'.settings = Actions,
         Matcher(matcher'), UiTyped(ui'), ~ui'.listening => posted' = <<>>,
         posted' \in Seq(Message), Len(posted') <= Len(posted), NoNews(posted')
  PROVE  Typed' /\ ModeChanges
<1>1. /\ heldOver' = keyboard /\ pressed' = {} /\ credit' = [a \in Actions |-> 0]
      /\ credit' \in [Actions -> Int] /\ \A a \in Actions : credit'[a] <= CreditCap'
  BY Begins
<1>2. ModeChanges
  BY <1>1 DEF ModeChanges
<1>3. Len(posted') <= desk'.queue
  <2>1. /\ desk.queue \in Nat /\ Len(posted) \in Nat /\ Len(posted') \in Nat
        /\ Len(posted) <= desk.queue
    BY DEF Typed, DeskRecord
  <2>. QED BY <2>1
<1>. QED BY <1>1, <1>2, <1>3 DEF Typed, UiTyped, Matcher

(* What every step that changes nothing comes to.                          *)
LEMMA Stays ==
  ASSUME Typed, Held, ~desk.lossy, Remember, UNCHANGED <<desk, keyboard, async>>, executed' = {},
         pc = Idle, pc' = pc, posted' = posted, matcher' = matcher,
         UiTyped(ui'), ui'.listening = ui.listening
  PROVE  Typed' /\ Stands
<1>1. /\ Unmoved /\ credit' = credit
      /\ credit' \in [Actions -> Int] /\ \A a \in Actions : credit'[a] <= CreditCap'
  BY RemembersSame
<1>2. Stands
  BY <1>1 DEF Stands
<1>. QED BY <1>1, <1>2, PcShapes DEF Typed, UiTyped, Matcher

(* updateHotkeyPause changes the mode or nothing.                          *)
LEMMA PauseUpdates ==
  ASSUME Typed, Held, ~desk.lossy, Remember, UNCHANGED <<matcher, recorder, input>>,
         executed' = {}, pc = Idle,
         NEW next, UiTyped(next), next.listening = ui.listening, UpdateHotkeyPause(next)
  PROVE  Typed' /\ Moves
<1>1. ui.listening /\ posted \in Seq(Message)
  BY DEF Typed
<1>2. CASE UNCHANGED <<pc, posted, pauseDepth>> /\ ui' = next
  BY <1>2, Stays DEF Moves, input
<1>3. CASE \E b : /\ ui' = [next EXCEPT !.inputSuspended = b]
                  /\ Synchronize(posted, [op |-> "synchronize"])
  <2>1. PICK b : /\ ui' = [next EXCEPT !.inputSuspended = b]
                 /\ Synchronize(posted, [op |-> "synchronize"])
    BY <1>3
  <2>2. posted' \in Seq(Message) /\ Len(posted') = Len(posted) /\ NoNews(posted')
    BY <1>1, <2>1, AllStale DEF Synchronize, NoNews
  <2>3. pc' = [op |-> "synchronize"]
    BY <2>1 DEF Synchronize
  <2>4. pc'.op = "synchronize" /\ pc' # Idle /\ pc' # pc
    BY <2>3, PcShapes
  <2>5. UiTyped(ui') /\ ui'.listening
    BY <1>1, <2>1 DEF UiTyped, UiFields
  <2>6. Matcher(matcher') /\ UNCHANGED <<desk, keyboard, async>> /\ Len(posted') <= Len(posted)
    BY <1>1, <2>2 DEF Typed, input
  <2>. QED BY <2>2, <2>4, <2>5, <2>6, Turns DEF Moves
<1>. QED BY <1>2, <1>3 DEF UpdateHotkeyPause, NoSynchronize

(* Pausing input, and the preference.                                      *)
LEMMA PauseMoves ==
  ASSUME Typed, Held, ~desk.lossy, Remember, NEW on \in BOOLEAN,
         setInputPaused(on) \/ setHotkeysEnabled(on)
  PROVE  Typed' /\ Moves
<1>1. UiTyped([ui EXCEPT !.paused = on]) /\ [ui EXCEPT !.paused = on].listening = ui.listening
  BY DEF Typed, UiTyped, UiFields
<1>2. UiTyped([ui EXCEPT !.hotkeysEnabled = on]) /\ [ui EXCEPT !.hotkeysEnabled = on].listening = ui.listening
  BY DEF Typed, UiTyped, UiFields
<1>3. CASE setInputPaused(on)
  BY <1>1, <1>3, PauseUpdates DEF setInputPaused
<1>4. CASE setHotkeysEnabled(on)
  BY <1>2, <1>4, PauseUpdates DEF setHotkeysEnabled
<1>. QED BY <1>3, <1>4

(* Recording begins or is cancelled.                                       *)
LEMMA RecordingMoves ==
  ASSUME Typed, Held, ~desk.lossy, Remember,
         cancelRecording \/ \E a \in Edited : recordBinding(a)
  PROVE  Typed' /\ Moves
<1>1. ui.listening /\ posted \in Seq(Message) /\ pc = Idle
  BY DEF Typed, cancelRecording, recordBinding
<1>2. PICK a \in Actions \cup {NoAction} : ui' = [ui EXCEPT !.recordAction = a]
  BY HotkeysAssumption DEF cancelRecording, recordBinding
<1>3. PICK next \in {[op |-> "record"], [op |-> "synchronize"]} : Synchronize(posted, next)
  BY DEF cancelRecording, recordBinding
<1>4. posted' \in Seq(Message) /\ Len(posted') = Len(posted) /\ NoNews(posted')
  BY <1>1, <1>3, AllStale DEF Synchronize, NoNews
<1>5. pc'.op \in {"record", "synchronize"}
  BY <1>3 DEF Synchronize
<1>6. pc' # Idle /\ pc' # pc /\ pc'.op \notin {"closed", "apply"}
  BY <1>1, <1>5, PcShapes
<1>7. UiTyped(ui') /\ ui'.listening
  BY <1>1, <1>2 DEF Typed, UiTyped, UiFields
<1>8. /\ Matcher(matcher') /\ UNCHANGED <<desk, keyboard, async>> /\ Len(posted') <= Len(posted)
      /\ executed' = {}
  BY <1>1, <1>4 DEF Typed, input, cancelRecording, recordBinding
<1>. QED BY <1>4, <1>6, <1>7, <1>8, Turns DEF Moves

(* saveBinding changes the mode or nothing.                                *)
LEMMA SaveSynchronizes ==
  ASSUME Typed, NEW queue \in Seq(Message), NEW a, NEW binding, SaveBinding(queue, a, binding)
  PROVE  \/ posted' = queue /\ pc' = pc
         \/ /\ posted' \in Seq(Message) /\ Len(posted') = Len(queue) /\ NoNews(posted')
            /\ pc' = Applying([ui.keys EXCEPT ![a] = binding])
            /\ pc'.op = "apply" /\ DOMAIN pc'.settings = Actions
<1>1. CASE NoSynchronize(queue)
  BY <1>1 DEF NoSynchronize
<1>2. CASE Synchronize(queue, Applying([ui.keys EXCEPT ![a] = binding]))
  <2>1. posted' \in Seq(Message) /\ Len(posted') = Len(queue) /\ NoNews(posted')
    BY <1>2, AllStale DEF Synchronize, NoNews
  <2>2. pc' = Applying([ui.keys EXCEPT ![a] = binding])
    BY <1>2 DEF Synchronize
  <2>3. pc'.op = "apply" /\ DOMAIN pc'.settings = Actions
    BY <2>2, PcShapes DEF Typed, UiTyped
  <2>. QED BY <2>1, <2>2, <2>3
<1>. QED BY <1>1, <1>2 DEF SaveBinding

(* A binding is cleared, or an action switched off.                        *)
LEMMA BindingMoves ==
  ASSUME Typed, Held, ~desk.lossy, Remember,
         \E a \in Edited : clearBinding(a) \/ \E on \in BOOLEAN : setBindingEnabled(a, on)
  PROVE  Typed' /\ Moves
<1>1. ui.listening /\ posted \in Seq(Message) /\ pc = Idle
  BY DEF Typed, clearBinding, setBindingEnabled
<1>2. /\ Matcher(matcher') /\ UNCHANGED <<matcher, desk, keyboard, async>> /\ executed' = {}
  BY DEF Typed, input, listener, clearBinding, setBindingEnabled
<1>3. UiTyped(ui') /\ ui'.listening = ui.listening
  BY DEF Typed, UiTyped, UiFields, clearBinding, setBindingEnabled
<1>4. CASE posted' = posted /\ pc' = pc
  BY <1>1, <1>2, <1>3, <1>4, Stays DEF Moves
<1>5. CASE \E a \in Edited : clearBinding(a)
  <2>1. PICK a \in Edited : SaveBinding(posted, a, {})
    BY <1>5 DEF clearBinding
  <2>2. CASE /\ posted' \in Seq(Message) /\ Len(posted') = Len(posted) /\ NoNews(posted')
             /\ pc'.op = "apply" /\ DOMAIN pc'.settings = Actions
    <3>1. pc' # Idle /\ pc' # pc /\ pc'.op # "closed" /\ Len(posted') <= Len(posted)
      BY <1>1, <2>2, PcShapes
    <3>. QED BY <1>1, <1>2, <1>3, <2>2, <3>1, Turns DEF Moves
  <2>. QED BY <1>1, <1>4, <2>1, <2>2, SaveSynchronizes
<1>. QED BY <1>4, <1>5 DEF setBindingEnabled, listener

(* The listener comes and goes.                                            *)
LEMMA OpenMoves ==
  ASSUME Typed, Held, ~desk.lossy, Remember, Open \/ Close
  PROVE  Typed' /\ Moves
<1>1. /\ UNCHANGED <<desk, keyboard, async>> /\ executed' = {}
      /\ posted' = <<>> /\ Len(posted) \in Nat
  BY DEF Typed, Open, Close, input
<1>2. posted' \in Seq(Message) /\ Len(posted') <= Len(posted) /\ NoNews(posted')
  BY <1>1 DEF NoNews
<1>3. Matcher(NoMatcher)
  BY DEF Matcher, NoMatcher, Fields, Image
<1>4. Matcher(matcher')
  BY <1>3 DEF Typed, Open, Close
<1>5. CASE pc'.op = "unavailable"
  <2>1. pc' # pc /\ pc' # Idle
    BY <1>5, PcShapes DEF Open, Close
  <2>2. UiTyped(ui')
    BY DEF Typed, UiTyped, UiFields, Open, Close
  <2>. QED BY <1>1, <1>2, <1>4, <1>5, <2>1, <2>2, Turns DEF Moves, Changing
<1>6. CASE pc' = Applying(ui.keys) /\ Open
  <2>1. pc'.op = "apply" /\ pc'.settings = ui.keys /\ pc' # Idle /\ pc' # pc
    BY <1>6, PcShapes DEF Open
  <2>2. CASE ui' = [ui EXCEPT !.listening = TRUE, !.inputSuspended = ~ui.hotkeysEnabled]
    <3>. DEFINE b == ~ui.hotkeysEnabled
    <3>1. ui' = [ui EXCEPT !.listening = TRUE, !.inputSuspended = b]
      BY <2>2
    <3>. HIDE DEF b
    <3>2. UiTyped(ui') /\ ui'.listening
      BY <3>1 DEF Typed, UiTyped, UiFields
    <3>3. DOMAIN pc'.settings = Actions
      BY <2>1 DEF Typed, UiTyped
    <3>. QED BY <1>1, <1>2, <1>4, <2>1, <3>2, <3>3, Turns DEF Moves
  <2>. QED BY <1>6, <2>1, <2>2 DEF Open, Applying
<1>. QED BY <1>5, <1>6 DEF Open, Close

(* Each way the second step of synchronizeInput ends.                      *)
LEMMA ResumeMoves ==
  ASSUME Typed, Held, ~desk.lossy, Remember, Synchronized \/ Applied \/ RecordBegun
  PROVE  Typed' /\ Moves
<1>1. /\ UNCHANGED <<desk, keyboard, async, posted>> /\ executed' = {}
      /\ pc' = Idle /\ pc.op \in Changing
  BY DEF Synchronized, Applied, RecordBegun, input, Changing
<1>2. Waits(Sampled(matcher), async)
  BY SampledWaits DEF Typed
<1>3. Waits(matcher', async)
  BY <1>2, AppliedWaits, RecordWaits DEF Synchronized, Applied, RecordBegun
<1>4. /\ Unmoved /\ credit' = credit
      /\ credit' \in [Actions -> Int] /\ \A a \in Actions : credit'[a] <= CreditCap'
  BY <1>1, RemembersSame
<1>5. Resumes
  BY <1>1, <1>3, <1>4 DEF Resumes, Typed
<1>6. UiTyped(ui') /\ ui'.listening = ui.listening
  BY DEF Typed, UiTyped, UiFields, Synchronized, Applied, RecordBegun
<1>7. Matcher(matcher')
  BY <1>3 DEF Waits
<1>. QED BY <1>1, <1>4, <1>5, <1>6, <1>7, PcShapes DEF Typed, Moves, UiTyped, Matcher

(* The message at the head of the queue, still current.                    *)
LEMMA CurrentHeard ==
  ASSUME Typed, Held, ~desk.lossy, Remember, InputMessage, Head(posted).current,
         NEW heard, heard = hotkeyMatcherInput(matcher, Head(posted).key, Head(posted).down)
  PROVE  /\ Typed' /\ Moves
         /\ heard.matcher.recorded \subseteq matcher.recorded \cup Image(heard.matcher.physical)
         /\ heard.matcher.physical = After(matcher.physical, Head(posted))
         /\ matcher.waitForRelease => heard.matcher.recorded \subseteq matcher.recorded
<1>. DEFINE head == Head(posted)
            after == heard.matcher
            actions == heard.actions
<1>1. /\ posted \in Seq(Message) /\ posted # <<>> /\ pc = Idle /\ ui.listening
      /\ Tail(posted) \in Seq(Message) /\ Len(Tail(posted)) = Len(posted) - 1
      /\ Len(posted) \in Nat \ {0} /\ head \in Message
  BY HeadDropped DEF InputMessage, Typed
<1>2. head.key \in Keys /\ head.down \in BOOLEAN
  BY <1>1, MessageIs
<1>3. DeliverInput(Tail(posted), after, actions)
  BY DEF InputMessage
<1>. HIDE DEF head
<1>4. heard = hotkeyMatcherInput(matcher, head.key, head.down) /\ head.current
  BY DEF head
<1>5. /\ HeardBy(matcher, after, actions)
      /\ after.physical = After(matcher.physical, head)
  BY <1>1, <1>4, InputIs DEF Typed
<1>. HIDE DEF after, actions
<1>6. /\ executed' \subseteq actions /\ matcher' = Settled(after)
      /\ UNCHANGED <<desk, keyboard, async>>
  BY <1>3 DEF DeliverInput, input
<1>7. /\ Matcher(matcher') /\ matcher'.physical = after.physical
      /\ HeardBy(matcher, matcher', actions)
  <2>1. Matcher(after)
    BY <1>5 DEF HeardBy
  <2>2. /\ DOMAIN matcher' = Fields /\ matcher'.physical = after.physical
        /\ matcher'.down = after.down
        /\ matcher'.settings = after.settings /\ matcher'.latched = after.latched
        /\ matcher'.waitForRelease = after.waitForRelease
        /\ matcher'.recording = after.recording /\ matcher'.recorded \in {after.recorded, {}}
    BY <1>6, <2>1, SettledIs DEF Matcher
  <2>3. Matcher(matcher') /\ Matching(matcher') = Matching(after)
    BY <2>1, <2>2 DEF Matcher, Matching
  <2>. QED BY <1>5, <2>2, <2>3 DEF HeardBy
<1>8. CASE posted' = Tail(posted) /\ pc' = pc /\ ui'.listening = ui.listening /\ UiTyped(ui')
  <2>1. /\ Unmoved
        /\ credit' \in [Actions -> Int] /\ \A a \in Actions : credit'[a] <= CreditCap'
        /\ \A a \in Actions : credit'[a] = credit[a] - (IF a \in executed' THEN 1 ELSE 0)
    BY <1>6, <1>8, RemembersSame
  <2>2. Hears(actions)
    BY <1>1, <1>4, <1>5, <1>6, <1>7, <1>8, <2>1 DEF Hears, head
  <2>3. Len(posted') <= desk.queue
    BY <1>1, <1>8 DEF Typed, DeskRecord
  <2>4. Typed'
    BY <1>1, <1>6, <1>7, <1>8, <2>1, <2>3, PcShapes DEF Typed, UiTyped, Matcher
  <2>. QED BY <1>5, <2>2, <2>4 DEF Moves, HeardBy, after, head
<1>9. CASE /\ matcher.recording /\ ~after.recording
           /\ SaveBinding(Tail(posted), ui.recordAction, after.recorded)
           /\ ui' = [ui EXCEPT !.recordAction = NoAction]
  <2>1. UiTyped(ui') /\ ui'.listening = ui.listening
    BY <1>9 DEF Typed, UiTyped, UiFields
  <2>2. CASE posted' = Tail(posted) /\ pc' = pc
    BY <1>8, <2>1, <2>2
  <2>3. CASE /\ posted' \in Seq(Message) /\ Len(posted') = Len(Tail(posted)) /\ NoNews(posted')
             /\ pc'.op = "apply" /\ DOMAIN pc'.settings = Actions
    <3>1. pc' # Idle /\ pc' # pc /\ pc'.op # "closed" /\ Len(posted') <= Len(posted)
      BY <1>1, <2>3, PcShapes
    <3>2. executed' = {}
      BY <1>5, <1>6, <1>9 DEF HeardBy
    <3>3. Typed' /\ ModeChanges
      BY <1>1, <1>6, <1>7, <2>1, <2>3, <3>1, <3>2, Turns
    <3>. QED BY <1>5, <3>3 DEF Moves, HeardBy, after, head
  <2>. QED BY <1>1, <1>9, <2>2, <2>3, SaveSynchronizes
<1>. QED BY <1>3, <1>8, <1>9 DEF DeliverInput, NoSynchronize, after, Typed

(* A message is taken from the queue.                                      *)
LEMMA InputMoves ==
  ASSUME Typed, Held, ~desk.lossy, Remember, InputMessage
  PROVE  Typed' /\ Moves
<1>1. CASE Head(posted).current
  BY <1>1, CurrentHeard
<1>2. CASE ~Head(posted).current
  <2>1. /\ posted \in Seq(Message) /\ posted # <<>> /\ pc = Idle /\ ui.listening
        /\ Tail(posted) \in Seq(Message) /\ Len(Tail(posted)) = Len(posted) - 1
        /\ Len(posted) \in Nat \ {0}
    BY HeadDropped DEF InputMessage, Typed
  <2>2. DeliverInput(Tail(posted), matcher, {})
    BY <1>2 DEF InputMessage
  <2>3. /\ executed' = {} /\ matcher' = Settled(matcher) /\ UNCHANGED <<desk, keyboard, async, ui, pc>>
        /\ posted' = Tail(posted)
    BY <2>2 DEF DeliverInput, NoSynchronize, input
  <2>4. Matcher(matcher')
    BY <2>3, SettledIs DEF Typed, Matcher
  <2>5. /\ Unmoved /\ credit' = credit
        /\ credit' \in [Actions -> Int] /\ \A a \in Actions : credit'[a] <= CreditCap'
    BY <2>3, RemembersSame
  <2>6. Len(posted') <= desk.queue
    BY <2>1, <2>3 DEF Typed, DeskRecord
  <2>7. Typed'
    BY <2>1, <2>3, <2>4, <2>5, <2>6, PcShapes DEF Typed, UiTyped, Matcher
  <2>. QED BY <1>2, <2>1, <2>3, <2>5, <2>7 DEF Moves, Skips
<1>. QED BY <1>1, <1>2

(* A message is posted.                                                    *)
LEMMA KeyStrikes ==
  ASSUME Typed, Held, ~desk.lossy, Remember, NEW m \in Message, m.current,
         m.down \/ m.key \in keyboard, desk.during \/ pc.op \notin Changing,
         Len(posted) < desk.queue, posted' = IF ui.listening THEN Append(posted, m) ELSE posted,
         keyboard' = After(keyboard, m), async' = keyboard', executed' = {},
         UNCHANGED <<desk, matcher, pc, ui>>
  PROVE  Typed' /\ Strikes(m)
<1>1. m.key \in Keys /\ posted \in Seq(Message)
  BY MessageIs DEF Typed
<1>2. /\ heldOver' = heldOver \cap keyboard'
      /\ pressed' = pressed \cup (keyboard' \ keyboard)
      /\ credit' \in [Actions -> Int] /\ \A a \in Actions : credit'[a] <= CreditCap'
      /\ \A a \in Actions : \E e \in {0, 1} :
           /\ credit'[a] = Min({credit[a] + e - (IF a \in executed' THEN 1 ELSE 0), CreditCap})
           /\ (e = 1) <=> Completed(a)
  BY Remembers
<1>3. ASSUME NEW a \in Actions
      PROVE  \E e \in {0, 1} : /\ credit'[a] = Min({credit[a] + e, CreditCap})
                               /\ pc = Idle => e = Completes(matcher.settings[a], keyboard, keyboard')
  <2>1. PICK e \in {0, 1} :
           /\ credit'[a] = Min({credit[a] + e - (IF a \in executed' THEN 1 ELSE 0), CreditCap})
           /\ (e = 1) <=> Completed(a)
    BY <1>2
  <2>2. credit[a] + e - 0 = credit[a] + e
    BY DEF Typed
  <2>3. credit'[a] = Min({credit[a] + e, CreditCap})
    BY <2>1, <2>2
  <2>4. ASSUME pc = Idle PROVE e = Completes(matcher.settings[a], keyboard, keyboard')
    <3>1. pc'.op # "apply" /\ matcher' = matcher
      BY <2>4, PcShapes
    <3>2. Completed(a) <=> (Completes(matcher.settings[a], keyboard, keyboard') = 1)
      BY <3>1 DEF Completed, Completes, Image
    <3>. QED BY <2>1, <3>2 DEF Completes
  <2>. QED BY <2>3, <2>4
<1>4. posted' \in Seq(Message) /\ Len(posted') <= desk.queue
  BY <1>1, LastAdded DEF Typed, DeskRecord
<1>5. keyboard' \subseteq Keys
  BY <1>1 DEF Typed, After
<1>6. Typed'
  BY <1>2, <1>4, <1>5 DEF Typed, UiTyped, Matcher
<1>. QED BY <1>2, <1>3, <1>6 DEF Strikes

(* Presses, releases and repeats.                                          *)
LEMMA TypingMoves ==
  ASSUME Typed, Held, ~desk.lossy, ~desk.lags, Remember, NEW key \in desk.keys,
         PressOrRelease(key) \/ AutoRepeat(key)
  PROVE  Typed' /\ Moves
<1>. DEFINE Event(b) == [key |-> key, down |-> b, current |-> TRUE]
            Posts(m) == /\ Len(posted) < desk.queue
                        /\ posted' = IF ui.listening THEN Append(posted, m) ELSE posted
            ToldBy(m) == /\ Posts(m) /\ m.current
                         /\ m.down \/ m.key \in keyboard
                         /\ keyboard' = After(keyboard, m)
<1>1. \A b \in BOOLEAN :
        Event(b) \in Message /\ Event(b).key = key /\ Event(b).current /\ (Event(b).down <=> b)
  BY DEF Message, Typed, DeskRecord
<1>2. \A b \in BOOLEAN : Post(key, b) => Posts(Event(b))
  BY DEF Post
<1>. HIDE DEF Event, Posts
<1>3. ASSUME PressOrRelease(key), key \in keyboard PROVE \E m \in Message : ToldBy(m)
  <2>1. (key \notin keyboard) = FALSE
    BY <1>3
  <2>2. Post(key, FALSE) /\ keyboard' = keyboard \ {key}
    BY <1>3, <2>1 DEF PressOrRelease
  <2>. QED BY <1>1, <1>2, <1>3, <2>2 DEF After
<1>4. ASSUME PressOrRelease(key), key \notin keyboard PROVE \E m \in Message : ToldBy(m)
  <2>1. (key \notin keyboard) = TRUE
    BY <1>4
  <2>2. Post(key, TRUE) /\ keyboard' = keyboard \cup {key}
    BY <1>4, <2>1 DEF PressOrRelease
  <2>. QED BY <1>1, <1>2, <2>2 DEF After
<1>5. ASSUME AutoRepeat(key) PROVE \E m \in Message : ToldBy(m)
  <2>1. Post(key, TRUE) /\ keyboard' = keyboard /\ key \in keyboard
    BY <1>5 DEF AutoRepeat, input
  <2>. QED BY <1>1, <1>2, <2>1 DEF After
<1>6. PICK m \in Message : ToldBy(m)
  BY <1>3, <1>4, <1>5
<1>7. /\ async' = keyboard' /\ executed' = {} /\ UNCHANGED <<desk, matcher, pc, ui>>
      /\ desk.during \/ pc.op \notin Changing
  BY DEF PressOrRelease, AutoRepeat, input, Typing, Typed, Changing
<1>8. Typed' /\ Strikes(m)
  BY <1>6, <1>7, KeyStrikes DEF Posts
<1>. QED BY <1>8 DEF Moves

(* The timer finds nothing to release: the messages tell of every key.     *)
LEMMA NothingMissed ==
  ASSUME Typed, Held, pc = Idle, posted = <<>>
  PROVE  Missed = {}
  BY DEF Typed, Held, Missed, Matcher, Tracks, Untold

(* Every step is one of these effects.                                     *)
LEMMA NextMoves ==
  ASSUME Typed, Held, ~desk.lossy, ~desk.lags, HistoryNext
  PROVE  Typed' /\ Moves
<1>1. Remember /\ Next
  BY DEF HistoryNext
<1>2. CASE Input
  BY <1>1, <1>2, TypingMoves DEF Input, AsyncFollows, Typed
<1>3. CASE Delivery
  BY <1>1, <1>3, ResumeMoves, InputMoves, NothingMissed DEF Delivery, Timer
<1>4. CASE Calls
  BY <1>1, <1>4, OpenMoves, RecordingMoves, PauseMoves, BindingMoves DEF Calls
<1>. QED BY <1>1, <1>2, <1>3, <1>4 DEF Next

-----------------------------------------------------------------------------
(* Keys held over.                                                         *)
(* While keys are held over a message fires nothing.                       *)
LEMMA HeardKeepsHeld ==
  ASSUME Typed, Held, NEW actions, Hears(actions)
  PROVE  /\ heldOver \subseteq matcher'.physical
         /\ heldOver # {} => actions = {} /\ matcher'.waitForRelease
<1>1. heldOver \subseteq matcher.physical /\ (heldOver # {} => matcher.waitForRelease)
  BY DEF Held, Hears
<1>2. Head(posted).key \in heldOver => Head(posted).down
  BY HeadDropped DEF Held, OnlyDown, Hears, Typed
<1>3. heldOver \subseteq matcher'.physical
  BY <1>1, <1>2 DEF Hears, After
<1>. QED BY <1>1, <1>3 DEF Hears, HeardBy

(* Taking a message, the matcher keeps up with the keyboard.               *)
LEMMA HeldShrinks ==
  ASSUME Typed, Held, pc = Idle, posted # <<>>, posted' = Tail(posted), Unmoved,
         NEW physical, physical = After(matcher.physical, Head(posted))
  PROVE  /\ LastTells(posted', keyboard') /\ Tracks(posted', physical, keyboard')
         /\ heldOver' \subseteq keyboard' /\ OnlyDown(posted', heldOver')
<1>1. posted \in Seq(Message) /\ LastTells(posted, keyboard) /\ Tracks(posted, matcher.physical, keyboard)
  BY DEF Typed, Held
<1>2. LastTells(posted', keyboard) /\ Tracks(posted', physical, keyboard)
  BY <1>1, QueueShrinks
<1>3. OnlyDown(posted', heldOver)
  BY <1>1, HeadDropped DEF OnlyDown, Held
<1>. QED BY <1>2, <1>3 DEF Unmoved, Held

(* Held is kept by every effect.                                           *)
LEMMA HeldStep ==
  ASSUME Typed, Held, Moves
  PROVE  Held'
<1>1. ASSUME NEW m \in Message, Strikes(m) PROVE Held'
  <2>1. /\ posted \in Seq(Message) /\ LastTells(posted, keyboard) /\ m.current
        /\ keyboard' = After(keyboard, m) /\ heldOver' = heldOver \cap keyboard'
        /\ pc' = pc /\ matcher' = matcher
    BY <1>1 DEF Typed, Held, Strikes
  <2>2. CASE ui.listening
    <3>1. posted' = Append(posted, m)
      BY <1>1, <2>2 DEF Strikes
    <3>2. LastTells(posted', keyboard')
      BY <2>1, <3>1, QueueGrows
    <3>3. Tracks(posted, matcher.physical, keyboard) => Tracks(posted', matcher.physical, keyboard')
      BY <2>1, <3>1, QueueGrows
    <3>4. OnlyDown(posted', heldOver')
      <4>1. m.key \in keyboard' => m.down
        BY <2>1 DEF After
      <4>. QED BY <2>1, <3>1, <4>1, LastAdded DEF Held, OnlyDown
    <3>. QED BY <2>1, <3>2, <3>3, <3>4 DEF Held
  <2>3. CASE ~ui.listening
    <3>1. posted' = <<>> /\ pc' # Idle
      BY <1>1, <2>1, <2>3 DEF Strikes, Typed
    <3>. QED BY <2>1, <3>1, QueueStale DEF Held, NoNews
  <2>. QED BY <2>2, <2>3
<1>2. CASE ModeChanges
  BY <1>2, QueueStale DEF ModeChanges, Held
<1>3. CASE Resumes
  BY <1>3 DEF Resumes, Held, Unmoved, Waits, Tracks
<1>4. CASE Stands
  BY <1>4 DEF Stands, Held, Unmoved
<1>5. CASE Skips
  <2>1. /\ matcher'.physical = matcher.physical
        /\ matcher'.waitForRelease = matcher.waitForRelease
    BY <1>5, SettledIs DEF Skips, Typed, Matcher
  <2>2. matcher.physical = After(matcher.physical, Head(posted))
    BY <1>5 DEF Skips, After
  <2>3. /\ LastTells(posted', keyboard') /\ Tracks(posted', matcher'.physical, keyboard')
        /\ heldOver' \subseteq keyboard' /\ OnlyDown(posted', heldOver')
    BY <1>5, <2>1, <2>2, HeldShrinks DEF Skips
  <2>. QED BY <1>5, <2>1, <2>3 DEF Held, Skips, Unmoved
<1>6. ASSUME NEW actions, Hears(actions) PROVE Held'
  <2>1. /\ LastTells(posted', keyboard') /\ Tracks(posted', matcher'.physical, keyboard')
        /\ heldOver' \subseteq keyboard' /\ OnlyDown(posted', heldOver')
    BY <1>6, HeldShrinks DEF Hears
  <2>. QED BY <1>6, <2>1, HeardKeepsHeld DEF Held, Hears, Unmoved
<1>. QED BY <1>1, <1>2, <1>3, <1>4, <1>5, <1>6 DEF Moves

(* The circumstances hold for good; where inputs get lost nothing counts.  *)
LEMMA DeskStays ==
  ASSUME HistoryNext
  PROVE  desk' = desk /\ (desk.lossy => credit' = credit)
<1>1. Next => desk' = desk
  <2>1. Input => desk' = desk
    BY DEF Input, AsyncFollows, PressOrRelease, AutoRepeat, input
  <2>2. \A queue, after, actions : DeliverInput(queue, after, actions) => desk' = desk
    BY DEF DeliverInput, input
  <2>3. Delivery => desk' = desk
    <3>1. Timer => desk' = desk
      BY DEF Timer, DeliverInput, input
    <3>2. InputMessage => desk' = desk
      BY <2>2 DEF InputMessage
    <3>. QED BY <3>1, <3>2 DEF Delivery, Synchronized, Applied, RecordBegun, input
  <2>4. Calls => desk' = desk
    BY DEF Calls, Open, Close, cancelRecording, setInputPaused, setHotkeysEnabled,
           setBindingEnabled, recordBinding, clearBinding, input
  <2>. QED BY <2>1, <2>3, <2>4 DEF Next
<1>. QED BY <1>1 DEF HistoryNext, Remember

HeldInv ==
  desk \in Desks /\ (~desk.lossy => Typed /\ Held)

(* It all holds at first.                                                  *)
LEMMA InitTyped ==
  ASSUME HistoryInit
  PROVE  /\ desk \in Desks /\ posted = <<>> /\ keyboard = {} /\ heldOver = {} /\ pressed = {}
         /\ pc.op = "closed" /\ pc # Idle /\ credit = [a \in Actions |-> 0]
         /\ Typed /\ Held
<1>1. /\ desk \in Desks /\ posted = <<>> /\ keyboard = {} /\ heldOver = {} /\ pressed = {}
      /\ pc.op = "closed" /\ pc # Idle /\ credit = [a \in Actions |-> 0] /\ async = {}
  BY PcShapes DEF HistoryInit, Init
<1>2. Matcher(matcher)
  BY DEF HistoryInit, Init, Matcher, NoMatcher, Fields, Image
<1>3. UiTyped(ui) /\ ~ui.listening
  <2>1. PICK h \in BOOLEAN, k \in Loaded :
          ui = [paused |-> FALSE, hotkeysEnabled |-> h, inputSuspended |-> FALSE,
                listening |-> FALSE, keys |-> k, recordAction |-> NoAction,
                enabled |-> [a \in Actions |-> TRUE]]
    BY DEF HistoryInit, Init
  <2>2. DOMAIN k = Actions
    BY HotkeysAssumption DEF Bindings
  <2>. QED BY <2>1, <2>2 DEF UiTyped, UiFields
<1>4. desk \in DeskRecord /\ Len(posted) <= desk.queue
  BY <1>1, HotkeysAssumption DEF DeskRecord
<1>5. CreditCap \in Nat
  BY <1>4 DEF CreditCap, DeskRecord
<1>6. posted \in Seq(Message)
  BY <1>1
<1>7. Typed
  BY <1>1, <1>2, <1>3, <1>4, <1>5, <1>6, PcShapes DEF Typed, Changing
<1>8. Held
  BY <1>1, QueueStale DEF Held, NoNews
<1>. QED BY <1>1, <1>7, <1>8

(* It all holds when nothing changes.                                      *)
LEMMA TypedStutters ==
  ASSUME Typed, Held, UNCHANGED historyVars
  PROVE  Typed' /\ Held'
  BY DEF Typed, Held, historyVars, vars, listener, input, UiTyped, Matcher, CreditCap

(* Where GetAsyncKeyState keeps up with the hooks, the matcher is never    *)
(* wrong about a key held over.                                            *)
LEMMA HeldInvHolds ==
  ASSUME \A d \in Desks : d.lossy \/ ~d.lags
  PROVE  HistorySpec => []HeldInv
<1>1. HistoryInit => HeldInv
  BY InitTyped DEF HeldInv
<1>2. HeldInv /\ [HistoryNext]_historyVars => HeldInv'
  <2>. SUFFICES ASSUME HeldInv, [HistoryNext]_historyVars PROVE HeldInv'
    OBVIOUS
  <2>1. CASE HistoryNext
    <3>1. desk' = desk /\ desk \in Desks
      BY <2>1, DeskStays DEF HeldInv
    <3>2. ~desk.lossy => Typed' /\ Held'
      BY <2>1, <3>1, NextMoves, HeldStep DEF HeldInv
    <3>. QED BY <3>1, <3>2 DEF HeldInv
  <2>2. CASE UNCHANGED historyVars
    <3>1. desk' = desk
      BY <2>2 DEF historyVars, vars, input
    <3>. QED BY <2>2, <3>1, TypedStutters DEF HeldInv
  <2>. QED BY <2>1, <2>2
<1>. QED BY <1>1, <1>2, PTL DEF HistorySpec

(* As long as a key is held over from before a change of mode, nothing     *)
(* acts (synchronizeInput and waitForRelease of the matcher), provided     *)
(* GetAsyncKeyState keeps up with the hooks: else the sample misses a key  *)
(* pressed just before the change, and nobody waits for its release.       *)
THEOREM HeldKeysNeverActHolds ==
  ASSUME \A d \in Desks : d.lossy \/ ~d.lags
  PROVE  HistorySpec => HeldKeysNeverAct
<1>1. HeldInv /\ [HistoryNext]_historyVars =>
        [~desk.lossy /\ executed' # {} => heldOver = {}]_historyVars
  <2>. SUFFICES ASSUME HeldInv, HistoryNext, ~desk.lossy, executed' # {} PROVE heldOver = {}
    OBVIOUS
  <2>1. Typed /\ Held /\ ~desk.lags
    BY DEF HeldInv
  <2>2. Moves
    BY <2>1, NextMoves
  <2>3. PICK actions : Hears(actions)
    BY <2>2 DEF Moves, Strikes, ModeChanges, Resumes, Stands, Skips
  <2>4. executed' \subseteq actions
    BY <2>3 DEF Hears
  <2>. QED BY <2>1, <2>3, <2>4, HeardKeepsHeld
<1>. QED BY <1>1, HeldInvHolds, PTL DEF HistorySpec, HeldKeysNeverAct

-----------------------------------------------------------------------------
(* Keys pressed since the last change of mode.                             *)
(* A message of a press that is not among keys is a repeat: its key is     *)
(* known to be down and nothing before it releases it.                     *)
Pending(queue, physical, keys) ==
  \A i \in 1 .. Len(queue) :
    queue[i].current /\ queue[i].down /\ queue[i].key \notin keys =>
      /\ queue[i].key \in physical
      /\ \A j \in 1 .. Len(queue) : j < i /\ Tells(queue[j], queue[i].key) => queue[j].down

(* Whatever is down was held over or pressed since; what the matcher goes  *)
(* by, once it waits no more, was pressed since, and so was all it has     *)
(* recorded.                                                               *)
Known ==
  /\ pc.op \in Changing => NoNews(posted)
  /\ keyboard \subseteq heldOver \cup pressed
  /\ pc = Idle =>
       /\ Pending(posted, matcher.physical, pressed)
       /\ ~matcher.waitForRelease => matcher.physical \subseteq pressed
       /\ matcher.recorded \subseteq Image(pressed)

(* A repeat joins the queue.                                               *)
LEMMA PendingGrows ==
  ASSUME NEW q \in Seq(Message), NEW m \in Message, m.current, NEW physical,
         NEW keys, Pending(q, physical, keys), NEW held, OnlyDown(q, held), held \subseteq physical,
         m.down => m.key \in held \cup keys
  PROVE  Pending(Append(q, m), physical, keys)
<1>. DEFINE r == Append(q, m)
<1>1. /\ Len(r) = Len(q) + 1 /\ Len(q) \in Nat /\ r[Len(q) + 1] = m
      /\ \A i \in 1 .. Len(q) : r[i] = q[i]
  BY LastAdded
<1>. HIDE DEF r
<1>2. ASSUME NEW i \in 1 .. Len(r), r[i].current, r[i].down, r[i].key \notin keys
      PROVE  /\ r[i].key \in physical
             /\ \A j \in 1 .. Len(r) : j < i /\ Tells(r[j], r[i].key) => r[j].down
  <2>1. CASE i = Len(q) + 1
    <3>1. m.key \in held
      BY <1>1, <1>2, <2>1
    <3>2. \A j \in 1 .. Len(q) : Tells(q[j], m.key) => q[j].down
      BY <3>1 DEF OnlyDown, Tells
    <3>. QED BY <1>1, <2>1, <3>1, <3>2
  <2>2. CASE i # Len(q) + 1
    <3>1. i \in 1 .. Len(q) /\ r[i] = q[i]
      BY <1>1, <2>2
    <3>. QED BY <1>1, <1>2, <3>1 DEF Pending
  <2>. QED BY <2>1, <2>2
<1>. QED BY <1>2 DEF Pending, r

(* A message is taken: only a key pressed since can come down.             *)
LEMMA PendingShrinks ==
  ASSUME NEW q \in Seq(Message), q # <<>>, NEW physical, NEW keys, Pending(q, physical, keys)
  PROVE  /\ Pending(Tail(q), After(physical, Head(q)), keys)
         /\ physical \subseteq keys => After(physical, Head(q)) \subseteq keys
<1>. DEFINE r == Tail(q)
<1>1. /\ Len(r) = Len(q) - 1 /\ Len(q) \in Nat \ {0} /\ Head(q) = q[1] /\ q[1] \in Message
      /\ \A i \in 1 .. Len(r) : i + 1 \in 1 .. Len(q) /\ r[i] = q[i + 1]
  BY HeadDropped
<1>. HIDE DEF r
<1>2. ASSUME NEW i \in 1 .. Len(r), r[i].current, r[i].down, r[i].key \notin keys
      PROVE  /\ r[i].key \in After(physical, q[1])
             /\ \A j \in 1 .. Len(r) : j < i /\ Tells(r[j], r[i].key) => r[j].down
  <2>1. i + 1 \in 1 .. Len(q) /\ r[i] = q[i + 1] /\ 1 \in 1 .. Len(q) /\ 1 < i + 1
    BY <1>1
  <2>2. /\ r[i].key \in physical
        /\ \A j \in 1 .. Len(q) : j < i + 1 /\ Tells(q[j], r[i].key) => q[j].down
    BY <1>2, <2>1 DEF Pending
  <2>3. r[i].key \in After(physical, q[1])
    BY <2>1, <2>2 DEF After, Tells
  <2>4. ASSUME NEW j \in 1 .. Len(r), j < i, Tells(r[j], r[i].key) PROVE r[j].down
    <3>1. j + 1 \in 1 .. Len(q) /\ j + 1 < i + 1 /\ r[j] = q[j + 1]
      BY <1>1, <2>4
    <3>. QED BY <2>2, <2>4, <3>1
  <2>. QED BY <2>3, <2>4
<1>3. ASSUME physical \subseteq keys PROVE After(physical, q[1]) \subseteq keys
  <2>1. 1 \in 1 .. Len(q)
    BY <1>1
  <2>2. q[1].current /\ q[1].down => q[1].key \in keys
    BY <1>3, <2>1 DEF Pending
  <2>. QED BY <1>3, <2>2 DEF After
<1>. QED BY <1>1, <1>2, <1>3 DEF Pending, r

(* More keys, more logical keys.                                           *)
LEMMA ImageGrows ==
  ASSUME NEW keys, NEW more, keys \subseteq more
  PROVE  Image(keys) \subseteq Image(more)
  BY DEF Image

(* Known is kept by every effect while no key moves between the steps of   *)
(* synchronizeInput.                                                       *)
LEMMA KnownStep ==
  ASSUME Typed, Held, Known, ~desk.during, Moves
  PROVE  Known'
<1>1. ASSUME NEW m \in Message, Strikes(m) PROVE Known'
  <2>1. /\ posted \in Seq(Message) /\ m.current /\ pc.op \notin Changing
        /\ keyboard' = After(keyboard, m) /\ heldOver' = heldOver \cap keyboard'
        /\ pressed' = pressed \cup (keyboard' \ keyboard)
        /\ pc' = pc /\ matcher' = matcher /\ keyboard \subseteq heldOver \cup pressed
    BY <1>1 DEF Typed, Known, Strikes
  <2>2. keyboard' \subseteq heldOver' \cup pressed'
    BY <2>1
  <2>3. ASSUME pc = Idle
        PROVE  /\ Pending(posted', matcher.physical, pressed')
               /\ ~matcher.waitForRelease => matcher.physical \subseteq pressed'
               /\ matcher.recorded \subseteq Image(pressed')
    <3>1. posted' = Append(posted, m)
      BY <1>1, <2>3 DEF Strikes, Typed
    <3>2. pressed \subseteq pressed'
      BY <2>1
    <3>3. Pending(posted, matcher.physical, pressed')
      BY <2>3, <3>2 DEF Known, Pending
    <3>4. m.down => m.key \in heldOver \cup pressed'
      BY <2>1 DEF After
    <3>5. Pending(posted', matcher.physical, pressed')
      BY <2>1, <2>3, <3>1, <3>3, <3>4, PendingGrows DEF Held
    <3>6. Image(pressed) \subseteq Image(pressed')
      BY <3>2, ImageGrows
    <3>. QED BY <2>3, <3>2, <3>5, <3>6 DEF Known
  <2>. QED BY <2>1, <2>2, <2>3 DEF Known
<1>2. CASE ModeChanges
  BY <1>2 DEF ModeChanges, Known
<1>3. CASE Resumes
  <2>1. NoNews(posted')
    BY <1>3 DEF Resumes, Known
  <2>2. \A physical, keys : Pending(posted', physical, keys)
    BY <2>1 DEF Pending, NoNews
  <2>. QED BY <1>3, <2>1, <2>2 DEF Resumes, Known, Unmoved, Waits
<1>4. CASE Stands
  BY <1>4 DEF Stands, Known, Unmoved
<1>5. CASE Skips
  <2>1. /\ matcher'.physical = matcher.physical
        /\ matcher'.waitForRelease = matcher.waitForRelease
        /\ matcher'.recorded \in {matcher.recorded, {}}
    BY <1>5, SettledIs DEF Skips, Typed, Matcher
  <2>2. matcher.physical = After(matcher.physical, Head(posted))
    BY <1>5 DEF Skips, After
  <2>3. Pending(posted', matcher'.physical, pressed)
    BY <1>5, <2>1, <2>2, PendingShrinks DEF Skips, Known, Typed
  <2>. QED BY <1>5, <2>1, <2>3, PcShapes DEF Known, Skips, Unmoved, Changing
<1>6. ASSUME NEW actions, Hears(actions) PROVE Known'
  <2>1. Pending(posted', matcher'.physical, pressed)
    BY <1>6, PendingShrinks DEF Hears, Known, Typed
  <2>2. ~matcher.waitForRelease => matcher'.physical \subseteq pressed
    BY <1>6, PendingShrinks DEF Hears, Known, Typed
  <2>3. ~matcher'.waitForRelease => matcher'.physical \subseteq pressed
    BY <1>6, <2>2 DEF Hears, HeardBy
  <2>4. matcher'.recorded \subseteq Image(pressed)
    <3>1. matcher.recorded \subseteq Image(pressed)
      BY <1>6 DEF Known, Hears
    <3>2. CASE matcher.waitForRelease
      BY <1>6, <3>1, <3>2 DEF Hears, HeardBy
    <3>3. CASE ~matcher.waitForRelease
      <4>1. Image(matcher'.physical) \subseteq Image(pressed)
        BY <2>2, <3>3, ImageGrows
      <4>. QED BY <1>6, <3>1, <4>1 DEF Hears, HeardBy
    <3>. QED BY <3>2, <3>3
  <2>. QED BY <1>6, <2>1, <2>3, <2>4, PcShapes DEF Known, Hears, Unmoved, Changing
<1>. QED BY <1>1, <1>2, <1>3, <1>4, <1>5, <1>6 DEF Moves

-----------------------------------------------------------------------------
(* Completions on their way.                                               *)
(* The keys down after each message of the queue.                          *)
Path(q, physical, keys, path) ==
  /\ path \in [0 .. Len(q) -> SUBSET Keys]
  /\ path[0] = physical /\ path[Len(q)] = keys
  /\ \A i \in 1 .. Len(q) : path[i] = After(path[i - 1], q[i])

(* The completions of a combination up to each message.                    *)
Counts(q, path, combination, count) ==
  /\ count \in [0 .. Len(q) -> Int]
  /\ \A i \in 1 .. Len(q) : count[i] = count[i - 1] + Completes(combination, path[i - 1], path[i])
  /\ \A i, j \in 0 .. Len(q) : i <= j => count[i] <= count[j] /\ count[j] - count[i] <= j - i

(* The messages lead from physical to keys and complete the combination    *)
(* n times.                                                                *)
Owed(q, physical, keys, combination, n) ==
  \E path, count :
    /\ Path(q, physical, keys, path) /\ Counts(q, path, combination, count)
    /\ n = count[Len(q)] - count[0]

(* One event completes a combination at most once.                         *)
LEMMA CompletesOnce ==
  ASSUME NEW combination, NEW before, NEW after
  PROVE  Completes(combination, before, after) \in {0, 1}
  BY DEF Completes

(* There are no more completions than messages.                            *)
LEMMA OwedBounds ==
  ASSUME NEW q \in Seq(Message), NEW physical, NEW keys, NEW c, NEW n, Owed(q, physical, keys, c, n)
  PROVE  n \in Nat /\ n <= Len(q)
<1>1. PICK path, count :
        /\ Path(q, physical, keys, path) /\ Counts(q, path, c, count)
        /\ n = count[Len(q)] - count[0]
  BY DEF Owed
<1>2. Len(q) \in Nat
  OBVIOUS
<1>3. 0 \in 0 .. Len(q) /\ Len(q) \in 0 .. Len(q)
  BY <1>2
<1>4. count[0] \in Int /\ count[Len(q)] \in Int
  BY <1>1, <1>3 DEF Counts
<1>5. count[0] <= count[Len(q)] /\ count[Len(q)] - count[0] <= Len(q) - 0
  BY <1>1, <1>2, <1>3 DEF Counts
<1>. QED BY <1>1, <1>2, <1>4, <1>5

(* Nothing is owed where nothing will be heard.                            *)
LEMMA OwedStale ==
  ASSUME NEW q \in Seq(Message), NoNews(q), NEW keys \in SUBSET Keys, NEW c
  PROVE  Owed(q, keys, keys, c, 0)
<1>. DEFINE path == [i \in 0 .. Len(q) |-> keys]
            count == [i \in 0 .. Len(q) |-> 0]
<1>1. Len(q) \in Nat
  OBVIOUS
<1>2. Path(q, keys, keys, path)
  BY <1>1 DEF Path, NoNews, After
<1>3. Completes(c, keys, keys) = 0
  BY DEF Completes
<1>4. Counts(q, path, c, count)
  BY <1>1, <1>3 DEF Counts
<1>5. 0 = count[Len(q)] - count[0]
  BY <1>1
<1>. QED BY <1>2, <1>4, <1>5 DEF Owed

(* A key is struck: a completion more, or none.                            *)
LEMMA OwedGrows ==
  ASSUME NEW q \in Seq(Message), NEW m \in Message, m.current, NEW physical, NEW keys, NEW c, NEW n,
         Owed(q, physical, keys, c, n), NEW next, next = After(keys, m)
  PROVE  Owed(Append(q, m), physical, next, c, n + Completes(c, keys, next))
<1>. DEFINE r == Append(q, m)
            len == Len(q)
            e == Completes(c, keys, next)
<1>1. /\ Len(r) = len + 1 /\ len \in Nat /\ r[len + 1] = m
      /\ \A i \in 1 .. len : r[i] = q[i]
  BY LastAdded
<1>2. PICK path, count :
        /\ Path(q, physical, keys, path) /\ Counts(q, path, c, count)
        /\ n = count[len] - count[0]
  BY DEF Owed
<1>. DEFINE path2 == [i \in 0 .. len + 1 |-> IF i = len + 1 THEN next ELSE path[i]]
            count2 == [i \in 0 .. len + 1 |-> IF i = len + 1 THEN count[len] + e ELSE count[i]]
<1>3. e \in {0, 1}
  BY CompletesOnce
<1>4. next \subseteq Keys
  BY <1>1, <1>2, MessageIs DEF Path, After
<1>. HIDE DEF r, e
<1>5. /\ path2 \in [0 .. len + 1 -> SUBSET Keys] /\ path2[0] = physical /\ path2[len + 1] = next
      /\ path2[len] = keys /\ \A i \in 0 .. len : path2[i] = path[i]
  BY <1>1, <1>2, <1>4 DEF Path
<1>6. /\ count2 \in [0 .. len + 1 -> Int] /\ count2[0] = count[0] /\ count2[len + 1] = count[len] + e
      /\ \A i \in 0 .. len : count2[i] = count[i] /\ count[i] \in Int
  <2>1. \A i \in 0 .. len : count[i] \in Int
    BY <1>2 DEF Counts
  <2>2. len \in 0 .. len /\ 0 \in 0 .. len /\ 0 # len + 1 /\ 0 \in 0 .. len + 1 /\ len + 1 \in 0 .. len + 1
    BY <1>1
  <2>3. count[len] + e \in Int
    BY <1>3, <2>1, <2>2
  <2>4. \A i \in 0 .. len + 1 : i # len + 1 => i \in 0 .. len
    BY <1>1
  <2>5. \A i \in 0 .. len : i \in 0 .. len + 1 /\ i # len + 1
    BY <1>1
  <2>6. count2 \in [0 .. len + 1 -> Int]
    BY <2>1, <2>3, <2>4
  <2>. QED BY <2>1, <2>2, <2>5, <2>6
<1>. HIDE DEF path2, count2
<1>7. ASSUME NEW i \in 1 .. len + 1
      PROVE  /\ path2[i] = After(path2[i - 1], r[i])
             /\ count2[i] = count2[i - 1] + Completes(c, path2[i - 1], path2[i])
  <2>1. CASE i = len + 1
    <3>1. i - 1 = len
      BY <1>1, <2>1
    <3>2. count2[i - 1] = count[len]
      BY <1>1, <1>6, <3>1
    <3>. QED BY <1>1, <1>5, <1>6, <2>1, <3>1, <3>2 DEF e
  <2>2. CASE i # len + 1
    <3>1. i \in 1 .. len /\ i \in 0 .. len /\ i - 1 \in 0 .. len
      BY <1>1, <2>2
    <3>. QED BY <1>1, <1>2, <1>5, <1>6, <3>1 DEF Path, Counts
  <2>. QED BY <2>1, <2>2
<1>8. ASSUME NEW i \in 0 .. len + 1, NEW j \in 0 .. len + 1, i <= j
      PROVE  count2[i] <= count2[j] /\ count2[j] - count2[i] <= j - i
  <2>1. CASE j \in 0 .. len
    <3>1. i \in 0 .. len
      BY <1>1, <1>8, <2>1
    <3>. QED BY <1>2, <1>6, <1>8, <2>1, <3>1 DEF Counts
  <2>2. CASE j = len + 1 /\ i = len + 1
    BY <1>1, <1>3, <1>6, <2>2
  <2>3. CASE j = len + 1 /\ i \in 0 .. len
    <3>1. /\ count[i] <= count[len] /\ count[len] - count[i] <= len - i
          /\ count[i] \in Int /\ count[len] \in Int
      BY <1>1, <1>2, <1>6, <2>3 DEF Counts
    <3>. QED BY <1>1, <1>3, <1>6, <2>3, <3>1
  <2>. QED BY <1>1, <2>1, <2>2, <2>3
<1>9. n + e = count2[len + 1] - count2[0]
  BY <1>1, <1>2, <1>3, <1>6
<1>10. Path(r, physical, next, path2)
  BY <1>1, <1>5, <1>7 DEF Path
<1>11. Counts(r, path2, c, count2)
  BY <1>1, <1>6, <1>7, <1>8 DEF Counts
<1>. QED BY <1>1, <1>9, <1>10, <1>11 DEF Owed, r, e

(* A message is taken: its completion is no longer owed.                   *)
LEMMA OwedShrinks ==
  ASSUME NEW q \in Seq(Message), q # <<>>, NEW physical, NEW keys, NEW c, NEW n,
         Owed(q, physical, keys, c, n), NEW next, next = After(physical, Head(q))
  PROVE  Owed(Tail(q), next, keys, c, n - Completes(c, physical, next))
<1>. DEFINE r == Tail(q)
            len == Len(q)
            e == Completes(c, physical, next)
<1>1. /\ Len(r) = len - 1 /\ len \in Nat \ {0} /\ Head(q) = q[1]
      /\ \A i \in 1 .. len - 1 : i + 1 \in 1 .. len /\ r[i] = q[i + 1]
  BY HeadDropped
<1>2. PICK path, count :
        /\ Path(q, physical, keys, path) /\ Counts(q, path, c, count)
        /\ n = count[len] - count[0]
  BY DEF Owed
<1>. DEFINE path2 == [i \in 0 .. len - 1 |-> path[i + 1]]
            count2 == [i \in 0 .. len - 1 |-> count[i + 1]]
<1>3. e \in {0, 1}
  BY CompletesOnce
<1>. HIDE DEF r, e
<1>4. \A i \in 0 .. len - 1 : i + 1 \in 0 .. len /\ i + 1 \in 1 .. len
  BY <1>1
<1>5. /\ 1 \in 1 .. len /\ len - 1 \in 0 .. len - 1 /\ 0 \in 0 .. len - 1
      /\ len \in 0 .. len /\ 0 \in 0 .. len /\ 1 \in 0 .. len
  BY <1>1
<1>6. path[1] = next /\ count[1] = count[0] + e
  <2>1. path[1] = After(path[1 - 1], q[1]) /\ count[1] = count[1 - 1] + Completes(c, path[1 - 1], path[1])
    BY <1>2, <1>5 DEF Path, Counts
  <2>2. path[0] = physical /\ 1 - 1 = 0
    BY <1>2 DEF Path
  <2>. QED BY <1>1, <2>1, <2>2 DEF e
<1>7. /\ path2 \in [0 .. len - 1 -> SUBSET Keys] /\ path2[0] = next /\ path2[len - 1] = keys
  BY <1>1, <1>2, <1>4, <1>5, <1>6 DEF Path
<1>8. count2 \in [0 .. len - 1 -> Int] /\ count2[0] = count[1] /\ count2[len - 1] = count[len]
  BY <1>1, <1>2, <1>4, <1>5 DEF Counts
<1>9. \A i \in 0 .. len - 1 : path2[i] = path[i + 1] /\ count2[i] = count[i + 1]
  OBVIOUS
<1>. HIDE DEF path2, count2
<1>10. ASSUME NEW i \in 1 .. len - 1
       PROVE  /\ path2[i] = After(path2[i - 1], r[i])
              /\ count2[i] = count2[i - 1] + Completes(c, path2[i - 1], path2[i])
  <2>1. i + 1 \in 1 .. len /\ i \in 0 .. len - 1 /\ i - 1 \in 0 .. len - 1 /\ (i - 1) + 1 = i /\ (i + 1) - 1 = i
    BY <1>1
  <2>2. path2[i] = path[i + 1] /\ count2[i] = count[i + 1] /\ path2[i - 1] = path[i] /\ count2[i - 1] = count[i]
    BY <1>9, <2>1
  <2>3. /\ path[i + 1] = After(path[i], q[i + 1])
        /\ count[i + 1] = count[i] + Completes(c, path[i], path[i + 1])
    BY <1>2, <2>1 DEF Path, Counts
  <2>. QED BY <1>1, <2>2, <2>3
<1>11. ASSUME NEW i \in 0 .. len - 1, NEW j \in 0 .. len - 1, i <= j
       PROVE  count2[i] <= count2[j] /\ count2[j] - count2[i] <= j - i
  <2>1. i + 1 \in 0 .. len /\ j + 1 \in 0 .. len /\ i + 1 <= j + 1 /\ (j + 1) - (i + 1) = j - i
    BY <1>1, <1>11
  <2>2. /\ count[i + 1] <= count[j + 1]
        /\ count[j + 1] - count[i + 1] <= (j + 1) - (i + 1)
    BY <1>2, <2>1 DEF Counts
  <2>. QED BY <1>9, <2>1, <2>2
<1>12. n - e = count2[len - 1] - count2[0]
  <2>1. count[0] \in Int /\ count[len] \in Int
    BY <1>2, <1>5 DEF Counts
  <2>. QED BY <1>2, <1>3, <1>6, <1>8, <2>1
<1>13. Path(r, next, keys, path2)
  BY <1>1, <1>7, <1>10 DEF Path
<1>14. Counts(r, path2, c, count2)
  BY <1>1, <1>8, <1>10, <1>11 DEF Counts
<1>. QED BY <1>1, <1>12, <1>13, <1>14 DEF Owed, r, e

-----------------------------------------------------------------------------
(* What is latched is what matches.                                        *)
(* Latched is what matches, except while keys are waited out or recorded.  *)
Latched(m) ==
  /\ m.waitForRelease \/ m.recording => m.latched = {}
  /\ ~m.waitForRelease /\ ~m.recording => m.latched = Matching(m)

(* Nothing matches when nothing is down.                                   *)
LEMMA NoKeysNoMatch ==
  ASSUME NEW m, Matcher(m), m.physical = {}
  PROVE  Matching(m) = {}
  BY ImageEmpty DEF Matcher, Matching

(* A release completes nothing.                                            *)
LEMMA FewerKeysFewerMatch ==
  ASSUME NEW m, Matcher(m), NEW after, Matcher(after), after.settings = m.settings,
         after.physical \subseteq m.physical
  PROVE  Matching(after) \subseteq Matching(m)
  BY ImageGrows DEF Matcher, Matching

(* An event keeps it so, and fires only what it completes.                 *)
LEMMA LatchedHeard ==
  ASSUME NEW m, Matcher(m), Latched(m), NEW after, NEW actions, HeardBy(m, after, actions)
  PROVE  /\ Latched(after)
         /\ \A a \in actions : a \in Actions =>
              Completes(m.settings[a], m.physical, after.physical) = 1
<1>0. Matcher(after) /\ after.settings = m.settings
  BY DEF HeardBy
<1>1. CASE m.waitForRelease
  BY <1>0, <1>1, NoKeysNoMatch DEF HeardBy, Latched
<1>2. CASE ~m.waitForRelease /\ m.recording
  BY <1>0, <1>2, NoKeysNoMatch DEF HeardBy, Latched
<1>3. CASE ~m.waitForRelease /\ ~m.recording /\ after.physical \subseteq m.physical
  BY <1>0, <1>3, FewerKeysFewerMatch DEF HeardBy, Latched
<1>4. CASE ~m.waitForRelease /\ ~m.recording /\ ~(after.physical \subseteq m.physical)
  <2>1. /\ m.latched = Matching(m) /\ ~after.waitForRelease /\ ~after.recording
        /\ actions = Matching(after) \ m.latched
        /\ after.latched = (m.latched \cap Matching(after)) \cup actions
    BY <1>4 DEF HeardBy, Latched
  <2>2. Latched(after)
    BY <2>1 DEF Latched
  <2>3. ASSUME NEW a \in actions, a \in Actions
        PROVE  Completes(m.settings[a], m.physical, after.physical) = 1
    <3>1. a \in Matching(after) /\ a \notin Matching(m)
      BY <2>1
    <3>. QED BY <1>0, <3>1 DEF Matching, Completes, Matcher
  <2>. QED BY <2>2, <2>3
<1>. QED BY <1>1, <1>2, <1>3, <1>4

(* Latched is kept by every effect.                                        *)
LEMMA LatchedStep ==
  ASSUME Typed, pc = Idle => Latched(matcher), Moves
  PROVE  pc' = Idle => Latched(matcher')
<1>1. ASSUME NEW m \in Message, Strikes(m) PROVE pc' = Idle => Latched(matcher')
  BY <1>1 DEF Strikes
<1>2. CASE ModeChanges
  BY <1>2 DEF ModeChanges
<1>3. CASE Resumes
  BY <1>3, NoKeysNoMatch DEF Resumes, Waits, Latched
<1>4. CASE Stands
  BY <1>4 DEF Stands
<1>5. CASE Skips
  <2>1. /\ matcher'.down = matcher.down /\ matcher'.settings = matcher.settings
        /\ matcher'.latched = matcher.latched
        /\ matcher'.waitForRelease = matcher.waitForRelease
        /\ matcher'.recording = matcher.recording
    BY <1>5, SettledIs DEF Skips, Typed, Matcher
  <2>. QED BY <1>5, <2>1 DEF Skips, Latched, Matching
<1>6. ASSUME NEW actions, Hears(actions) PROVE pc' = Idle => Latched(matcher')
  BY <1>6, LatchedHeard DEF Hears, Typed
<1>. QED BY <1>1, <1>2, <1>3, <1>4, <1>5, <1>6 DEF Moves

-----------------------------------------------------------------------------
(* No action without a completion.                                         *)
(* Whatever the messages still complete is counted and not acted upon.     *)
Counted ==
  /\ NeverRepeats
  /\ pc = Idle =>
       \A a \in Actions : \E n :
         Owed(posted, matcher.physical, keyboard, matcher.settings[a], n) /\ n <= credit[a]

(* A completion by hand is counted as often as it will be heard.           *)
LEMMA CountedStrikes ==
  ASSUME Typed, Counted, Typed', desk' = desk, NEW m \in Message, Strikes(m)
  PROVE  Counted'
<1>1. CreditCap \in Nat /\ desk.queue \in Nat /\ CreditCap = desk.queue + 1
  BY DEF Typed, CreditCap, DeskRecord
<1>2. ASSUME NEW a \in Actions
      PROVE  /\ credit'[a] >= 0
             /\ pc' = Idle => \E n :
                  /\ Owed(posted', matcher'.physical, keyboard', matcher'.settings[a], n)
                  /\ n <= credit'[a]
  <2>1. PICK e \in {0, 1} : /\ credit'[a] = Min({credit[a] + e, CreditCap})
                            /\ pc = Idle => e = Completes(matcher.settings[a], keyboard, keyboard')
    BY <1>2 DEF Strikes
  <2>2. credit[a] \in Int /\ credit[a] >= 0 /\ credit[a] + e \in Int
    BY <2>1 DEF Typed, Counted, NeverRepeats
  <2>3. credit'[a] = IF credit[a] + e <= CreditCap THEN credit[a] + e ELSE CreditCap
    BY <1>1, <2>1, <2>2, MinOfTwo
  <2>4. ASSUME pc' = Idle
        PROVE  \E n : /\ Owed(posted', matcher'.physical, keyboard', matcher'.settings[a], n)
                      /\ n <= credit'[a]
    <3>1. /\ pc = Idle /\ matcher' = matcher /\ m.current /\ keyboard' = After(keyboard, m)
          /\ posted' = Append(posted, m)
      BY <2>4, PcShapes DEF Strikes, Typed
    <3>2. PICK n : Owed(posted, matcher.physical, keyboard, matcher.settings[a], n) /\ n <= credit[a]
      BY <3>1 DEF Counted
    <3>3. n \in Nat
      BY <3>2, OwedBounds DEF Typed
    <3>4. Owed(posted', matcher.physical, keyboard', matcher.settings[a], n + e)
      BY <2>1, <3>1, <3>2, OwedGrows DEF Typed
    <3>5. n + e <= Len(posted') /\ Len(posted') \in Nat /\ Len(posted') <= desk.queue
      <4>1. posted' \in Seq(Message) /\ Len(posted') <= desk.queue
        BY DEF Typed
      <4>. QED BY <3>4, <4>1, OwedBounds
    <3>6. n + e <= credit'[a]
      BY <1>1, <2>1, <2>2, <2>3, <3>2, <3>3, <3>5
    <3>7. Owed(posted', matcher'.physical, keyboard', matcher'.settings[a], n + e)
      BY <3>1, <3>4
    <3>. QED BY <3>6, <3>7
  <2>. QED BY <1>1, <2>1, <2>2, <2>3, <2>4
<1>. QED BY <1>2 DEF Counted, NeverRepeats

(* An action takes one of the completions that message brought.            *)
LEMMA CountedHears ==
  ASSUME Typed, Counted, Latched(matcher), NEW actions, Hears(actions)
  PROVE  Counted'
<1>1. ASSUME NEW a \in Actions
      PROVE  /\ credit'[a] >= 0
             /\ \E n : /\ Owed(posted', matcher'.physical, keyboard', matcher'.settings[a], n)
                       /\ n <= credit'[a]
  <2>. DEFINE e == Completes(matcher.settings[a], matcher.physical, matcher'.physical)
              d == IF a \in executed' THEN 1 ELSE 0
  <2>1. PICK n : Owed(posted, matcher.physical, keyboard, matcher.settings[a], n) /\ n <= credit[a]
    BY DEF Counted, Hears
  <2>2. /\ posted \in Seq(Message) /\ posted # <<>> /\ posted' = Tail(posted)
        /\ keyboard' = keyboard /\ matcher'.settings = matcher.settings
        /\ matcher'.physical = After(matcher.physical, Head(posted))
        /\ executed' \subseteq actions
    BY DEF Hears, HeardBy, Unmoved, Typed
  <2>3. Owed(posted', matcher'.physical, keyboard', matcher'.settings[a], n - e)
    BY <2>1, <2>2, OwedShrinks
  <2>4. posted' \in Seq(Message)
    BY <2>2, HeadDropped
  <2>5. n - e \in Nat /\ n \in Nat
    BY <2>1, <2>2, <2>3, <2>4, OwedBounds
  <2>6. e \in {0, 1} /\ d \in {0, 1} /\ (d = 1 => e = 1)
    <3>1. a \in executed' => e = 1
      BY <2>2, LatchedHeard DEF Hears, Typed
    <3>. QED BY <3>1, CompletesOnce
  <2>7. credit'[a] = credit[a] - d /\ credit[a] \in Int
    BY DEF Hears, Typed
  <2>. HIDE DEF e, d
  <2>8. n - e <= credit'[a] /\ credit'[a] >= 0
    BY <2>1, <2>5, <2>6, <2>7
  <2>. QED BY <2>3, <2>8
<1>. QED BY <1>1 DEF Counted, NeverRepeats

(* A stale message brings none.                                            *)
LEMMA CountedSkips ==
  ASSUME Typed, Counted, Skips
  PROVE  Counted'
<1>1. /\ posted \in Seq(Message) /\ posted # <<>> /\ posted' = Tail(posted)
      /\ keyboard' = keyboard /\ credit' = credit
      /\ After(matcher.physical, Head(posted)) = matcher.physical
  BY DEF Skips, Unmoved, Typed, After
<1>2. matcher'.physical = matcher.physical /\ matcher'.settings = matcher.settings
  BY SettledIs DEF Skips, Typed, Matcher
<1>3. ASSUME NEW a \in Actions
      PROVE  \E n : /\ Owed(posted', matcher'.physical, keyboard', matcher'.settings[a], n)
                    /\ n <= credit'[a]
  <2>1. PICK n : Owed(posted, matcher.physical, keyboard, matcher.settings[a], n) /\ n <= credit[a]
    BY DEF Counted, Skips
  <2>2. n \in Nat
    BY <1>1, <2>1, OwedBounds
  <2>3. Completes(matcher.settings[a], matcher.physical, matcher.physical) = 0
    BY DEF Completes
  <2>4. Owed(Tail(posted), matcher.physical, keyboard, matcher.settings[a], n - 0)
    BY <1>1, <2>1, <2>3, OwedShrinks
  <2>5. n - 0 = n
    BY <2>2
  <2>. QED BY <1>1, <1>2, <2>1, <2>4, <2>5
<1>. QED BY <1>1, <1>3 DEF Counted, NeverRepeats

(* Counted is kept by every effect.                                        *)
LEMMA CountedStep ==
  ASSUME Typed, Held, Known, pc = Idle => Latched(matcher), Counted, Moves, Typed', desk' = desk
  PROVE  Counted'
<1>1. ASSUME NEW m \in Message, Strikes(m) PROVE Counted'
  BY <1>1, CountedStrikes
<1>2. CASE ModeChanges
  BY <1>2 DEF ModeChanges, Counted, NeverRepeats
<1>3. CASE Resumes
  <2>1. /\ posted' \in Seq(Message) /\ NoNews(posted') /\ keyboard' \in SUBSET Keys
        /\ matcher'.physical = keyboard' /\ credit' = credit
    BY <1>3 DEF Resumes, Known, Typed, Waits, Unmoved
  <2>2. \A c : Owed(posted', matcher'.physical, keyboard', c, 0)
    BY <2>1, OwedStale
  <2>3. \A a \in Actions : 0 <= credit'[a] /\ credit'[a] >= 0
    BY <2>1 DEF Counted, NeverRepeats, Typed
  <2>. QED BY <2>2, <2>3 DEF Counted, NeverRepeats
<1>4. CASE Stands
  BY <1>4 DEF Stands, Counted, NeverRepeats, Unmoved
<1>5. CASE Skips
  BY <1>5, CountedSkips
<1>6. ASSUME NEW actions, Hears(actions) PROVE Counted'
  BY <1>6, CountedHears DEF Hears
<1>. QED BY <1>1, <1>2, <1>3, <1>4, <1>5, <1>6 DEF Moves

(* What makes NeverRepeats inductive.                                      *)
CountInv ==
  /\ HeldInv
  /\ NeverRepeats
  /\ ~desk.lossy => Known /\ (pc = Idle => Latched(matcher)) /\ Counted

(* Where inputs are not lost, GetAsyncKeyState keeps up with the hooks and *)
(* no key moves between the two steps of synchronizeInput.                 *)
Calm == \A d \in Desks : d.lossy \/ ~(d.lags \/ d.during)

(* The matcher and the messages agree with what the hands did.             *)
LEMMA CountInvHolds ==
  ASSUME Calm
  PROVE  HistorySpec => []CountInv
<1>1. HistoryInit => CountInv
  <2>. SUFFICES ASSUME HistoryInit PROVE CountInv
    OBVIOUS
  <2>1. HeldInv /\ Known
    BY InitTyped, PcShapes DEF HeldInv, Known, Changing
  <2>2. NeverRepeats /\ Counted
    BY InitTyped DEF Counted, NeverRepeats
  <2>. QED BY <2>1, <2>2, InitTyped DEF CountInv
<1>2. HeldInv /\ CountInv /\ HeldInv' /\ [HistoryNext]_historyVars => CountInv'
  <2>. SUFFICES ASSUME HeldInv, CountInv, HeldInv', [HistoryNext]_historyVars PROVE CountInv'
    OBVIOUS
  <2>1. CASE HistoryNext
    <3>1. desk' = desk /\ desk \in Desks /\ (desk.lossy => credit' = credit)
      BY <2>1, DeskStays DEF HeldInv
    <3>2. CASE desk.lossy
      BY <3>1, <3>2 DEF CountInv, NeverRepeats
    <3>3. CASE ~desk.lossy
      <4>1. Typed /\ Held /\ ~desk.lags /\ ~desk.during
        BY <3>1, <3>3 DEF HeldInv, Calm
      <4>2. Typed' /\ Moves
        BY <2>1, <3>3, <4>1, NextMoves
      <4>3. Known'
        BY <3>3, <4>1, <4>2, KnownStep DEF CountInv
      <4>4. pc' = Idle => Latched(matcher')
        BY <3>3, <4>1, <4>2, LatchedStep DEF CountInv
      <4>5. Counted'
        BY <3>1, <3>3, <4>1, <4>2, CountedStep DEF CountInv
      <4>. QED BY <4>3, <4>4, <4>5 DEF CountInv, Counted
    <3>. QED BY <3>2, <3>3
  <2>2. CASE UNCHANGED historyVars
    <3>1. UNCHANGED <<matcher, posted, pc, ui, keyboard, desk, heldOver, pressed, credit>>
      BY <2>2 DEF historyVars, vars, listener, input
    <3>2. CASE desk.lossy
      BY <3>1, <3>2 DEF CountInv, NeverRepeats
    <3>3. CASE ~desk.lossy
      <4>1. Known' /\ (pc' = Idle => Latched(matcher')) /\ Counted'
        BY <3>1, <3>3 DEF CountInv, Known, Counted, NeverRepeats
      <4>. QED BY <4>1 DEF CountInv, Counted
    <3>. QED BY <3>2, <3>3
  <2>. QED BY <2>1, <2>2
<1>3. HistorySpec => []HeldInv
  BY HeldInvHolds DEF Calm
<1>. QED BY <1>1, <1>2, <1>3, PTL DEF HistorySpec

(* An action is executed at most once for each time its combination was    *)
(* completed: neither a repeated key nor a change of mode fires it again   *)
(* (latched, and the generation of messages).  With keys moving during     *)
(* synchronizeInput a repeat posted after the first step, of a key let go  *)
(* before the second, would be heard as a press.                           *)
THEOREM NeverRepeatsHolds ==
  ASSUME Calm
  PROVE  HistorySpec => []NeverRepeats
<1>1. CountInv => NeverRepeats
  BY DEF CountInv
<1>. QED BY <1>1, CountInvHolds, PTL

-----------------------------------------------------------------------------
(* What is recorded.                                                       *)
(* Only the last event of a recording saves a combination.                 *)
LEMMA OnlyInputSaves ==
  ASSUME Typed, Held, Next, pc = Idle, pc'.op = "apply", ui'.recordAction # ui.recordAction
  PROVE  InputMessage /\ Head(posted).current
<1>1. pc' # pc /\ pc'.op # "record" /\ pc'.op # "synchronize"
  BY PcShapes
<1>2. ~Input
  BY <1>1 DEF Input, AsyncFollows, PressOrRelease, AutoRepeat
<1>3. ~Synchronized /\ ~Applied /\ ~RecordBegun
  BY PcShapes DEF Synchronized, Applied, RecordBegun
<1>4. ~Timer
  BY NothingMissed DEF Timer
<1>5. ~Calls
  <2>1. ~Open /\ ~Close
    BY <1>1, PcShapes DEF Open, Close
  <2>2. ~cancelRecording /\ \A a : ~recordBinding(a)
    BY <1>1 DEF cancelRecording, recordBinding, Synchronize
  <2>3. \A next : ~UpdateHotkeyPause(next)
    BY <1>1 DEF UpdateHotkeyPause, Synchronize, NoSynchronize
  <2>4. \A on : ~setInputPaused(on) /\ ~setHotkeysEnabled(on)
    BY <2>3 DEF setInputPaused, setHotkeysEnabled
  <2>5. \A a, on : ~setBindingEnabled(a, on)
    BY <1>1 DEF setBindingEnabled
  <2>6. \A a : ~clearBinding(a)
    BY DEF clearBinding
  <2>. QED BY <2>1, <2>2, <2>4, <2>5, <2>6 DEF Calls
<1>6. InputMessage
  BY <1>2, <1>3, <1>4, <1>5 DEF Next, Delivery
<1>7. Head(posted).current
  BY <1>1, <1>6 DEF InputMessage, DeliverInput, NoSynchronize, Typed
<1>. QED BY <1>6, <1>7

(* It saves what was recorded, and that was pressed.                       *)
LEMMA SavedIsRecorded ==
  ASSUME Typed, Held, Known, ~desk.lossy, Remember, InputMessage, Head(posted).current,
         pc = Idle, pc'.op = "apply"
  PROVE  /\ ui'.recordAction = NoAction
         /\ ui.recordAction \in Actions =>
              pc'.settings[ui.recordAction] \subseteq Image(pressed)
<1>. DEFINE heard == hotkeyMatcherInput(matcher, Head(posted).key, Head(posted).down)
<1>1. /\ heard.matcher.recorded \subseteq matcher.recorded \cup Image(heard.matcher.physical)
      /\ heard.matcher.physical = After(matcher.physical, Head(posted))
      /\ matcher.waitForRelease => heard.matcher.recorded \subseteq matcher.recorded
  BY CurrentHeard
<1>2. DeliverInput(Tail(posted), heard.matcher, heard.actions)
  BY DEF InputMessage
<1>. HIDE DEF heard
<1>3. heard.matcher.recorded \subseteq Image(pressed)
  <2>1. matcher.recorded \subseteq Image(pressed)
    BY DEF Known
  <2>2. CASE ~matcher.waitForRelease
    <3>1. heard.matcher.physical \subseteq pressed
      BY <1>1, <2>2, PendingShrinks DEF Known, Typed, InputMessage
    <3>2. Image(heard.matcher.physical) \subseteq Image(pressed)
      BY <3>1, ImageGrows
    <3>. QED BY <1>1, <2>1, <3>2
  <2>. QED BY <1>1, <2>1, <2>2
<1>4. pc' # pc /\ Tail(posted) \in Seq(Message)
  BY PcShapes, HeadDropped DEF Typed, InputMessage
<1>5. SaveBinding(Tail(posted), ui.recordAction, heard.matcher.recorded)
  BY <1>2, <1>4 DEF DeliverInput, NoSynchronize
<1>6. pc' = Applying([ui.keys EXCEPT ![ui.recordAction] = heard.matcher.recorded])
  BY <1>4, <1>5, SaveSynchronizes
<1>7. pc'.settings = [ui.keys EXCEPT ![ui.recordAction] = heard.matcher.recorded]
  BY <1>6, PcShapes
<1>8. DOMAIN ui.keys = Actions
  BY DEF Typed, UiTyped
<1>9. ui' = [ui EXCEPT !.recordAction = NoAction] /\ DOMAIN ui = UiFields
  BY <1>2, <1>4 DEF DeliverInput, NoSynchronize, Typed, UiTyped
<1>10. ui'.recordAction = NoAction
  BY <1>9 DEF UiFields
<1>. QED BY <1>3, <1>7, <1>8, <1>10

(* Every key of a recorded combination was pressed after the recording     *)
(* began: the click that opened it is not among them.                      *)
THEOREM RecordedIsPressedHolds ==
  ASSUME Calm
  PROVE  HistorySpec => RecordedIsPressed
<1>1. CountInv /\ [HistoryNext]_historyVars =>
        [~desk.lossy /\ pc = Idle /\ pc'.op = "apply" /\ ui'.recordAction # ui.recordAction =>
           pc'.settings[ui.recordAction] \subseteq {normalize[k] : k \in pressed}]_historyVars
  <2>. SUFFICES ASSUME CountInv, HistoryNext, ~desk.lossy, pc = Idle, pc'.op = "apply",
                       ui'.recordAction # ui.recordAction
                PROVE  pc'.settings[ui.recordAction] \subseteq {normalize[k] : k \in pressed}
    OBVIOUS
  <2>1. Typed /\ Held /\ Known
    BY DEF CountInv, HeldInv
  <2>2. InputMessage /\ Head(posted).current
    BY <2>1, OnlyInputSaves DEF HistoryNext
  <2>3. Remember
    BY DEF HistoryNext
  <2>4. ui'.recordAction = NoAction
    BY <2>1, <2>2, <2>3, SavedIsRecorded
  <2>5. ui.recordAction \in Actions
    <3>1. ui.recordAction \in Actions \cup {NoAction}
      BY <2>1 DEF Typed, UiTyped
    <3>. QED BY <2>4, <3>1
  <2>. QED BY <2>1, <2>2, <2>3, <2>5, SavedIsRecorded DEF Image
<1>. QED BY <1>1, CountInvHolds, PTL DEF HistorySpec, RecordedIsPressed
=============================================================================
