--------------------------- MODULE LiveRunner_proofs ---------------------------
(***************************************************************************)
(* The shutdown of LiveRunner, the order of its events and the failures it *)
(* gives the stream up for, for any failure window and any backlog.        *)
(***************************************************************************)
EXTENDS LiveRunner, SequenceTheorems, FiniteSetTheorems, WellFoundedInduction,
        TLAPS

\* ---- Numbers round a ring -------------------------------------------------

\* Euclid's division.
LEMMA DivMod ==
    ASSUME NEW x \in Nat, NEW r \in Nat \ {0}
    PROVE  /\ x \div r \in Nat /\ x % r \in 0..(r - 1)
           /\ x = r * (x \div r) + (x % r)
<1>1. x \div r \in Int /\ x % r \in 0..(r - 1)
  OBVIOUS
<1>2. x = r * (x \div r) + (x % r)
  OBVIOUS
<1>3. x \div r >= 0
  OBVIOUS
<1> QED
  BY <1>1, <1>2, <1>3

\* A number is divided with a remainder in one way only.
LEMMA ModUnique ==
    ASSUME NEW r \in Nat \ {0}, NEW q \in Nat, NEW m \in 0..(r - 1)
    PROVE  (r * q + m) % r = m
<1> DEFINE y == r * q + m
           p == y \div r
           n == y % r
<1>1. y \in Nat
  <2>1. r * q \in Nat
    OBVIOUS
  <2> QED
    BY <2>1
<1>2. p \in Nat /\ n \in 0..(r - 1) /\ y = r * p + n
  <2> HIDE DEF y
  <2> QED
    BY <1>1, DivMod
<1>3. y = r * q + m
  OBVIOUS
<1> HIDE DEF y, p, n
<1> DEFINE d == q - p
<1>4. d \in Int /\ r * d = r * q - r * p
  BY <1>2
<1>5. r * d = n - m
  <2>1. r * q \in Int /\ r * p \in Int
    BY <1>2
  <2> QED
    BY <1>2, <1>3, <1>4, <2>1
<1> HIDE DEF d
<1>6. d = 0
  <2>1. n - m < r /\ n - m > -r
    BY <1>2
  <2>2. d >= 1 => r * d >= r
    BY <1>4
  <2>3. d <= -1 => r * d <= -r
    BY <1>4
  <2> QED
    BY <1>2, <1>4, <1>5, <2>1, <2>2, <2>3
<1>7. r * d = 0
  BY <1>6
<1>8. n = m
  BY <1>2, <1>5, <1>7
<1> QED
  BY <1>8 DEF n, y

LEMMA ModAdd ==
    ASSUME NEW x \in Nat, NEW r \in Nat \ {0}
    PROVE  (x + r) % r = x % r
<1> DEFINE q == x \div r
           m == x % r
<1>1. q \in Nat /\ m \in 0..(r - 1) /\ x = r * q + m
  BY DivMod
<1> HIDE DEF q, m
<1>2. x + r = r * (q + 1) + m /\ q + 1 \in Nat
  BY <1>1
<1>3. (r * (q + 1) + m) % r = m
  BY <1>1, <1>2, ModUnique
<1> QED
  BY <1>2, <1>3 DEF m

\* The next number round a ring.
LEMMA ModSucc ==
    ASSUME NEW x \in Nat, NEW r \in Nat \ {0}
    PROVE  ((x % r) + 1) % r = (x + 1) % r
<1> DEFINE q == x \div r
           m == x % r
<1>1. q \in Nat /\ m \in 0..(r - 1) /\ x = r * q + m
  BY DivMod
<1> HIDE DEF q, m
<1>2. CASE m + 1 < r
  <2>1. x + 1 = r * q + (m + 1) /\ m + 1 \in 0..(r - 1)
    <3>1. r * q \in Int
      BY <1>1
    <3> QED
      BY <1>1, <1>2, <3>1
  <2>2. (x + 1) % r = m + 1
    BY <1>1, <2>1, ModUnique
  <2>3. (r * 0 + (m + 1)) % r = m + 1
    BY <2>1, ModUnique
  <2> QED
    BY <1>1, <2>2, <2>3 DEF m
<1>3. CASE m + 1 = r
  <2>1. x + 1 = r * (q + 1) + 0 /\ q + 1 \in Nat
    BY <1>1, <1>3
  <2>2. (x + 1) % r = 0
    <3>1. 0 \in 0..(r - 1)
      OBVIOUS
    <3>2. (r * (q + 1) + 0) % r = 0
      BY <2>1, <3>1, ModUnique
    <3> QED
      BY <2>1, <3>2
  <2>3. (r * 1 + 0) % r = 0
    BY ModUnique
  <2> QED
    BY <1>3, <2>2, <2>3 DEF m
<1> QED
  BY <1>1, <1>2, <1>3

LEMMA ModSmall ==
    ASSUME NEW r \in Nat \ {0}, NEW x \in 0..(r - 1)
    PROVE  x % r = x
OBVIOUS

\* A set of naturals has a least member.
LEMMA SmallestMember ==
    ASSUME NEW T \in SUBSET Nat, T # {}
    PROVE  \E n \in T : \A m \in T : n <= m
<1>1. PICK n \in T : \A m \in T : <<m, n>> \notin OpToRel(<, Nat)
  BY NatLessThanWellFounded, WFMin
<1>2. \A m \in T : ~(m < n)
  BY <1>1 DEF OpToRel
<1> QED
  BY <1>2

\* ---- The shutdown ---------------------------------------------------------

\* Once the shutdown began the consumer has no turn and cannot be woken, and a
\* process that is down has left nothing to run.
ShutdownInv ==
    /\ proc \in {"down", "running", "stopping", "closed"}
    /\ proc # "running" => turn = "loop"
    /\ proc \in {"stopping", "closed"} => consumer \in {"ended", "cancelled"}
    /\ proc = "down" => ready = <<>> /\ producer = "none" /\ expected = 0

LEMMA ShutdownInit == Init => ShutdownInv
BY DEF Init, ShutdownInv

\* The thread has no access to the tasks, and there is none when the process is
\* down.
LEMMA ShutdownThread ==
    ASSUME ShutdownInv, Thread \/ StreamFails \/ StreamEnds \/ StreamRaises
    PROVE  ShutdownInv' /\ expected' = expected
<1>1. proc # "down"
  BY DEF ShutdownInv, Thread, Connected, Event, Post, Retry, StreamFails,
     StreamEnds, StreamRaises
<1>2. UNCHANGED <<proc, turn, consumer, expected>>
  BY DEF Thread, Connected, Event, Post, Retry, StreamFails, StreamEnds,
     StreamRaises, loop, numbers
<1> QED
  BY <1>1, <1>2 DEF ShutdownInv

LEMMA ShutdownLoop ==
    ASSUME ShutdownInv, Loop
    PROVE  ShutdownInv' /\ (expected' # expected => proc = "running")
<1>1. proc # "down"
  <2>1. turn = "consumer" \/ ready # <<>>
    BY DEF Loop, RunPut, RunConsumer, Handle, SeeDead, RunWatchdog, RunMain,
       IsNext
  <2> QED
    BY <2>1 DEF ShutdownInv
<1>2. CASE RunPut
  BY <1>1, <1>2 DEF RunPut, ShutdownInv, thread, numbers
<1>3. CASE RunConsumer
  BY <1>1, <1>3 DEF RunConsumer, ShutdownInv, thread, numbers
<1>4. CASE Handle
  BY <1>1, <1>4 DEF Handle, ShutdownInv, thread
<1>5. CASE SeeDead
  BY <1>1, <1>5 DEF SeeDead, ShutdownInv, thread, numbers
<1>6. CASE RunWatchdog
  BY <1>1, <1>6 DEF RunWatchdog, ShutdownInv, thread, numbers
<1>7. CASE RunMain
  BY <1>1, <1>7 DEF RunMain, IsNext, ShutdownInv, thread, numbers
<1> QED
  BY <1>2, <1>3, <1>4, <1>5, <1>6, <1>7 DEF Loop

LEMMA ShutdownStep ==
    ASSUME ShutdownInv, [Next]_vars
    PROVE  /\ ShutdownInv'
           /\ expected' # expected /\ proc' # "down" => proc = "running"
<1>1. CASE Thread \/ StreamFails \/ StreamEnds \/ StreamRaises
  BY <1>1, ShutdownThread
<1>2. CASE Loop
  BY <1>2, ShutdownLoop
<1>3. CASE Tick
  BY <1>3 DEF Tick, ShutdownInv, loop, numbers
<1>4. CASE WatchdogDue
  BY <1>4 DEF WatchdogDue, ShutdownInv, thread, numbers
<1>5. CASE RuntimeOver
  BY <1>5 DEF RuntimeOver, ShutdownInv, thread, numbers
<1>6. CASE CloseLoop
  BY <1>6 DEF CloseLoop, ShutdownInv, thread, numbers
<1>7. CASE Exit \/ Crash
  BY <1>7 DEF Exit, Crash, Gone, ShutdownInv
<1>8. CASE Start
  BY <1>8 DEF Start, Fresh, ShutdownInv
<1>9. CASE Weather
  BY <1>9 DEF Weather, ShutdownInv, loop, thread, numbers
<1>10. CASE UNCHANGED vars
  BY <1>10 DEF vars, ShutdownInv, loop, thread, numbers
<1> QED
  BY <1>1, <1>2, <1>3, <1>4, <1>5, <1>6, <1>7, <1>8, <1>9, <1>10 DEF Next

\* NoEventInShutdown, the promise of run_live's last part: however many events
\* are queued, however late the thread hands one over, none is handled after
\* the stop event is set.
THEOREM QuietShutdown == Spec => NoEventInShutdown
<1>1. ShutdownInv /\ [Next]_vars => ShutdownInv'
  BY ShutdownStep
<1>2. ShutdownInv /\ [Next]_vars
        => [expected' # expected /\ proc' # "down" => proc = "running"]_vars
  BY ShutdownStep
<1> QED
  BY <1>1, <1>2, ShutdownInit, PTL DEF Spec, NoEventInShutdown

\* ---- The line of events ---------------------------------------------------

Callback ==
    [task : {"consumer", "watchdog", "main", "put"}, item : 0..Ring]

\* From the head of the queue q to the last callback of r the events are
\* numbered on from e, the next one being s unless the thread is dead; before
\* says how many come before each callback.
Numbered(r, q, e, s, dead, before) ==
    /\ before[1] = Len(q)
    /\ \A n \in 1..Len(r) :
          before[n + 1] = before[n] + (IF r[n].task = "put" THEN 1 ELSE 0)
    /\ \A n \in 1..Len(q) : q[n] \in {Dead, (e + (n - 1)) % Ring}
    /\ \A n \in 1..Len(r) :
          r[n].task = "put" => r[n].item \in {Dead, (e + before[n]) % Ring}
    /\ dead \/ s = (e + before[Len(r) + 1]) % Ring

InLine(r, q, e, s, dead) ==
    \E before \in [1..(Len(r) + 1) -> Nat] : Numbered(r, q, e, s, dead, before)

LEMMA RingType == Ring \in Nat \ {0} /\ Ring \in Nat /\ Dead = Ring
BY RunnerAssumption DEF RunnerAssumption, Ring, Dead

LEMMA NobodyInLine ==
    ASSUME NEW dead
    PROVE  InLine(<<>>, <<>>, 0, 0, dead)
<1> DEFINE before == [n \in 1..1 |-> 0]
<1>1. before \in [1..(Len(<<>>) + 1) -> Nat] /\ Len(<<>>) = 0
  OBVIOUS
<1>2. before[1] = 0 /\ 0 % Ring = 0
  BY RingType, ModSmall
<1>3. Numbered(<<>>, <<>>, 0, 0, dead, before)
  BY <1>1, <1>2 DEF Numbered
<1> QED
  BY <1>1, <1>3 DEF InLine

\* A callback goes to the end of the line.
LEMMA LineUp ==
    ASSUME NEW r \in Seq(Callback), NEW q \in Seq(0..Ring), NEW e \in Nat,
           NEW s \in Nat, NEW dead \in BOOLEAN, InLine(r, q, e, s, dead),
           NEW c \in Callback, NEW next, NEW over \in BOOLEAN,
           c.task = "put" => c.item = Dead \/ (c.item = s /\ ~dead),
           over \/ (~dead /\ next = IF c.task = "put" THEN (s + 1) % Ring ELSE s)
    PROVE  InLine(Append(r, c), q, e, next, over)
<1> DEFINE k == Len(r) + 1
           longer == Append(r, c)
<1>1. PICK before \in [1..k -> Nat] : Numbered(r, q, e, s, dead, before)
  BY DEF InLine
<1>2. k \in Nat \ {0} /\ k - 1 = Len(r)
  BY LenProperties
<1>3. /\ Len(longer) = k /\ longer[k] = c
      /\ \A n \in 1..(k - 1) : longer[n] = r[n]
  BY <1>2, AppendProperties
<1> DEFINE last == before[k] + (IF c.task = "put" THEN 1 ELSE 0)
           after == [n \in 1..(k + 1) |-> IF n \in 1..k THEN before[n] ELSE last]
<1>4. before[k] \in Nat
  BY <1>1, <1>2
<1>5. /\ after \in [1..(k + 1) -> Nat]
      /\ \A n \in 1..k : after[n] = before[n]
      /\ after[k + 1] = last
  BY <1>1, <1>2, <1>4
<1>6. dead \/ s = (e + before[k]) % Ring
  BY <1>1 DEF Numbered
<1>7. over \/ next = (e + after[k + 1]) % Ring
  <2>1. CASE c.task = "put"
    <3>1. after[k + 1] = before[k] + 1
      BY <1>5, <2>1
    <3>2. e + before[k] \in Nat
      BY <1>4
    <3>3. (((e + before[k]) % Ring) + 1) % Ring = ((e + before[k]) + 1) % Ring
      BY <3>2, RingType, ModSucc
    <3>4. e + after[k + 1] = (e + before[k]) + 1
      BY <1>4, <3>1
    <3>5. over \/ next = (s + 1) % Ring
      BY <2>1
    <3>6. over \/ ~dead
      OBVIOUS
    <3> QED
      BY <1>6, <3>3, <3>4, <3>5, <3>6
  <2>2. CASE c.task # "put"
    <3>1. after[k + 1] = before[k]
      BY <1>4, <1>5, <2>2
    <3> QED
      BY <1>6, <2>2, <3>1
  <2> QED
    BY <2>1, <2>2
<1> HIDE DEF longer, after
<1>8. \A n \in 1..Len(longer) :
         after[n + 1] = after[n] + (IF longer[n].task = "put" THEN 1 ELSE 0)
  <2> SUFFICES ASSUME NEW n \in 1..k
               PROVE  after[n + 1]
                        = after[n] + (IF longer[n].task = "put" THEN 1 ELSE 0)
    BY <1>3
  <2>1. CASE n = k
    BY <1>2, <1>3, <1>5, <2>1
  <2>2. CASE n # k
    <3>1. n \in 1..(k - 1) /\ n + 1 \in 1..k
      BY <1>2, <2>2
    <3>2. before[n + 1] = before[n] + (IF r[n].task = "put" THEN 1 ELSE 0)
      BY <1>1, <1>2, <3>1 DEF Numbered
    <3> QED
      BY <1>3, <1>5, <3>1, <3>2
  <2> QED
    BY <2>1, <2>2
<1>9. \A n \in 1..Len(longer) :
         longer[n].task = "put" => longer[n].item \in {Dead, (e + after[n]) % Ring}
  <2> SUFFICES ASSUME NEW n \in 1..k, longer[n].task = "put"
               PROVE  longer[n].item \in {Dead, (e + after[n]) % Ring}
    BY <1>3
  <2>1. CASE n = k
    BY <1>2, <1>3, <1>5, <1>6, <2>1
  <2>2. CASE n # k
    <3>1. n \in 1..(k - 1)
      BY <1>2, <2>2
    <3> QED
      BY <1>1, <1>2, <1>3, <1>5, <3>1 DEF Numbered
  <2> QED
    BY <2>1, <2>2
<1>10. after[1] = Len(q) /\ \A n \in 1..Len(q) : q[n] \in {Dead, (e + (n - 1)) % Ring}
  BY <1>1, <1>2, <1>5 DEF Numbered
<1>11. Numbered(longer, q, e, next, over, after)
  BY <1>3, <1>7, <1>8, <1>9, <1>10 DEF Numbered
<1> QED
  BY <1>3, <1>5, <1>11 DEF InLine, longer

\* The first callback is run: a put moves its event to the end of the queue.
LEMMA LineMoves ==
    ASSUME NEW r \in Seq(Callback), NEW q \in Seq(0..Ring), NEW e \in Nat,
           NEW s \in Nat, NEW dead, InLine(r, q, e, s, dead), r # <<>>,
           NEW queued,
           IF Head(r).task = "put" THEN queued = Append(q, Head(r).item)
                                   ELSE queued = q
    PROVE  InLine(Tail(r), queued, e, s, dead)
<1> DEFINE k == Len(r)
           rest == Tail(r)
<1>1. PICK before \in [1..(k + 1) -> Nat] : Numbered(r, q, e, s, dead, before)
  BY DEF InLine
<1>2. /\ k \in Nat \ {0} /\ Len(rest) = k - 1 /\ Len(q) \in Nat
      /\ \A n \in 1..(k - 1) : rest[n] = r[n + 1]
      /\ Head(r) = r[1] /\ r[1] \in Callback
  BY EmptySeq, LenProperties, HeadTailProperties
<1> DEFINE after == [n \in 1..k |-> before[n + 1]]
<1>3. after \in [1..k -> Nat]
  BY <1>1, <1>2
<1>4. /\ before[1] = Len(q)
      /\ before[2] = before[1] + (IF r[1].task = "put" THEN 1 ELSE 0)
      /\ r[1].task = "put" => r[1].item \in {Dead, (e + Len(q)) % Ring}
  <2>1. 1 \in 1..Len(r) /\ 1 + 1 = 2
    BY <1>2
  <2> QED
    BY <1>1, <2>1 DEF Numbered
<1>5. /\ after[1] = Len(queued)
      /\ \A n \in 1..Len(queued) : queued[n] \in {Dead, (e + (n - 1)) % Ring}
  <2>0. \A n \in 1..Len(q) : q[n] \in {Dead, (e + (n - 1)) % Ring}
    BY <1>1 DEF Numbered
  <2>1. CASE r[1].task = "put"
    <3>1. r[1].item \in 0..Ring
      BY <1>2 DEF Callback
    <3> DEFINE item == r[1].item
    <3>2. /\ Len(queued) = Len(q) + 1 /\ queued[Len(q) + 1] = r[1].item
          /\ \A n \in 1..Len(q) : queued[n] = q[n]
      <4>1. queued = Append(q, item)
        BY <1>2, <2>1
      <4>2. item \in 0..Ring
        BY <3>1
      <4> HIDE DEF item
      <4>3. /\ Len(Append(q, item)) = Len(q) + 1
            /\ Append(q, item)[Len(q) + 1] = item
            /\ \A n \in 1..Len(q) : Append(q, item)[n] = q[n]
        BY <4>2, AppendProperties
      <4> QED
        BY <4>1, <4>3 DEF item
    <3>3. after[1] = Len(queued)
      BY <1>2, <1>4, <2>1, <3>2
    <3>4. ASSUME NEW n \in 1..Len(queued)
          PROVE  queued[n] \in {Dead, (e + (n - 1)) % Ring}
      <4>1. CASE n = Len(q) + 1
        <5>1. n - 1 = Len(q)
          BY <1>2, <4>1
        <5> QED
          BY <1>4, <2>1, <3>2, <4>1, <5>1
      <4>2. CASE n # Len(q) + 1
        <5>1. n \in 1..Len(q)
          BY <1>2, <3>2, <4>2
        <5> QED
          BY <2>0, <3>2, <5>1
      <4> QED
        BY <4>1, <4>2
    <3> QED
      BY <3>3, <3>4
  <2>2. CASE r[1].task # "put"
    <3>1. queued = q
      BY <1>2, <2>2
    <3>2. after[1] = Len(q)
      BY <1>2, <1>4, <2>2
    <3> QED
      BY <2>0, <3>1, <3>2
  <2> QED
    BY <2>1, <2>2
<1>6. ASSUME NEW n \in 1..(k - 1)
      PROVE  /\ after[n + 1] = after[n] + (IF rest[n].task = "put" THEN 1 ELSE 0)
             /\ rest[n].task = "put" => rest[n].item \in {Dead, (e + after[n]) % Ring}
  <2>1. n + 1 \in 1..k /\ n \in 1..k /\ rest[n] = r[n + 1]
    BY <1>2
  <2>2. /\ before[(n + 1) + 1]
             = before[n + 1] + (IF r[n + 1].task = "put" THEN 1 ELSE 0)
        /\ r[n + 1].task = "put"
             => r[n + 1].item \in {Dead, (e + before[n + 1]) % Ring}
    BY <1>1, <2>1 DEF Numbered
  <2> QED
    BY <2>1, <2>2
<1>7. dead \/ s = (e + after[k]) % Ring
  <2>1. after[k] = before[k + 1]
    BY <1>2
  <2> QED
    BY <1>1, <2>1 DEF Numbered
<1>8. (k - 1) + 1 = k
  BY <1>2
<1> HIDE DEF after, rest, k
<1>9. Numbered(rest, queued, e, s, dead, after)
  BY <1>2, <1>5, <1>6, <1>7, <1>8 DEF Numbered
<1>10. after \in [1..(Len(rest) + 1) -> Nat]
  BY <1>2, <1>3, <1>8
<1> QED
  BY <1>9, <1>10 DEF InLine, rest

\* The first event of the queue is taken: it is e, or the end of the stream.
LEMMA LineServed ==
    ASSUME NEW r \in Seq(Callback), NEW q \in Seq(0..Ring), NEW e \in 0..(Ring - 1),
           NEW s \in Nat, NEW dead, InLine(r, q, e, s, dead), q # <<>>
    PROVE  /\ Head(q) \in {Dead, e}
           /\ InLine(r, Tail(q), (e + 1) % Ring, s, dead)
<1> DEFINE k == Len(q)
           rest == Tail(q)
           f == (e + 1) % Ring
           size == Len(r) + 1
<1>1. PICK before \in [1..size -> Nat] : Numbered(r, q, e, s, dead, before)
  BY DEF InLine
<1>2. /\ k \in Nat \ {0} /\ Len(rest) = k - 1
      /\ \A n \in 1..(k - 1) : rest[n] = q[n + 1]
      /\ Head(q) = q[1] /\ size \in Nat \ {0} /\ size = Len(r) + 1
  BY EmptySeq, LenProperties, HeadTailProperties
<1>3. Head(q) \in {Dead, e}
  <2>1. q[1] \in {Dead, (e + (1 - 1)) % Ring}
    BY <1>1, <1>2 DEF Numbered
  <2>2. e + (1 - 1) = e /\ e % Ring = e
    BY RingType, ModSmall
  <2> QED
    BY <1>2, <2>1, <2>2
\* Counted from the next number, one less comes to the same.
<1>4. ASSUME NEW b \in Nat \ {0}
      PROVE  (f + (b - 1)) % Ring = (e + b) % Ring
  <2>1. CASE e + 1 < Ring
    <3>1. f = e + 1
      BY <2>1, RingType, ModSmall
    <3>2. f + (b - 1) = e + b
      BY <3>1, RingType
    <3> QED
      BY <3>2
  <2>2. CASE e + 1 = Ring
    <3>1. f = 0
      <4>1. 0 \in Nat /\ 0 \in 0..(Ring - 1)
        BY RingType
      <4>2. (0 + Ring) % Ring = 0 % Ring
        BY <4>1, RingType, ModAdd
      <4>3. 0 % Ring = 0
        BY <4>1, RingType, ModSmall
      <4>4. e + 1 = 0 + Ring
        BY <2>2, RingType
      <4> QED
        BY <4>2, <4>3, <4>4
    <3>2. ((b - 1) + Ring) % Ring = (b - 1) % Ring
      <4>1. b - 1 \in Nat
        OBVIOUS
      <4> QED
        BY <4>1, RingType, ModAdd
    <3>3. f + (b - 1) = b - 1 /\ e + b = (b - 1) + Ring
      BY <2>2, <3>1, RingType
    <3> QED
      BY <3>2, <3>3
  <2> QED
    BY <2>1, <2>2, RingType
<1> DEFINE after == [n \in 1..size |-> before[n] - 1]
\* All of the line comes behind the event that is taken.
<1>5. \A n \in 1..size : before[n] \in Nat \ {0}
  <2>1. before[1] = k
    BY <1>1 DEF Numbered
  <2> DEFINE Low == {n \in 1..size : before[n] = 0}
  <2>2. SUFFICES ASSUME Low # {} PROVE FALSE
    BY <1>1
  <2>3. PICK n \in Low : \A m \in Low : n <= m
    <3>1. Low \in SUBSET Nat
      OBVIOUS
    <3> HIDE DEF Low
    <3> QED
      BY <2>2, <3>1, SmallestMember
  <2>4. n # 1
    BY <1>2, <2>1
  <2>5. n - 1 \in 1..Len(r) /\ (n - 1) + 1 = n /\ n - 1 \in 1..size
    BY <1>2, <2>4
  <2>6. before[n] = before[n - 1] + (IF r[n - 1].task = "put" THEN 1 ELSE 0)
    BY <1>1, <2>5 DEF Numbered
  <2>7. before[n - 1] = 0
    <3>1. before[n] = 0 /\ before[n - 1] \in Nat
      BY <1>1, <2>5
    <3> QED
      BY <2>6, <3>1
  <2>8. n - 1 \in Low
    BY <2>5, <2>7
  <2>9. n <= n - 1
    BY <2>3, <2>8
  <2>10. n \in Int
    BY <2>3
  <2> HIDE DEF Low
  <2> QED
    BY <2>9, <2>10
<1>6. after \in [1..size -> Nat] /\ \A n \in 1..size : after[n] = before[n] - 1
  BY <1>1, <1>5
<1>7. after[1] = Len(rest)
  BY <1>1, <1>2, <1>6 DEF Numbered
<1>8. f \in Nat /\ rest \in Seq(0..Ring)
  BY RingType, DivMod, HeadTailProperties
<1>9. ASSUME NEW n \in 1..Len(rest)
      PROVE  rest[n] \in {Dead, (f + (n - 1)) % Ring}
  <2>1. n + 1 \in 1..k /\ n \in Nat \ {0} /\ (n + 1) - 1 = n
        /\ n \in 1..(k - 1)
    BY <1>2
  <2>2. q[n + 1] \in {Dead, (e + n) % Ring}
    BY <1>1, <2>1 DEF Numbered
  <2>3. (f + (n - 1)) % Ring = (e + n) % Ring
    BY <1>4, <2>1
  <2> QED
    BY <1>2, <2>1, <2>2, <2>3
<1>10. ASSUME NEW n \in 1..Len(r)
       PROVE  /\ after[n + 1] = after[n] + (IF r[n].task = "put" THEN 1 ELSE 0)
              /\ r[n].task = "put" => r[n].item \in {Dead, (f + after[n]) % Ring}
  <2>1. n \in 1..size /\ n + 1 \in 1..size
    BY <1>2
  <2>2. /\ before[n + 1] = before[n] + (IF r[n].task = "put" THEN 1 ELSE 0)
        /\ r[n].task = "put" => r[n].item \in {Dead, (e + before[n]) % Ring}
    BY <1>1 DEF Numbered
  <2>3. (f + after[n]) % Ring = (e + before[n]) % Ring
    BY <1>4, <1>5, <1>6, <2>1
  <2>4. after[n + 1] = before[n + 1] - 1 /\ after[n] = before[n] - 1
        /\ before[n] \in Nat
    BY <1>1, <1>6, <2>1
  <2> QED
    BY <2>2, <2>3, <2>4
<1>11. dead \/ s = (f + after[size]) % Ring
  <2>1. size \in 1..size
    BY <1>2
  <2>2. (f + after[size]) % Ring = (e + before[size]) % Ring
    BY <1>4, <1>5, <1>6, <2>1
  <2> QED
    BY <1>1, <2>2 DEF Numbered
<1> HIDE DEF after, rest, f, k
<1>12. Numbered(r, rest, f, s, dead, after)
  BY <1>7, <1>9, <1>10, <1>11 DEF Numbered
<1>13. InLine(r, rest, f, s, dead)
  BY <1>6, <1>12 DEF InLine
<1> QED
  BY <1>3, <1>13 DEF rest, f

\* The state of the line, as long as there is a consumer that will serve it.
OrderInv ==
    /\ ready \in Seq(Callback) /\ queue \in Seq(0..Ring)
    /\ expected \in 0..(Ring - 1) /\ sent \in 0..(Ring - 1)
    /\ turn = "consumer" => consumer = "woken"
    /\ consumer \notin {"ended", "cancelled"}
         => InLine(ready, queue, expected, sent, producer = "dead")

LEMMA OrderInit == Init => OrderInv
<1> SUFFICES ASSUME Init PROVE OrderInv
  OBVIOUS
<1>1. 0 \in 0..(Ring - 1) /\ ready \in Seq(Callback) /\ queue \in Seq(0..Ring)
  BY RingType DEF Init
<1>2. InLine(ready, queue, expected, sent, producer = "dead")
  BY NobodyInLine DEF Init
<1> QED
  BY <1>1, <1>2 DEF Init, OrderInv

\* Tasks are callbacks, and so are the puts of an event or of the sentinel.
LEMMA Callbacks ==
    /\ \A name \in {"consumer", "watchdog", "main"} :
          Task(name) \in Callback /\ Task(name).task = name
    /\ \A item \in 0..Ring : /\ Put(item) \in Callback
                             /\ Put(item).task = "put" /\ Put(item).item = item
    /\ Dead \in 0..Ring
BY RingType DEF Callback, Task, Put

LEMMA ThreadInLine ==
    ASSUME OrderInv, Thread \/ StreamFails \/ StreamEnds \/ StreamRaises
    PROVE  OrderInv' /\ expected' = expected
<1> DEFINE over == producer' = "dead"
           dead == producer = "dead"
<1>0. over \in BOOLEAN /\ dead \in BOOLEAN /\ ~dead
  BY DEF Thread, Connected, Event, Post, Retry, StreamFails, StreamEnds,
     StreamRaises
<1>1. UNCHANGED <<turn, queue, consumer, expected>>
  BY DEF Thread, Connected, Event, Post, Retry, StreamFails, StreamEnds,
     StreamRaises, loop, numbers
<1>2. CASE UNCHANGED <<ready, sent, producer = "dead">>
  BY <1>1, <1>2 DEF OrderInv
<1>3. CASE ready' = ready /\ sent' = sent /\ producer' = "dead"
  <2>1. InLine(ready, queue, expected, sent, producer = "dead")
          => InLine(ready, queue, expected, sent, TRUE)
    BY DEF InLine, Numbered
  <2> QED
    BY <1>1, <1>3, <2>1 DEF OrderInv
<1>4. CASE /\ ready' = Append(ready, Put(sent)) /\ sent' = (sent + 1) % Ring
           /\ producer' = "streaming"
  <2>1. /\ Put(sent) \in Callback /\ Put(sent).task = "put" /\ Put(sent).item = sent
        /\ ready \in Seq(Callback) /\ sent \in Nat /\ sent + 1 \in Nat
    BY Callbacks, RingType DEF OrderInv
  <2>2. ready' \in Seq(Callback) /\ sent' \in 0..(Ring - 1)
    BY <1>4, <2>1, AppendProperties, DivMod, RingType
  <2>3. ~over
    BY <1>4
  <2>4. ASSUME consumer \notin {"ended", "cancelled"}
        PROVE  InLine(Append(ready, Put(sent)), queue, expected, sent', over)
    <3>1. InLine(ready, queue, expected, sent, dead)
      BY <2>4 DEF OrderInv
    <3>2. queue \in Seq(0..Ring) /\ expected \in Nat
      BY RingType DEF OrderInv
    <3>3. sent' = IF Put(sent).task = "put" THEN (sent + 1) % Ring ELSE sent
      BY <1>4, <2>1
    <3> HIDE DEF over, dead
    <3> QED
      BY <1>0, <2>1, <2>3, <3>1, <3>2, <3>3, LineUp
  <2> QED
    BY <1>1, <1>4, <2>2, <2>4 DEF OrderInv
<1>5. CASE /\ ready' = Append(ready, Put(Dead)) /\ sent' = sent
           /\ producer' = "dead"
  <2>1. /\ Put(Dead) \in Callback /\ Put(Dead).task = "put" /\ Put(Dead).item = Dead
        /\ ready \in Seq(Callback) /\ sent \in Nat
    BY Callbacks, RingType DEF OrderInv
  <2>2. ready' \in Seq(Callback)
    BY <1>5, <2>1, AppendProperties
  <2>3. over
    BY <1>5
  <2>4. ASSUME consumer \notin {"ended", "cancelled"}
        PROVE  InLine(Append(ready, Put(Dead)), queue, expected, sent', over)
    <3>1. InLine(ready, queue, expected, sent, dead)
      BY <2>4 DEF OrderInv
    <3>2. queue \in Seq(0..Ring) /\ expected \in Nat
      BY RingType DEF OrderInv
    <3> HIDE DEF over, dead
    <3> QED
      BY <1>0, <2>1, <2>3, <3>1, <3>2, LineUp
  <2> QED
    BY <1>1, <1>5, <2>2, <2>4 DEF OrderInv
<1>6. \/ UNCHANGED <<ready, sent, producer = "dead">>
      \/ ready' = ready /\ sent' = sent /\ producer' = "dead"
      \/ /\ ready' = Append(ready, Put(sent)) /\ sent' = (sent + 1) % Ring
         /\ producer' = "streaming"
      \/ /\ ready' = Append(ready, Put(Dead)) /\ sent' = sent
         /\ producer' = "dead"
  <2>1. CASE Connected \/ Event \/ Retry \/ StreamEnds
    BY <2>1 DEF Connected, Event, Retry, StreamEnds, loop, numbers
  <2>2. CASE Post
    BY <2>2 DEF Post
  <2>3. CASE StreamFails
    BY <2>3 DEF StreamFails, Die, numbers
  <2>4. CASE StreamRaises
    BY <2>4 DEF StreamRaises, Die, numbers
  <2> QED
    BY <2>1, <2>2, <2>3, <2>4 DEF Thread
<1> QED
  BY <1>1, <1>2, <1>3, <1>4, <1>5, <1>6

\* A task that is woken queues up as well; those are no events.
LEMMA TaskLinesUp ==
    ASSUME NEW r \in Seq(Callback), NEW q \in Seq(0..Ring), NEW e \in Nat,
           NEW s \in Nat, NEW dead \in BOOLEAN, InLine(r, q, e, s, dead),
           NEW name \in {"consumer", "watchdog", "main"}
    PROVE  InLine(Append(r, Task(name)), q, e, s, dead)
<1>1. /\ Task(name) \in Callback /\ Task(name).task # "put"
      /\ s = IF Task(name).task = "put" THEN (s + 1) % Ring ELSE s
  BY Callbacks
<1>2. CASE dead = TRUE
  <2>1. s \in Nat
    OBVIOUS
  <2> QED
    BY <1>1, <1>2, <2>1, LineUp
<1>3. CASE dead = FALSE
  BY <1>1, <1>3, LineUp
<1> QED
  BY <1>2, <1>3

LEMMA HeadIsRun ==
    ASSUME OrderInv, ready # <<>>
    PROVE  /\ Head(ready) \in Callback /\ Head(ready).item \in 0..Ring
           /\ Tail(ready) \in Seq(Callback)
<1>1. ready \in Seq(Callback)
  BY DEF OrderInv
<1>2. Head(ready) \in Callback /\ Tail(ready) \in Seq(Callback)
  BY <1>1, HeadTailProperties
<1> QED
  BY <1>2 DEF Callback

\* Another callback than a put takes itself out of the line and no more.
LEMMA OthersRun ==
    ASSUME OrderInv, RunConsumer \/ RunWatchdog \/ RunMain
    PROVE  OrderInv' /\ expected' = expected
<1> DEFINE dead == producer = "dead"
<1>1. /\ ready # <<>> /\ Head(ready).task # "put" /\ ready' = Tail(ready)
      /\ UNCHANGED <<queue, expected, sent, producer>>
  BY DEF RunConsumer, RunWatchdog, RunMain, IsNext, thread, numbers
<1>2. ASSUME consumer \notin {"ended", "cancelled"}
      PROVE  InLine(Tail(ready), queue, expected, sent, dead)
  <2>1. /\ ready \in Seq(Callback) /\ queue \in Seq(0..Ring) /\ expected \in Nat
        /\ sent \in Nat /\ InLine(ready, queue, expected, sent, dead)
    BY <1>2, RingType DEF OrderInv
  <2> HIDE DEF dead
  <2> QED
    BY <1>1, <2>1, LineMoves
<1>3. /\ turn' = "consumer" => consumer' = "woken"
      /\ consumer' \notin {"ended", "cancelled"}
           => consumer \notin {"ended", "cancelled"}
  <2>1. CASE RunConsumer
    BY <2>1 DEF RunConsumer, IsNext, OrderInv
  <2>2. CASE RunWatchdog
    BY <2>2 DEF RunWatchdog, OrderInv
  <2>3. CASE RunMain
    BY <2>3 DEF RunMain, IsNext
  <2> QED
    BY <2>1, <2>2, <2>3
<1>4. Tail(ready) \in Seq(Callback)
  BY <1>1, HeadIsRun
<1> QED
  BY <1>1, <1>2, <1>3, <1>4 DEF OrderInv

\* A put leaves the line of callbacks for that of events, where it comes last;
\* the consumer it wakes is queued behind the puts that are ready.
LEMMA PutRuns ==
    ASSUME OrderInv, RunPut
    PROVE  OrderInv' /\ expected' = expected
<1> DEFINE dead == producer = "dead"
           queued == Append(queue, Head(ready).item)
           rest == Tail(ready)
<1>1. /\ ready # <<>> /\ Head(ready).task = "put" /\ queue' = queued
      /\ UNCHANGED <<expected, sent, producer, turn>>
      /\ turn = "loop"
  BY DEF RunPut, IsNext, thread, numbers
<1>2. /\ Head(ready).item \in 0..Ring /\ rest \in Seq(Callback)
      /\ queue \in Seq(0..Ring)
  BY <1>1, HeadIsRun DEF OrderInv
<1>3. queued \in Seq(0..Ring)
  BY <1>2, AppendProperties
<1>4. dead \in BOOLEAN
  OBVIOUS
<1>5. ASSUME consumer \notin {"ended", "cancelled"}
      PROVE  InLine(rest, queued, expected, sent, dead)
  <2>1. /\ ready \in Seq(Callback) /\ expected \in Nat
        /\ sent \in Nat /\ InLine(ready, queue, expected, sent, dead)
    BY <1>5, RingType DEF OrderInv
  <2>2. IF Head(ready).task = "put" THEN queued = Append(queue, Head(ready).item)
                                    ELSE queued = queue
    BY <1>1
  <2> HIDE DEF dead, queued
  <2> QED
    BY <1>1, <1>2, <2>1, <2>2, LineMoves DEF rest
<1>6. CASE consumer = "waiting"
  <2>1. consumer' = "woken" /\ ready' = Append(rest, Task("consumer"))
    BY <1>6 DEF RunPut
  <2>2. ready' \in Seq(Callback)
    BY <1>2, <2>1, Callbacks, AppendProperties
  <2>3. expected \in Nat /\ sent \in Nat
    BY RingType DEF OrderInv
  <2>4. InLine(rest, queued, expected, sent, dead)
    BY <1>5, <1>6
  <2>5. InLine(Append(rest, Task("consumer")), queued, expected, sent, dead)
    <3> HIDE DEF dead, queued, rest
    <3> QED
      BY <1>2, <1>3, <1>4, <2>3, <2>4, TaskLinesUp
  <2> QED
    BY <1>1, <1>3, <2>1, <2>2, <2>5 DEF OrderInv
<1>7. CASE consumer # "waiting"
  <2>1. consumer' = consumer /\ ready' = rest
    BY <1>7 DEF RunPut
  <2> QED
    BY <1>1, <1>2, <1>3, <1>5, <2>1 DEF OrderInv
<1> QED
  BY <1>6, <1>7

\* The consumer serves the first event of the line, which is the one expected.
LEMMA ConsumerServes ==
    ASSUME OrderInv, Handle
    PROVE  OrderInv' /\ Head(queue) = expected
<1> DEFINE dead == producer = "dead"
<1>1. /\ turn = "consumer" /\ queue # <<>> /\ Head(queue) # Dead
      /\ queue' = Tail(queue) /\ expected' = (expected + 1) % Ring
      /\ UNCHANGED <<ready, sent, producer>>
      /\ \/ consumer' = "waiting" /\ turn' = "loop"
         \/ UNCHANGED <<consumer, turn>>
  BY DEF Handle, thread
<1>2. /\ ready \in Seq(Callback) /\ queue \in Seq(0..Ring)
      /\ expected \in 0..(Ring - 1) /\ sent \in Nat /\ consumer = "woken"
      /\ InLine(ready, queue, expected, sent, dead)
  BY <1>1, RingType DEF OrderInv
<1>3. /\ Head(queue) \in {Dead, expected}
      /\ InLine(ready, Tail(queue), (expected + 1) % Ring, sent, dead)
  <2> HIDE DEF dead
  <2> QED
    BY <1>1, <1>2, LineServed
<1>4. (expected + 1) % Ring \in 0..(Ring - 1)
  <2>1. expected + 1 \in Nat
    BY <1>2, RingType
  <2> QED
    BY <2>1, DivMod, RingType
<1>5. Tail(queue) \in Seq(0..Ring)
  BY <1>1, <1>2, HeadTailProperties
<1>6. turn' = "consumer" => consumer' = "woken"
  BY <1>1, <1>2
<1>7. sent' \in 0..(Ring - 1)
  BY <1>1 DEF OrderInv
<1> QED
  BY <1>1, <1>2, <1>3, <1>4, <1>5, <1>6, <1>7 DEF OrderInv

\* The sentinel is the last thing the consumer takes.
LEMMA DeadSeen ==
    ASSUME OrderInv, SeeDead
    PROVE  OrderInv' /\ expected' = expected
<1>1. /\ queue # <<>> /\ queue' = Tail(queue) /\ consumer' = "ended"
      /\ turn' = "loop" /\ UNCHANGED <<expected, sent>>
      /\ ready' = ready \/ ready' = Append(ready, Task("main"))
  BY DEF SeeDead, WakeMain, numbers
<1>2. ready \in Seq(Callback) /\ queue \in Seq(0..Ring)
  BY DEF OrderInv
<1>3. ready' \in Seq(Callback) /\ queue' \in Seq(0..Ring)
  BY <1>1, <1>2, Callbacks, AppendProperties, HeadTailProperties
<1> QED
  BY <1>1, <1>3 DEF OrderInv

\* A timer that is over queues its task up.
LEMMA TimersInLine ==
    ASSUME OrderInv, WatchdogDue \/ RuntimeOver
    PROVE  OrderInv' /\ expected' = expected
<1> DEFINE dead == producer = "dead"
<1>1. PICK name \in {"consumer", "watchdog", "main"} :
         ready' = Append(ready, Task(name))
  BY DEF WatchdogDue, RuntimeOver, WakeMain
<1>2. UNCHANGED <<queue, expected, sent, producer, turn, consumer>>
  BY DEF WatchdogDue, RuntimeOver, thread, numbers
<1>3. ready \in Seq(Callback) /\ queue \in Seq(0..Ring) /\ expected \in Nat
      /\ sent \in Nat /\ dead \in BOOLEAN
  BY RingType DEF OrderInv
<1>4. ready' \in Seq(Callback)
  BY <1>1, <1>3, Callbacks, AppendProperties
<1>5. ASSUME consumer \notin {"ended", "cancelled"}
      PROVE  InLine(Append(ready, Task(name)), queue, expected, sent, dead)
  <2>1. InLine(ready, queue, expected, sent, dead)
    BY <1>5 DEF OrderInv
  <2> HIDE DEF dead
  <2> QED
    BY <1>3, <2>1, TaskLinesUp
<1> QED
  BY <1>1, <1>2, <1>4, <1>5 DEF OrderInv

\* A process begins with its two tasks in the line and no event.
LEMMA StartLine ==
    ASSUME Start
    PROVE  OrderInv'
<1> DEFINE first == Append(<<>>, Task("consumer"))
           both == Append(first, Task("watchdog"))
           dead == producer' = "dead"
<1>1. /\ ready' = both /\ queue' = <<>> /\ expected' = 0 /\ sent' = 0
      /\ turn' = "loop" /\ ~dead
  BY DEF Start, Fresh
<1>2. first \in Seq(Callback) /\ both \in Seq(Callback)
  BY Callbacks, AppendProperties
<1>3. InLine(both, <<>>, 0, 0, dead)
  <2>1. InLine(<<>>, <<>>, 0, 0, dead)
    BY NobodyInLine
  <2>2. /\ 0 \in Nat /\ <<>> \in Seq(0..Ring) /\ <<>> \in Seq(Callback)
        /\ dead \in BOOLEAN
    OBVIOUS
  <2> HIDE DEF dead
  <2>3. InLine(first, <<>>, 0, 0, dead)
    BY <2>1, <2>2, TaskLinesUp
  <2> HIDE DEF first
  <2> QED
    BY <1>2, <2>2, <2>3, TaskLinesUp
<1>4. 0 \in 0..(Ring - 1) /\ <<>> \in Seq(0..Ring)
  BY RingType
<1> QED
  BY <1>1, <1>2, <1>3, <1>4 DEF OrderInv

\* And ends with none of anything.
LEMMA GoneLine ==
    ASSUME Gone
    PROVE  OrderInv'
<1>1. 0 \in 0..(Ring - 1) /\ <<>> \in Seq(0..Ring) /\ <<>> \in Seq(Callback)
  BY RingType
<1>2. InLine(ready', queue', expected', sent', producer' = "dead")
  BY NobodyInLine DEF Gone
<1> QED
  BY <1>1, <1>2 DEF Gone, OrderInv

LEMMA OrderStep ==
    ASSUME ShutdownInv, OrderInv, [Next]_vars
    PROVE  /\ OrderInv'
           /\ expected' # expected /\ proc' = proc => Head(queue) = expected
<1>1. CASE Thread \/ StreamFails \/ StreamEnds \/ StreamRaises
  BY <1>1, ThreadInLine
<1>2. CASE Loop
  BY <1>2, OthersRun, PutRuns, ConsumerServes, DeadSeen DEF Loop
<1>3. CASE WatchdogDue \/ RuntimeOver
  BY <1>3, TimersInLine
<1>4. CASE CloseLoop
  <2>1. consumer \in {"ended", "cancelled"} /\ turn = "loop"
    BY <1>4 DEF CloseLoop, ShutdownInv
  <2> QED
    BY <1>4, <2>1 DEF CloseLoop, OrderInv, thread, numbers
<1>5. CASE Exit \/ Crash
  BY <1>5, GoneLine DEF Exit, Crash, Gone
<1>6. CASE Start
  BY <1>6, StartLine DEF Start, Fresh
<1>7. CASE Tick \/ Weather \/ UNCHANGED vars
  BY <1>7 DEF Tick, Weather, vars, loop, thread, numbers, OrderInv
<1> QED
  BY <1>1, <1>2, <1>3, <1>4, <1>5, <1>6, <1>7 DEF Next

\* EveryEventOnceInOrder, of run_live's producer and consumer: a put is a
\* coroutine of its own, yet whatever is ready or queued and whoever is woken in
\* between, the event the consumer takes is the next one the thread handed over.
THEOREM EventsInOrder == Spec => EveryEventOnceInOrder
<1>1. ShutdownInv /\ [Next]_vars => ShutdownInv'
  BY ShutdownStep
<1>2. ShutdownInv /\ OrderInv /\ [Next]_vars => OrderInv'
  BY OrderStep
<1>3. ShutdownInv /\ OrderInv /\ [Next]_vars
        => [expected' # expected /\ proc' = proc => Head(queue) = expected]_vars
  BY OrderStep
<1> QED
  BY <1>1, <1>2, <1>3, ShutdownInit, OrderInit, PTL
     DEF Spec, EveryEventOnceInOrder

\* ---- The failures that count ----------------------------------------------

Ages == 0..(FailureWindow + 1)

\* failures is the end of history, and what it lacks is too old to count.
Overdue(kept, all) ==
    /\ kept \in Seq(Ages) /\ all \in Seq(Ages)
    /\ Len(kept) <= Len(all) /\ Len(all) <= MaxFailures
    /\ \A k \in 1..Len(all) : \A j \in k..Len(all) : all[j] <= all[k]
    /\ \A k \in 1..Len(kept) : kept[k] = all[k + (Len(all) - Len(kept))]
    /\ \A k \in 1..(Len(all) - Len(kept)) : all[k] > FailureWindow

WindowInv ==
    /\ Overdue(failures, history)
    /\ producer # "dead" => Len(failures) < MaxFailures

LEMMA NoFailure == Overdue(<<>>, <<>>) /\ Len(<<>>) < MaxFailures
BY RunnerAssumption DEF RunnerAssumption, Overdue

\* The earliest failure in the window, and what is left from there on.
LEMMA PrunedFrom ==
    ASSUME NEW s \in Seq(Ages), NEW k \in 1..Len(s), InWindow(s[k])
    PROVE  \E i \in 1..k : /\ InWindow(s[i])
                           /\ \A n \in 1..(i - 1) : ~InWindow(s[n])
                           /\ Pruned(s) = SubSeq(s, i, Len(s))
<1> DEFINE Counted == {n \in DOMAIN s : InWindow(s[n])}
           i == Min(Counted)
<1>1. DOMAIN s = 1..Len(s) /\ Len(s) \in Nat
  BY LenProperties
<1>2. Counted \in SUBSET Nat /\ Counted # {} /\ k \in Counted
  BY <1>1
<1>3. i \in Counted /\ \A n \in Counted : i <= n
  <2> HIDE DEF Counted
  <2>1. \E n \in Counted : \A m \in Counted : n <= m
    BY <1>2, SmallestMember
  <2> QED
    BY <2>1 DEF Min
<1>4. Pruned(s) = SubSeq(s, i, Len(s))
  BY DEF Pruned
<1> HIDE DEF i
<1>5. i \in 1..k /\ InWindow(s[i])
  BY <1>1, <1>2, <1>3
<1>6. ASSUME NEW n \in 1..(i - 1), InWindow(s[n]) PROVE FALSE
  <2>1. n \in Counted /\ i \in Int /\ n \in Int /\ n < i
    BY <1>1, <1>5, <1>6
  <2> QED
    BY <1>3, <2>1
<1> QED
  BY <1>4, <1>5, <1>6

\* The observer's history after one more failure.
Recent(all) ==
    IF Len(Append(all, 0)) > MaxFailures THEN Tail(Append(all, 0))
                                         ELSE Append(all, 0)

\* A failure is counted: what remains in the deque are the recent failures that
\* lie within the window, all of them.
LEMMA FailureCounted ==
    ASSUME NEW kept, NEW all, Overdue(kept, all), Len(kept) < MaxFailures,
           NEW later, later = Recent(all)
    PROVE  LET left == Pruned(Append(kept, 0))
           IN  /\ Overdue(left, later) /\ Len(left) \in Nat
               /\ Len(left) <= MaxFailures
               /\ Cardinality({n \in DOMAIN later : later[n] <= FailureWindow})
                    = Len(left)
<1> DEFINE longer == Append(kept, 0)
           every == Append(all, 0)
           left == Pruned(longer)
           m == Len(kept)
           h == Len(all)
<1>0. FailureWindow \in Nat /\ MaxFailures \in Nat \ {0} /\ 0 \in Ages
  BY RunnerAssumption DEF RunnerAssumption, Ages
<1>1. /\ kept \in Seq(Ages) /\ all \in Seq(Ages) /\ m \in Nat /\ h \in Nat
      /\ m <= h /\ h <= MaxFailures /\ m < MaxFailures
  BY LenProperties DEF Overdue
<1>2. /\ \A k \in 1..h : \A j \in k..h : all[j] <= all[k]
      /\ \A k \in 1..m : kept[k] = all[k + (h - m)]
      /\ \A k \in 1..(h - m) : all[k] > FailureWindow
  BY DEF Overdue
<1>3. /\ longer \in Seq(Ages) /\ Len(longer) = m + 1 /\ longer[m + 1] = 0
      /\ \A k \in 1..m : longer[k] = kept[k]
  BY <1>0, <1>1, AppendProperties
<1>4. /\ every \in Seq(Ages) /\ Len(every) = h + 1 /\ every[h + 1] = 0
      /\ \A k \in 1..h : every[k] = all[k]
  BY <1>0, <1>1, AppendProperties
<1>5. \A k \in 1..h : all[k] \in Ages
  BY <1>1, ElementOfSeq
<1> HIDE DEF longer, every, m, h
<1>6. PICK i \in 1..(m + 1) :
         /\ InWindow(longer[i]) /\ \A n \in 1..(i - 1) : ~InWindow(longer[n])
         /\ left = SubSeq(longer, i, m + 1)
  <2>1. m + 1 \in 1..Len(longer) /\ InWindow(longer[m + 1])
    BY <1>0, <1>1, <1>3 DEF InWindow
  <2> QED
    BY <1>3, <2>1, PrunedFrom
<1> HIDE DEF left
<1> DEFINE d == IF h + 1 > MaxFailures THEN 1 ELSE 0
           g == h - m
           b == (g + i) - (1 + d)
<1>7. /\ later \in Seq(Ages) /\ Len(later) = (h + 1) - d
      /\ \A k \in 1..Len(later) : later[k] = every[k + d]
  <2>1. CASE h + 1 > MaxFailures
    <3>1. later = Tail(every) /\ d = 1
      BY <1>4, <2>1 DEF every, Recent
    <3>0. every # <<>>
      <4>1. Len(every) # 0
        BY <1>1, <1>4
      <4> QED
        BY <4>1
    <3>2. Tail(every) \in Seq(Ages) /\ Len(Tail(every)) = Len(every) - 1
          /\ \A k \in 1..Len(Tail(every)) : Tail(every)[k] = every[k + 1]
      BY <1>4, <3>0, HeadTailProperties
    <3> QED
      BY <1>1, <1>4, <3>1, <3>2
  <2>2. CASE ~(h + 1 > MaxFailures)
    <3>1. later = every /\ d = 0
      BY <1>1, <1>4, <2>2 DEF every, Recent
    <3> HIDE DEF d
    <3>2. Len(later) = (h + 1) - d
      BY <1>1, <1>4, <3>1
    <3>3. ASSUME NEW k \in 1..Len(later) PROVE later[k] = every[k + d]
      <4>1. k + 0 = k
        BY <1>1, <1>4, <3>1
      <4> QED
        BY <3>1, <4>1
    <3> QED
      BY <1>4, <3>1, <3>2, <3>3
  <2> QED
    BY <2>1, <2>2
<1>8. /\ left \in Seq(Ages) /\ Len(left) = (m + 2) - i
      /\ \A k \in 1..Len(left) : left[k] = longer[k + (i - 1)]
  <2>1. 1 <= i /\ i <= m + 1 /\ i \in Int
    BY <1>1, <1>6
  <2>2. SubSeq(longer, i, m + 1) \in Seq(Ages)
    <3>1. \A k \in i..(m + 1) : longer[k] \in Ages
      <4>1. \A k \in 1..Len(longer) : longer[k] \in Ages
        BY <1>3, ElementOfSeq
      <4> QED
        BY <1>1, <1>3, <2>1, <4>1
    <3> QED
      BY <1>1, <1>3, <2>1, <3>1, SubSeqProperties
  <2>3. /\ Len(SubSeq(longer, i, m + 1)) = ((m + 1) - i) + 1
        /\ \A k \in 1..(((m + 1) - i) + 1) :
              SubSeq(longer, i, m + 1)[k] = longer[(i + k) - 1]
    BY <1>1, <1>3, <2>1, SubSeqProperties
  <2>4. \A k \in 1..(((m + 1) - i) + 1) : (i + k) - 1 = k + (i - 1)
    BY <1>1, <2>1
  <2> QED
    BY <1>1, <1>6, <2>1, <2>2, <2>3, <2>4
<1>9. /\ i \in Int /\ 1 <= i /\ i <= m + 1 /\ g \in Nat
      /\ g = h - m /\ b = (g + i) - (1 + d)
      /\ d \in Int /\ 0 <= d /\ d <= 1
      /\ (d = 1 /\ h = MaxFailures) \/ (d = 0 /\ h < MaxFailures)
  <2>1. d \in Int /\ 0 <= d /\ d <= 1
    OBVIOUS
  <2>2. (d = 1 /\ h = MaxFailures) \/ (d = 0 /\ h < MaxFailures)
    BY <1>0, <1>1
  <2>3. i \in Int /\ 1 <= i /\ i <= m + 1 /\ g \in Nat
    BY <1>1, <1>6
  <2> QED
    BY <2>1, <2>2, <2>3
<1> HIDE DEF d, g, b
<1>10. /\ Len(later) - Len(left) = b /\ b \in Nat /\ Len(later) <= MaxFailures
       /\ Len(left) \in Nat /\ Len(later) \in Nat
  <2>1. Len(later) = (h + 1) - d /\ Len(left) = (m + 2) - i
    BY <1>7, <1>8
  <2>2. /\ m \in Int /\ h \in Int /\ m <= h /\ h <= MaxFailures /\ m < MaxFailures
        /\ 0 <= m /\ MaxFailures \in Int
    BY <1>0, <1>1
  <2>3. b \in Int /\ b >= 0
    BY <1>9, <2>2
  <2>4. Len(later) - Len(left) = b
    <3>1. (d = 1 \/ d = 0) /\ g = h - m /\ b = (g + i) - (1 + d)
      BY <1>9
    <3>2. ((h + 1) - d) - ((m + 2) - i) = b
      BY <1>9, <2>2, <3>1
    <3> QED
      BY <2>1, <3>2
  <2>5. Len(later) <= MaxFailures /\ Len(later) \in Nat
    BY <1>9, <2>1, <2>2
  <2>6. Len(left) \in Nat
    BY <1>9, <2>1, <2>2
  <2> QED
    BY <2>3, <2>4, <2>5, <2>6
\* longer is the end of every, and both are in order.
<1>11. \A k \in 1..(m + 1) : longer[k] = every[k + g]
  <2> SUFFICES ASSUME NEW k \in 1..(m + 1) PROVE longer[k] = every[k + g]
    OBVIOUS
  <2>1. CASE k = m + 1
    <3>1. k + g = h + 1
      BY <1>1, <1>9, <2>1
    <3> QED
      BY <1>3, <1>4, <2>1, <3>1
  <2>2. CASE k # m + 1
    <3>1. k \in 1..m /\ k + g \in 1..h /\ k + (h - m) = k + g
      BY <1>1, <1>9, <2>2
    <3> QED
      BY <1>2, <1>3, <1>4, <3>1
  <2> QED
    BY <2>1, <2>2
<1>12. \A k \in 1..(h + 1) : \A j \in k..(h + 1) : every[j] <= every[k]
  <2> SUFFICES ASSUME NEW k \in 1..(h + 1), NEW j \in k..(h + 1)
               PROVE  every[j] <= every[k]
    OBVIOUS
  <2>1. CASE j = h + 1
    <3>1. every[k] \in Ages
      BY <1>4, ElementOfSeq
    <3> QED
      BY <1>0, <1>4, <2>1, <3>1 DEF Ages
  <2>2. CASE j # h + 1
    <3>1. j \in 1..h /\ k \in 1..h /\ j \in k..h
      BY <1>1, <2>2
    <3> QED
      BY <1>2, <1>4, <3>1
  <2> QED
    BY <2>1, <2>2
<1>13. \A k \in 1..Len(left) : left[k] = later[k + b]
  <2> SUFFICES ASSUME NEW k \in 1..Len(left) PROVE left[k] = later[k + b]
    OBVIOUS
  <2>1. k + (i - 1) \in 1..(m + 1) /\ k + b \in 1..Len(later)
        /\ (k + (i - 1)) + g = (k + b) + d
    BY <1>1, <1>7, <1>8, <1>9, <1>10
  <2> QED
    BY <1>7, <1>8, <1>11, <2>1
<1>14. \A k \in 1..b : later[k] > FailureWindow
  <2> SUFFICES ASSUME NEW k \in 1..b PROVE later[k] > FailureWindow
    OBVIOUS
  <2>0. k \in 1..Len(later) /\ k + d \in 1..(g + (i - 1))
    BY <1>1, <1>8, <1>9, <1>10
  <2>1. /\ k \in 1..Len(later) /\ later[k] = every[k + d]
        /\ k + d \in 1..(g + (i - 1))
    BY <1>7, <2>0
  <2>2. CASE k + d <= g
    <3>1. k + d \in 1..g /\ k + d \in 1..h
      BY <1>1, <1>9, <2>1, <2>2
    <3> QED
      BY <1>2, <1>4, <1>9, <2>1, <3>1
  <2>3. CASE k + d > g
    <3> DEFINE n == (k + d) - g
    <3>0. /\ k + d \in Int /\ k + d <= g + (i - 1) /\ k + d > g
          /\ g \in Int /\ i \in Int /\ i <= m + 1 /\ m \in Int
      BY <1>1, <1>9, <2>1, <2>3
    <3>1. n \in 1..(i - 1) /\ n \in 1..(m + 1) /\ n + g = k + d
      BY <3>0
    <3>2. ~InWindow(longer[n]) /\ longer[n] = every[k + d]
      BY <1>6, <1>11, <3>1
    <3>3. longer[n] \in Ages
      BY <1>3, <3>1, ElementOfSeq
    <3> HIDE DEF n
    <3>4. ~(longer[n] <= FailureWindow)
      BY <3>2 DEF InWindow
    <3>5. longer[n] \in Int
      BY <1>0, <3>3 DEF Ages
    <3> QED
      BY <1>0, <2>1, <3>2, <3>4, <3>5
  <2>4. k + d \in Int /\ g \in Int
    BY <1>9, <2>1
  <2> QED
    BY <2>2, <2>3, <2>4
<1>15. \A k \in 1..Len(later) : \A j \in k..Len(later) : later[j] <= later[k]
  <2> SUFFICES ASSUME NEW k \in 1..Len(later), NEW j \in k..Len(later)
               PROVE  later[j] <= later[k]
    OBVIOUS
  <2>1. /\ k + d \in 1..(h + 1) /\ j + d \in (k + d)..(h + 1)
        /\ j \in 1..Len(later)
    BY <1>1, <1>7, <1>9
  <2> QED
    BY <1>7, <1>12, <2>1
<1>16. Overdue(left, later)
  BY <1>7, <1>8, <1>9, <1>10, <1>13, <1>14, <1>15 DEF Overdue
\* So those in the window are the positions behind b.
<1>17. {n \in DOMAIN later : later[n] <= FailureWindow} = (b + 1)..Len(later)
  <2>1. DOMAIN later = 1..Len(later)
    BY <1>7, LenProperties
  <2>2. ASSUME NEW n \in 1..Len(later)
        PROVE  later[n] <= FailureWindow <=> n \in (b + 1)..Len(later)
    <3>1. CASE n <= b
      <4>1. later[n] > FailureWindow /\ later[n] \in Ages
        BY <1>7, <1>10, <1>14, <3>1, ElementOfSeq
      <4> QED
        BY <1>0, <1>10, <3>1, <4>1 DEF Ages
    <3>2. CASE n > b
      <4>1. /\ n \in (b + 1)..Len(later) /\ n + d \in (i + g)..(h + 1)
            /\ i + g \in 1..(h + 1)
        BY <1>1, <1>7, <1>9, <1>10, <3>2
      <4>2. every[n + d] <= every[i + g] /\ every[i + g] = longer[i]
        BY <1>6, <1>11, <1>12, <4>1
      <4>3. longer[i] \in Ages /\ later[n] \in Ages
        BY <1>3, <1>6, <1>7, ElementOfSeq
      <4>4. longer[i] <= FailureWindow /\ later[n] = every[n + d]
        BY <1>6, <1>7 DEF InWindow
      <4> QED
        BY <1>0, <4>1, <4>2, <4>3, <4>4 DEF Ages
    <3> QED
      BY <1>10, <3>1, <3>2
  <2>3. (b + 1)..Len(later) \subseteq 1..Len(later)
    BY <1>10
  <2> QED
    BY <2>1, <2>2, <2>3
<1>18. Cardinality((b + 1)..Len(later)) = Len(left)
  <2>1. b + 1 \in Int /\ Len(later) \in Int
    BY <1>10
  <2> DEFINE low == b + 1
             high == Len(later)
  <2>2. low \in Int /\ high \in Int /\ low <= high /\ (high - low) + 1 = Len(left)
    <3>1. Len(left) >= 1
      BY <1>1, <1>8, <1>9
    <3>2. Len(later) - Len(left) = b /\ b \in Int /\ Len(left) \in Int
          /\ Len(later) \in Int
      BY <1>10
    <3> QED
      BY <3>1, <3>2
  <2> HIDE DEF low, high
  <2>3. Cardinality(low..high) = IF low > high THEN 0 ELSE (high - low) + 1
    BY <2>2, FS_Interval
  <2>4. Cardinality(low..high) = Len(left)
    BY <2>2, <2>3
  <2> QED
    BY <2>4 DEF low, high
<1>19. Len(left) <= MaxFailures
  BY <1>0, <1>10
<1> QED
  BY <1>10, <1>16, <1>17, <1>18, <1>19 DEF left, longer

\* Time passes for all ages alike.
LEMMA OneOlder ==
    ASSUME NEW a \in Ages
    PROVE  Min({a + 1, FailureWindow + 1})
             = IF a <= FailureWindow THEN a + 1 ELSE FailureWindow + 1
<1> DEFINE T == {a + 1, FailureWindow + 1}
           low == IF a <= FailureWindow THEN a + 1 ELSE FailureWindow + 1
<1>1. FailureWindow \in Nat /\ a \in Nat
  BY RunnerAssumption DEF RunnerAssumption, Ages
<1>2. low \in T /\ \A t \in T : low <= t /\ t \in Int
  BY <1>1
<1>3. \A t \in T : (\A u \in T : t <= u) => t = low
  <2> HIDE DEF T, low
  <2>1. low \in Int
    BY <1>2
  <2> QED
    BY <1>2, <2>1
<1>4. Min(T) = CHOOSE t \in T : \A u \in T : t <= u
  BY DEF Min
<1>5. Min(T) = low
  <2> HIDE DEF T, low
  <2> QED
    BY <1>2, <1>3, <1>4
<1> QED
  BY <1>5

LEMMA OlderAges ==
    ASSUME NEW s \in Seq(Ages)
    PROVE  /\ Older(s) \in Seq(Ages) /\ Len(Older(s)) = Len(s)
           /\ \A k \in 1..Len(s) :
                 /\ s[k] \in Ages
                 /\ Older(s)[k] = IF s[k] <= FailureWindow THEN s[k] + 1
                                                           ELSE FailureWindow + 1
<1>1. DOMAIN s = 1..Len(s) /\ Len(s) \in Nat
  BY LenProperties
<1>2. \A k \in 1..Len(s) : s[k] \in Ages
  BY ElementOfSeq
<1>3. \A k \in 1..Len(s) :
         Older(s)[k] = IF s[k] <= FailureWindow THEN s[k] + 1 ELSE FailureWindow + 1
  <2> SUFFICES ASSUME NEW k \in 1..Len(s)
               PROVE  Older(s)[k] = IF s[k] <= FailureWindow THEN s[k] + 1
                                                         ELSE FailureWindow + 1
    OBVIOUS
  <2>1. Older(s)[k] = Min({s[k] + 1, FailureWindow + 1})
    BY <1>1 DEF Older
  <2> QED
    BY <1>2, <2>1, OneOlder
<1>4. \A k \in 1..Len(s) : Older(s)[k] \in Ages
  <2> SUFFICES ASSUME NEW k \in 1..Len(s) PROVE Older(s)[k] \in Ages
    OBVIOUS
  <2> DEFINE a == s[k]
  <2>1. a \in Ages
    BY <1>2
  <2>2. Older(s)[k] = IF a <= FailureWindow THEN a + 1 ELSE FailureWindow + 1
    BY <1>3
  <2>3. FailureWindow \in Nat
    BY RunnerAssumption DEF RunnerAssumption
  <2> HIDE DEF a
  <2> QED
    BY <2>1, <2>2, <2>3 DEF Ages
<1>5. Older(s) = [k \in 1..Len(s) |-> Older(s)[k]]
  BY <1>1 DEF Older
<1>6. Older(s) \in Seq(Ages) /\ Len(Older(s)) = Len(s)
  <2>1. Older(s) \in [1..Len(s) -> Ages]
    <3> DEFINE older == Older(s)
    <3> HIDE DEF older
    <3> QED
      BY <1>4, <1>5 DEF older
  <2>2. Older(s) \in Seq(Ages)
    BY <1>1, <2>1, SeqDef
  <2>3. DOMAIN Older(s) = 1..Len(s)
    BY <2>1
  <2> QED
    BY <1>1, <2>2, <2>3, LenProperties
<1> QED
  BY <1>2, <1>3, <1>6

LEMMA AllOlder ==
    ASSUME NEW kept, NEW all, Overdue(kept, all)
    PROVE  Overdue(Older(kept), Older(all)) /\ Len(Older(kept)) = Len(kept)
<1> DEFINE ke == Older(kept)
           al == Older(all)
           m == Len(kept)
           h == Len(all)
<1>0. FailureWindow \in Nat
  BY RunnerAssumption DEF RunnerAssumption
<1>1. /\ kept \in Seq(Ages) /\ all \in Seq(Ages) /\ m \in Nat /\ h \in Nat
      /\ m <= h /\ h <= MaxFailures
  BY LenProperties DEF Overdue
<1>2. /\ \A k \in 1..h : \A j \in k..h : all[j] <= all[k]
      /\ \A k \in 1..m : kept[k] = all[k + (h - m)]
      /\ \A k \in 1..(h - m) : all[k] > FailureWindow
  BY DEF Overdue
<1>3. /\ ke \in Seq(Ages) /\ Len(ke) = m
      /\ \A k \in 1..m :
            /\ kept[k] \in Ages
            /\ ke[k] = IF kept[k] <= FailureWindow THEN kept[k] + 1
                                                   ELSE FailureWindow + 1
  BY <1>1, OlderAges
<1>4. /\ al \in Seq(Ages) /\ Len(al) = h
      /\ \A k \in 1..h :
            /\ all[k] \in Ages
            /\ al[k] = IF all[k] <= FailureWindow THEN all[k] + 1
                                                  ELSE FailureWindow + 1
  BY <1>1, OlderAges
<1> HIDE DEF ke, al, m, h
<1>5. \A k \in 1..h : \A j \in k..h : al[j] <= al[k]
  <2> SUFFICES ASSUME NEW k \in 1..h, NEW j \in k..h PROVE al[j] <= al[k]
    OBVIOUS
  <2>1. j \in 1..h /\ all[j] <= all[k]
    BY <1>1, <1>2
  <2>2. all[j] \in Int /\ all[k] \in Int
    BY <1>0, <1>4, <2>1 DEF Ages
  <2> QED
    BY <1>0, <1>4, <2>1, <2>2
<1>6. \A k \in 1..m : ke[k] = al[k + (h - m)]
  <2> SUFFICES ASSUME NEW k \in 1..m PROVE ke[k] = al[k + (h - m)]
    OBVIOUS
  <2>1. k + (h - m) \in 1..h /\ kept[k] = all[k + (h - m)]
    BY <1>1, <1>2
  <2> QED
    BY <1>3, <1>4, <2>1
<1>7. \A k \in 1..(h - m) : al[k] > FailureWindow
  <2> SUFFICES ASSUME NEW k \in 1..(h - m) PROVE al[k] > FailureWindow
    OBVIOUS
  <2>1. k \in 1..h /\ all[k] > FailureWindow
    BY <1>1, <1>2
  <2>2. all[k] \in Int
    BY <1>0, <1>4, <2>1 DEF Ages
  <2> QED
    BY <1>0, <1>4, <2>1, <2>2
<1>8. Overdue(ke, al)
  BY <1>1, <1>3, <1>4, <1>5, <1>6, <1>7 DEF Overdue
<1> QED
  BY <1>3, <1>8 DEF ke, al, m

LEMMA WindowInit == Init => WindowInv
BY NoFailure DEF Init, WindowInv

\* A RequestException ends the stream when what is left in the deque has
\* reached the limit, and that is how many recent ones the window has.
LEMMA StreamFailsInWindow ==
    ASSUME WindowInv, StreamFails
    PROVE  /\ WindowInv'
           /\ producer' = "dead"
                <=> Cardinality({n \in DOMAIN history' : history'[n] <= FailureWindow})
                      >= MaxFailures
<1> DEFINE left == Pruned(Append(failures, 0))
           later == Recent(history)
<1>1. /\ producer \in {"connecting", "streaming"}
      /\ failures' = left /\ history' = later
      /\ producer' = IF Len(left) >= MaxFailures THEN "dead" ELSE "backoff"
  BY DEF StreamFails, Die, Recent
<1>2. Overdue(failures, history) /\ Len(failures) < MaxFailures
  BY <1>1 DEF WindowInv
<1>3. /\ Overdue(left, later) /\ Len(left) \in Nat
      /\ Cardinality({n \in DOMAIN later : later[n] <= FailureWindow}) = Len(left)
  <2> HIDE DEF later
  <2> QED
    BY <1>2, FailureCounted DEF later
<1>4. MaxFailures \in Nat
  BY RunnerAssumption DEF RunnerAssumption
<1> HIDE DEF left, later
<1>5. WindowInv'
  BY <1>1, <1>3, <1>4 DEF WindowInv
<1> QED
  BY <1>1, <1>3, <1>5

\* No other step is a failure that is counted.
LEMMA WindowStep ==
    ASSUME WindowInv, [Next]_vars
    PROVE  /\ WindowInv'
           /\ Failed => StreamFails
<1>1. CASE StreamFails
  BY <1>1, StreamFailsInWindow
<1>2. CASE UNCHANGED <<failures, history>> /\ (producer = "dead" => producer' = "dead")
  BY <1>2 DEF WindowInv, Failed
<1>3. CASE Tick
  <2>1. /\ failures' = Older(failures) /\ history' = Older(history)
        /\ producer' = producer
    BY <1>3 DEF Tick
  <2>2. Overdue(failures', history') /\ Len(failures') = Len(failures)
    BY <2>1, AllOlder DEF WindowInv
  <2> QED
    BY <2>1, <2>2 DEF WindowInv, Failed
<1>4. CASE failures' = <<>> /\ history' = <<>> /\ producer' \in {"none", "connecting"}
  BY <1>4, NoFailure DEF WindowInv, Failed
<1>5. CASE Thread \/ StreamEnds \/ StreamRaises
  BY <1>2, <1>5 DEF Thread, Connected, Event, Post, Retry, StreamEnds, StreamRaises
<1>6. CASE Loop
  BY <1>2, <1>6 DEF Loop, RunPut, RunConsumer, Handle, SeeDead, RunWatchdog,
     RunMain, thread
<1>7. CASE WatchdogDue \/ RuntimeOver \/ CloseLoop \/ Weather \/ UNCHANGED vars
  BY <1>2, <1>7 DEF WatchdogDue, RuntimeOver, CloseLoop, Weather, vars, thread
<1>8. CASE Exit \/ Crash \/ Start
  BY <1>4, <1>8 DEF Exit, Crash, Start, Gone, Fresh
<1> QED
  BY <1>1, <1>3, <1>5, <1>6, <1>7, <1>8 DEF Next

\* ExhaustedExactly, of iter_events' deque: pruned only when the next failure
\* arrives, and from the left only, it gives the stream up no failure too early
\* and none too late.
THEOREM GivenUpExactly == Spec => ExhaustedExactly
<1>1. WindowInv /\ [Next]_vars => WindowInv'
  BY WindowStep
<1>2. WindowInv /\ [Next]_vars
        => [Failed =>
              (producer' = "dead"
                 <=> Cardinality({n \in DOMAIN history' : history'[n] <= FailureWindow})
                       >= MaxFailures)]_vars
  BY WindowStep, StreamFailsInWindow
<1> QED
  BY <1>1, <1>2, WindowInit, PTL DEF Spec, ExhaustedExactly
=============================================================================
