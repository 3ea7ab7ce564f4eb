---------------------------- MODULE EventQueueProofs ----------------------------
(*****************************************************************************)
(* What the time arithmetic computes, for every scale and every time; what  *)
(* the list operations do to the list, as a sequence of nodes; that the list*)
(* stays well formed; and, as long as no stamp runs over its second, that it*)
(* stays in order, that select() gets valid timeouts, and that list, clock  *)
(* and select loop implement TimerQueue.                                    *)
(*****************************************************************************)
EXTENDS EventQueue, FiniteSetTheorems, SequenceTheorems, FunctionTheorems,
        WellFoundedInduction, TLAPS

-----------------------------------------------------------------------------
(*****************************************************************************)
(* Time.                                                                    *)
(*****************************************************************************)
LEMMA Distribute ==
  ASSUME NEW a \in Int, NEW b \in Int
  PROVE  (a - b) * USEC = a * USEC - b * USEC
BY ScaleAssumption

\* calculate_delta is exact, whether its arguments are normalised or not.
THEOREM DeltaExact ==
  ASSUME NEW first \in Timevals, NEW second \in Timevals
  PROVE  /\ calculate_delta(first, second) \in Timevals
         /\ Micros(calculate_delta(first, second)) = Micros(second) - Micros(first)
<1> DEFINE sec  == second.sec - first.sec
           usec == second.usec - first.usec
<1>1. sec \in Int /\ usec \in Int /\ USEC \in Int
  BY ScaleAssumption DEF Timevals
<1>2. sec * USEC = second.sec * USEC - first.sec * USEC
  BY Distribute DEF Timevals
<1>3. (sec - 1) * USEC = sec * USEC - USEC
  BY <1>1, Distribute
<1>4. CASE usec < 0
  <2>1. calculate_delta(first, second) = [sec |-> sec - 1, usec |-> usec + USEC]
    BY <1>4 DEF calculate_delta
  <2> HIDE DEF sec, usec
  <2>2. Micros(calculate_delta(first, second)) = sec * USEC + usec
    BY <1>1, <1>3, <2>1 DEF Micros
  <2> USE DEF sec, usec
  <2>3. /\ first.sec * USEC \in Int /\ second.sec * USEC \in Int
        /\ first.usec \in Int /\ second.usec \in Int
    BY ScaleAssumption DEF Timevals
  <2>4. sec * USEC + usec = Micros(second) - Micros(first)
    BY <1>2, <2>3 DEF Micros
  <2> QED  BY <1>1, <2>1, <2>2, <2>4 DEF Timevals
<1>5. CASE ~(usec < 0)
  BY <1>1, <1>2, <1>5 DEF calculate_delta, Micros, Timevals
<1> QED  BY <1>4, <1>5

\* A non-zero number of seconds outweighs the microseconds.
LEMMA SecondsOutweigh ==
  ASSUME NEW s \in Int, NEW u \in Int, u < USEC, -USEC < u
  PROVE  /\ s > 0 => s * USEC + u > 0
         /\ s < 0 => s * USEC + u < 0
<1>1. s > 0 => s * USEC >= USEC
  BY ScaleAssumption
<1>2. s < 0 => s * USEC <= -USEC
  BY ScaleAssumption
<1>3. s * USEC \in Int /\ USEC \in Int
  BY ScaleAssumption
<1> QED  BY <1>1, <1>2, <1>3

\* timecmp has the sign of second - first whenever second is normalised and
\* first overruns its second by less than another one: a wrong answer needs a
\* carry that is missing in `second`, the event push_event inserts.
THEOREM TimecmpSign ==
  ASSUME NEW first \in Timevals, NEW second \in Timevals,
         first.usec \in 0 .. 2 * USEC - 1, Normal(second)
  PROVE  /\ timecmp(first, second) > 0 <=> Micros(second) > Micros(first)
         /\ timecmp(first, second) < 0 <=> Micros(second) < Micros(first)
<1> DEFINE delta == calculate_delta(first, second)
<1>1. /\ delta \in Timevals
      /\ Micros(delta) = Micros(second) - Micros(first)
  BY DeltaExact
<1>2. delta.usec < USEC /\ -USEC < delta.usec
  BY ScaleAssumption DEF calculate_delta, Normal, Timevals
<1>3. Micros(first) \in Int /\ Micros(second) \in Int
  BY ScaleAssumption DEF Micros, Timevals
<1>4. timecmp(first, second) = IF delta.sec # 0 THEN delta.sec ELSE delta.usec
  BY DEF timecmp
<1> HIDE DEF delta
<1>5. CASE delta.sec = 0
  <2>1. Micros(delta) = delta.usec
    BY <1>1, <1>5, ScaleAssumption DEF Micros, Timevals
  <2> QED  BY <1>1, <1>3, <1>4, <1>5, <2>1 DEF Timevals
<1>6. CASE delta.sec # 0
  <2>1. /\ delta.sec > 0 => Micros(delta) > 0
        /\ delta.sec < 0 => Micros(delta) < 0
    BY <1>1, <1>2, SecondsOutweigh DEF Micros, Timevals
  <2> QED  BY <1>1, <1>3, <1>4, <1>6, <2>1 DEF Timevals
<1> QED  BY <1>5, <1>6

\* A part of a second converted from clock ticks is less than a second.
LEMMA TicksToMicros ==
  ASSUME NEW r \in 0 .. CLOCK - 1
  PROVE  (r * USEC) \div CLOCK \in 0 .. USEC - 1
<1> DEFINE n == r * USEC
           d == n \div CLOCK
<1>1. n \in Nat /\ n < CLOCK * USEC
  <2>1. r + 1 <= CLOCK /\ r \in Nat /\ CLOCK \in Nat /\ USEC \in Nat /\ USEC > 0
    BY ScaleAssumption
  <2>2. (r + 1) * USEC <= CLOCK * USEC
    BY <2>1
  <2>3. (r + 1) * USEC = r * USEC + USEC
    BY <2>1
  <2> QED  BY <2>1, <2>2, <2>3
<1> HIDE DEF n
<1>2. d \in Int /\ CLOCK * d <= n /\ n < CLOCK * d + CLOCK
  BY <1>1, ScaleAssumption
<1> HIDE DEF d
<1>3. d >= 0
  BY <1>1, <1>2, ScaleAssumption
<1>4. d < USEC
  BY <1>1, <1>2, ScaleAssumption
<1> QED  BY <1>2, <1>3, <1>4, ScaleAssumption DEF d, n

\* The stamp of a frame is normalised when the filler's base time is, so that
\* no frame is ever put into the wrong place.
THEOREM FrameStampNormal ==
  ASSUME NEW start \in Timevals, Normal(start), NEW timestamp \in Nat
  PROVE  /\ set_timeval(start, timestamp) \in Timevals
         /\ Normal(set_timeval(start, timestamp))
<1> DEFINE u == ((timestamp % CLOCK) * USEC) \div CLOCK
<1>1. timestamp % CLOCK \in 0 .. CLOCK - 1 /\ timestamp \div CLOCK \in Int
  BY ScaleAssumption
<1>2. u \in 0 .. USEC - 1
  BY <1>1, TicksToMicros
<1> DEFINE sec  == start.sec + timestamp \div CLOCK
           usec == start.usec + u
           r    == set_timeval(start, timestamp)
<1>3. CASE usec >= USEC
  <2>1. r = [sec |-> sec + 1, usec |-> usec - USEC]
    BY <1>3, Zenon DEF set_timeval
  <2> HIDE DEF r, u
  <2>2. sec \in Int /\ usec \in Int /\ start.usec \in 0 .. USEC - 1
    BY <1>1, <1>2, ScaleAssumption DEF Timevals, Normal
  <2>3. r \in Timevals /\ Normal(r)
    BY <1>2, <1>3, <2>1, <2>2, ScaleAssumption DEF Timevals, Normal
  <2> QED  BY <2>3 DEF r
<1>4. CASE ~(usec >= USEC)
  <2>1. r = [sec |-> sec, usec |-> usec]
    BY <1>4, Zenon DEF set_timeval
  <2> HIDE DEF r, u
  <2>2. sec \in Int /\ usec \in Int /\ start.usec \in 0 .. USEC - 1
    BY <1>1, <1>2, ScaleAssumption DEF Timevals, Normal
  <2>3. r \in Timevals /\ Normal(r)
    BY <1>2, <1>4, <2>1, <2>2, ScaleAssumption DEF Timevals, Normal
  <2> QED  BY <2>3 DEF r
<1> QED  BY <1>3, <1>4

\* A timer of whole seconds is normalised; only the 100 ms of PLAY are not.
THEOREM WholeSecondsNormal ==
  ASSUME NEW t \in Timevals, Normal(t), NEW k \in Nat
  PROVE  timeout_stamp(t, 1000 * k) = [sec |-> t.sec + k, usec |-> t.usec]
<1>1. (1000 * k) \div 1000 = k /\ (1000 * k) % 1000 = 0
  OBVIOUS
<1>2. (0 * USEC) \div 1000 = 0
  BY ScaleAssumption
<1> QED  BY <1>1, <1>2 DEF timeout_stamp, Timevals, Normal

-----------------------------------------------------------------------------
(*****************************************************************************)
(* The list as a sequence of nodes.  A recursive function is met through    *)
(* the least index at which it could differ from what it should be.         *)
(*****************************************************************************)
\* A set of natural numbers has a least element.
LEMMA Least ==
  ASSUME NEW s \in SUBSET Nat, s # {}
  PROVE  \E m \in s : \A i \in s : m <= i
<1>1. PICK m \in s : \A i \in s : ~ (<<i, m>> \in OpToRel(<, Nat))
  BY WFMin, NatLessThanWellFounded, Zenon
<1>2. \A i, j \in Nat : i < j => <<i, j>> \in OpToRel(<, Nat)
  BY Zenon DEF OpToRel
<1>3. \A i \in s : ~ (i < m)
  BY <1>1, <1>2, Zenon
<1>4. m \in Nat /\ \A i \in s : i \in Nat
  OBVIOUS
<1>5. \A i \in s : m <= i
  BY <1>3, <1>4
<1> QED  BY <1>5

\* next, and NULL at the end.
NextOf == [n \in Nodes \cup {NULL} |-> IF n = NULL THEN NULL ELSE list.next[n]]

\* Nth(k) is the k-th value of a function that satisfies its recursion, as soon
\* as there is one.
LEMMA NthDef ==
  ASSUME NEW g,
         g = [i \in 1 .. MaxEvents |-> IF i = 1 THEN list.first ELSE NextOf[g[i - 1]]]
  PROVE  \E f : /\ f = [i \in 1 .. MaxEvents |->
                           IF i = 1 THEN list.first ELSE NextOf[f[i - 1]]]
                /\ \A k \in 1 .. MaxEvents : Nth(k) = f[k]
BY Zenon DEF Nth, NextOf

\* What a pointer may hold.
Link == Nodes \cup {NULL}

\* The pointers, times and types of the nodes.
Lists ==
  [first : Link, last : Link, size : Int, next : [Nodes -> Link], prev : [Nodes -> Link],
   time : [Nodes -> Timevals],
   type : [Nodes -> {"none", "CHECKMEDIASTATE", "FRAME", "ENDOFSTREAM"}]]

\* The list l is the sequence q of n nodes.
IsList(l, q, n) ==
  /\ n \in Nat /\ q \in [1 .. n -> Nodes]
  /\ \A i, j \in 1 .. n : q[i] = q[j] => i = j
  /\ l.size = n
  /\ IF n = 0 THEN l.first = NULL /\ l.last = NULL ELSE l.first = q[1] /\ l.last = q[n]
  /\ \A i \in 1 .. n : l.next[q[i]] = IF i = n THEN NULL ELSE q[i + 1]
  /\ \A i \in 1 .. n : l.prev[q[i]] = IF i = 1 THEN NULL ELSE q[i - 1]

\* A list is no longer than there are nodes.
LEMMA ListBound ==
  ASSUME NEW l, NEW q, NEW n, IsList(l, q, n)
  PROVE  n \in Nat /\ n <= MaxEvents
<1>1. n \in Nat /\ MaxEvents \in Nat
  BY BoundsAssumption DEF IsList
<1>2. q \in Injection(1 .. n, 1 .. MaxEvents)
  BY DEF IsList, Nodes, Injection, IsInjective
<1>3. ExistsInjection(1 .. n, 1 .. MaxEvents)
  BY <1>2 DEF ExistsInjection
<1> QED  BY <1>1, <1>3, Fun_NatInjLeq

\* The k-th node that the next pointers reach is the k-th of the sequence.
LEMMA NthOf ==
  ASSUME NEW q, NEW n, IsList(list, q, n), n <= MaxEvents
  PROVE  \A k \in 1 .. n : Nth(k) = q[k]
<1> DEFINE g == [i \in 1 .. MaxEvents |-> IF i <= n THEN q[i] ELSE NULL]
<1>1. /\ n \in Nat /\ MaxEvents \in Nat \ {0} /\ NULL \notin Nodes
      /\ \A i \in 1 .. n : q[i] \in Nodes
      /\ \A i \in 1 .. n : list.next[q[i]] = IF i = n THEN NULL ELSE q[i + 1]
      /\ list.first = IF n = 0 THEN NULL ELSE q[1]
      /\ NextOf[NULL] = NULL /\ \A m \in Nodes : NextOf[m] = list.next[m]
  <2>1. n \in Nat /\ \A i \in 1 .. n : q[i] \in Nodes
    BY DEF IsList
  <2>2. MaxEvents \in Nat \ {0} /\ NULL \notin Nodes
    BY BoundsAssumption DEF Nodes, NULL
  <2>3. NextOf[NULL] = NULL /\ \A m \in Nodes : NextOf[m] = list.next[m]
    BY <2>2 DEF NextOf
  <2> QED  BY <2>1, <2>2, <2>3 DEF IsList
<1>2. ASSUME NEW i \in 1 .. MaxEvents
      PROVE  g[i] = IF i = 1 THEN list.first ELSE NextOf[g[i - 1]]
  <2>1. CASE i = 1
    BY <1>1, <2>1
  <2>2. CASE i # 1
    <3>1. i - 1 \in 1 .. MaxEvents /\ g[i - 1] = IF i - 1 <= n THEN q[i - 1] ELSE NULL
      BY <1>1, <2>2
    <3>2. CASE i - 1 <= n
      BY <1>1, <2>2, <3>1, <3>2
    <3>3. CASE ~(i - 1 <= n)
      BY <1>1, <2>2, <3>1, <3>3
    <3> QED  BY <3>2, <3>3
  <2> QED  BY <2>1, <2>2
<1>3. g = [i \in 1 .. MaxEvents |-> IF i = 1 THEN list.first ELSE NextOf[g[i - 1]]]
  <2> DEFINE h == [i \in 1 .. MaxEvents |-> IF i = 1 THEN list.first ELSE NextOf[g[i - 1]]]
  <2>1. \A i \in 1 .. MaxEvents : g[i] = h[i]
    BY <1>2
  <2> QED  BY <2>1
<1>4. PICK f : /\ f = [i \in 1 .. MaxEvents |-> IF i = 1 THEN list.first ELSE NextOf[f[i - 1]]]
               /\ \A k \in 1 .. MaxEvents : Nth(k) = f[k]
  BY <1>3, NthDef
<1> HIDE DEF g
<1>5. \A i \in 1 .. MaxEvents : f[i] = IF i = 1 THEN list.first ELSE NextOf[f[i - 1]]
  BY <1>4
<1> DEFINE s == {i \in 1 .. MaxEvents : f[i] # g[i]}
<1>6. ASSUME s # {} PROVE FALSE
  <2>1. s \in SUBSET Nat
    OBVIOUS
  <2>2. PICK m \in s : \A i \in s : m <= i
    BY <1>6, <2>1, Least
  <2>3. m \in 1 .. MaxEvents /\ f[m] # g[m]
    BY <2>2
  <2>4. m # 1
    BY <1>2, <1>5, <2>3
  <2>5. m - 1 \in 1 .. MaxEvents /\ ~ (m <= m - 1)
    BY <1>1, <2>3, <2>4
  <2>6. f[m - 1] = g[m - 1]
    BY <2>2, <2>5
  <2> QED  BY <1>2, <1>5, <2>3, <2>4, <2>6
<1>7. \A i \in 1 .. n : i \in 1 .. MaxEvents /\ g[i] = q[i]
  BY <1>1 DEF g
<1> QED  BY <1>4, <1>6, <1>7

\* The search stops at the last event that is earlier than t, or falls off the
\* front of the list.
LEMMA StepperAt ==
  ASSUME NEW l \in Lists, NEW q, NEW n, IsList(l, q, n), NEW t \in Timevals
  PROVE  \E j \in 0 .. n :
           /\ Stepper(l, t) = IF j = 0 THEN NULL ELSE q[j]
           /\ j > 0 => timecmp(l.time[q[j]], t) > 0
           /\ \A i \in j + 1 .. n : timecmp(l.time[q[i]], t) <= 0
<1>1. /\ n \in Nat /\ MaxEvents \in Nat /\ n <= MaxEvents /\ NULL \notin Nodes
      /\ \A i \in 1 .. n : q[i] \in Nodes
  <2>1. n \in Nat /\ n <= MaxEvents
    BY ListBound
  <2> QED  BY <2>1, BoundsAssumption DEF IsList, Nodes, NULL
<1> DEFINE cmp(i) == timecmp(l.time[q[i]], t)
<1>2. \A i \in 1 .. n : cmp(i) \in Int
  <2> TAKE i \in 1 .. n
  <2>1. l.time[q[i]] \in Timevals
    BY <1>1 DEF Lists
  <2> QED  BY <2>1, ScaleAssumption DEF timecmp, calculate_delta, Timevals
<1> DEFINE stops == {k \in 0 .. n : k = n \/ cmp(n - k) > 0}
<1>3. PICK d \in stops : \A k \in stops : d <= k
  <2>1. stops \in SUBSET Nat /\ n \in stops
    BY <1>1
  <2> HIDE DEF stops
  <2> QED  BY <2>1, Least
<1> DEFINE j == n - d
           at == IF j = 0 THEN NULL ELSE q[j]
<1>4. /\ d \in 0 .. n /\ j \in 0 .. n
      /\ j > 0 => cmp(j) > 0
  BY <1>1, <1>3
<1>5. \A i \in j + 1 .. n : cmp(i) <= 0
  <2> TAKE i \in j + 1 .. n
  <2>1. n - i \in 0 .. n /\ n - i < d /\ n - (n - i) = i /\ i \in 1 .. n
    BY <1>1, <1>4
  <2>2. n - i \notin stops
    BY <1>3, <1>4, <2>1
  <2>3. ~ (cmp(i) > 0)
    BY <2>1, <2>2
  <2> QED  BY <1>2, <2>1, <2>3
<1> HIDE DEF stops, cmp
<1>6. /\ l.last = IF n = 0 THEN NULL ELSE q[n]
      /\ \A i \in 1 .. n : l.prev[q[i]] = IF i = 1 THEN NULL ELSE q[i - 1]
  BY DEF IsList
<1> DEFINE g == [k \in 0 .. MaxEvents |-> IF k < d THEN q[n - k] ELSE at]
           next(s) == IF s # NULL /\ timecmp(l.time[s], t) <= 0 THEN l.prev[s] ELSE s
<1>7. next(at) = at
  <2>1. CASE j = 0
    BY <2>1
  <2>2. CASE j # 0
    <3>1. cmp(j) > 0 /\ cmp(j) \in Int /\ at = q[j]
      BY <1>2, <1>4, <2>2
    <3>2. ~ (timecmp(l.time[at], t) <= 0)
      BY <3>1 DEF cmp
    <3> QED  BY <3>2
  <2> QED  BY <2>1, <2>2
<1>8. \A i \in j + 1 .. n : next(q[i]) = IF i = 1 THEN NULL ELSE q[i - 1]
  BY <1>1, <1>4, <1>5, <1>6 DEF cmp
<1>9. ASSUME NEW k \in 0 .. MaxEvents
      PROVE  g[k] = IF k = 0 THEN l.last ELSE next(g[k - 1])
  <2> HIDE DEF next
  <2>1. CASE k = 0
    BY <1>1, <1>4, <1>6, <2>1
  <2>2. CASE k # 0
    <3>1. k - 1 \in 0 .. MaxEvents /\ g[k] = (IF k < d THEN q[n - k] ELSE at)
          /\ g[k - 1] = (IF k - 1 < d THEN q[n - (k - 1)] ELSE at)
      BY <1>1, <2>2
    <3>2. CASE k - 1 < d
      <4>1. n - (k - 1) \in j + 1 .. n /\ n - (k - 1) - 1 = n - k
        BY <1>1, <1>4, <2>2, <3>2
      <4>2. next(g[k - 1]) = IF n - (k - 1) = 1 THEN NULL ELSE q[n - k]
        BY <1>8, <3>1, <3>2, <4>1
      <4>3. CASE k < d
        BY <1>1, <1>4, <2>2, <3>1, <4>2, <4>3
      <4>4. CASE ~(k < d)
        <5>1. k = d /\ n - k = j /\ (n - (k - 1) = 1 <=> j = 0)
          BY <1>1, <1>4, <3>2, <4>4
        <5> QED  BY <2>2, <3>1, <4>2, <4>4, <5>1
      <4> QED  BY <4>3, <4>4
    <3>3. CASE ~(k - 1 < d)
      BY <1>1, <1>4, <1>7, <2>2, <3>1, <3>3
    <3> QED  BY <3>2, <3>3
  <2> QED  BY <2>1, <2>2
<1>10. g = [k \in 0 .. MaxEvents |-> IF k = 0 THEN l.last ELSE next(g[k - 1])]
  <2> DEFINE h == [k \in 0 .. MaxEvents |-> IF k = 0 THEN l.last ELSE next(g[k - 1])]
  <2>1. \A k \in 0 .. MaxEvents : g[k] = h[k]
    BY <1>9
  <2> HIDE DEF next
  <2> QED  BY <2>1
<1>11. PICK f : /\ f = [k \in 0 .. MaxEvents |-> IF k = 0 THEN l.last ELSE next(f[k - 1])]
                /\ Stepper(l, t) = f[MaxEvents]
  <2> HIDE DEF g
  <2> QED  BY <1>10, Zenon DEF Stepper
<1> HIDE DEF g, next, at
<1>12. \A k \in 0 .. MaxEvents : f[k] = IF k = 0 THEN l.last ELSE next(f[k - 1])
  BY <1>11
<1> DEFINE s == {k \in 0 .. MaxEvents : f[k] # g[k]}
<1>13. ASSUME s # {} PROVE FALSE
  <2>1. s \in SUBSET Nat
    OBVIOUS
  <2>2. PICK m \in s : \A k \in s : m <= k
    BY <1>13, <2>1, Least
  <2>3. m \in 0 .. MaxEvents /\ f[m] # g[m]
    BY <2>2
  <2>4. m # 0
    BY <1>9, <1>12, <2>3
  <2>5. m - 1 \in 0 .. MaxEvents /\ ~ (m <= m - 1)
    BY <1>1, <2>3, <2>4
  <2>6. f[m - 1] = g[m - 1]
    BY <2>2, <2>5
  <2> QED  BY <1>9, <1>12, <2>3, <2>4, <2>6
<1>14. Stepper(l, t) = at
  <2>1. MaxEvents \in 0 .. MaxEvents /\ ~ (MaxEvents < d)
    BY <1>1, <1>4
  <2> QED  BY <1>11, <1>13, <2>1 DEF g
<1> QED  BY <1>4, <1>5, <1>14 DEF cmp, at

\* q with e after its first j nodes.
Ins(q, n, j, e) ==
  [i \in 1 .. n + 1 |-> IF i <= j THEN q[i] ELSE IF i = j + 1 THEN e ELSE q[i - 1]]

\* What the pointers must be for e to stand after the first j nodes.
LEMMA LinkIn ==
  ASSUME NEW l, NEW q, NEW n, IsList(l, q, n), NEW j \in 0 .. n, NEW e \in Nodes,
         \A i \in 1 .. n : q[i] # e,
         NEW r, r.size = n + 1,
         r.first = (IF j = 0 THEN e ELSE l.first), r.last = (IF j = n THEN e ELSE l.last),
         \A m \in Nodes :
           /\ r.next[m] = IF m = e THEN (IF j = n THEN NULL ELSE q[j + 1])
                          ELSE IF j > 0 /\ m = q[j] THEN e ELSE l.next[m]
           /\ r.prev[m] = IF m = e THEN (IF j = 0 THEN NULL ELSE q[j])
                          ELSE IF j < n /\ m = q[j + 1] THEN e ELSE l.prev[m]
  PROVE  IsList(r, Ins(q, n, j, e), n + 1)
<1> DEFINE p == Ins(q, n, j, e)
<1>1. /\ n \in Nat /\ \A i \in 1 .. n : q[i] \in Nodes
      /\ \A i, k \in 1 .. n : q[i] = q[k] => i = k
      /\ IF n = 0 THEN l.first = NULL /\ l.last = NULL ELSE l.first = q[1] /\ l.last = q[n]
      /\ \A i \in 1 .. n : l.next[q[i]] = IF i = n THEN NULL ELSE q[i + 1]
      /\ \A i \in 1 .. n : l.prev[q[i]] = IF i = 1 THEN NULL ELSE q[i - 1]
  BY DEF IsList
<1>2. p \in [1 .. n + 1 -> Nodes]
  BY <1>1 DEF Ins
<1>3. \A i \in 1 .. n + 1 : p[i] = IF i <= j THEN q[i] ELSE IF i = j + 1 THEN e ELSE q[i - 1]
  BY DEF Ins
<1> HIDE DEF p
<1>4. \A i, k \in 1 .. n + 1 : p[i] = p[k] => i = k
  <2> SUFFICES ASSUME NEW i \in 1 .. n + 1, NEW k \in 1 .. n + 1, p[i] = p[k] PROVE i = k
    OBVIOUS
  <2>1. CASE i <= j
    BY <1>1, <1>3, <2>1
  <2>2. CASE i = j + 1
    BY <1>1, <1>3, <2>2
  <2>3. CASE i > j + 1
    BY <1>1, <1>3, <2>3
  <2> QED  BY <1>1, <2>1, <2>2, <2>3
<1>5. r.first = p[1] /\ r.last = p[n + 1]
  BY <1>1, <1>3
<1>6. \A i \in 1 .. n + 1 : r.next[p[i]] = IF i = n + 1 THEN NULL ELSE p[i + 1]
  <2> TAKE i \in 1 .. n + 1
  <2>1. CASE i < j
    BY <1>1, <1>3, <2>1
  <2>2. CASE i = j
    BY <1>1, <1>3, <2>2
  <2>3. CASE i = j + 1
    BY <1>1, <1>3, <2>3
  <2>4. CASE i > j + 1
    <3>1. i - 1 \in 1 .. n /\ p[i] = q[i - 1] /\ i - 1 # j /\ i - 1 + 1 = i
      BY <1>1, <1>3, <2>4
    <3>2. r.next[p[i]] = l.next[q[i - 1]]
      BY <1>1, <3>1
    <3>3. i # n + 1 => p[i + 1] = q[i]
      BY <1>1, <1>3, <2>4
    <3> QED  BY <1>1, <3>1, <3>2, <3>3
  <2> QED  BY <1>1, <2>1, <2>2, <2>3, <2>4
<1>7. \A i \in 1 .. n + 1 : r.prev[p[i]] = IF i = 1 THEN NULL ELSE p[i - 1]
  <2> TAKE i \in 1 .. n + 1
  <2>1. CASE i <= j
    <3>1. i \in 1 .. n /\ p[i] = q[i] /\ i # j + 1
      BY <1>1, <1>3, <2>1
    <3>2. r.prev[p[i]] = l.prev[q[i]]
      BY <1>1, <2>1, <3>1
    <3>3. i # 1 => p[i - 1] = q[i - 1]
      BY <1>1, <1>3, <2>1
    <3> QED  BY <1>1, <3>1, <3>2, <3>3
  <2>2. CASE i = j + 1
    BY <1>1, <1>3, <2>2
  <2>3. CASE i = j + 2
    BY <1>1, <1>3, <2>3
  <2>4. CASE i > j + 2
    <3>1. i - 1 \in 1 .. n /\ p[i] = q[i - 1] /\ i - 1 # j + 1 /\ i - 1 # 1
          /\ p[i - 1] = q[i - 1 - 1]
      BY <1>1, <1>3, <2>4
    <3>2. r.prev[p[i]] = l.prev[q[i - 1]]
      BY <1>1, <3>1
    <3> QED  BY <1>1, <2>4, <3>1, <3>2
  <2> QED  BY <1>1, <2>1, <2>2, <2>3, <2>4
<1>8. n + 1 \in Nat /\ n + 1 # 0
  BY <1>1
<1> QED  BY <1>2, <1>4, <1>5, <1>6, <1>7, <1>8 DEF IsList, p

\* What insque does to the list.
LEMMA InsqueIs ==
  ASSUME NEW l \in Lists, NEW e \in Nodes, NEW s \in Nodes
  PROVE  insque(l, e, s) =
           [first |-> l.first, last |-> l.last, size |-> l.size,
            next |-> [l.next EXCEPT ![s] = e, ![e] = l.next[s]],
            prev |-> [n \in Nodes |-> IF n = e THEN s
                                      ELSE IF n = l.next[s] THEN e ELSE l.prev[n]],
            time |-> l.time, type |-> l.type]
<1>1. insque(l, e, s) =
        [l EXCEPT !.next = [l.next EXCEPT ![s] = e, ![e] = l.next[s]],
                  !.prev = [n \in Nodes |-> IF n = e THEN s
                                            ELSE IF n = l.next[s] THEN e ELSE l.prev[n]]]
  BY DEF insque
<1> DEFINE nx == [l.next EXCEPT ![s] = e, ![e] = l.next[s]]
           pv == [n \in Nodes |-> IF n = e THEN s ELSE IF n = l.next[s] THEN e ELSE l.prev[n]]
<1>2. insque(l, e, s) = [l EXCEPT !.next = nx, !.prev = pv]
  BY <1>1
<1> HIDE DEF nx, pv
<1>3. [[l EXCEPT !.next = nx] EXCEPT !.prev = pv]
        = [first |-> l.first, last |-> l.last, size |-> l.size, next |-> nx, prev |-> pv,
           time |-> l.time, type |-> l.type]
  <2> DEFINE la == [first |-> l.first, last |-> l.last, size |-> l.size, next |-> nx,
                    prev |-> l.prev, time |-> l.time, type |-> l.type]
             lb == [first |-> l.first, last |-> l.last, size |-> l.size, next |-> nx,
                    prev |-> pv, time |-> l.time, type |-> l.type]
  <2>1. [l EXCEPT !.next = nx] = la
    BY DEF Lists
  <2>2. [la EXCEPT !.prev = pv] = lb
    OBVIOUS
  <2> HIDE DEF la
  <2> QED  BY <2>1, <2>2
<1>4. insque(l, e, s) = [first |-> l.first, last |-> l.last, size |-> l.size, next |-> nx,
                         prev |-> pv, time |-> l.time, type |-> l.type]
  BY <1>2, <1>3
<1> QED  BY <1>4, Zenon DEF nx, pv

\* push_event puts e behind the last event that is earlier than it.
LEMMA PushList ==
  ASSUME NEW l \in Lists, NEW q, NEW n, IsList(l, q, n), NEW e \in Nodes,
         \A i \in 1 .. n : q[i] # e
  PROVE  LET r == push_event(l, e)
         IN  /\ r \in Lists /\ r.time = l.time /\ r.type = l.type
             /\ \E j \in 0 .. n :
                  /\ IsList(r, Ins(q, n, j, e), n + 1)
                  /\ j > 0 => timecmp(l.time[q[j]], l.time[e]) > 0
                  /\ \A i \in j + 1 .. n : timecmp(l.time[q[i]], l.time[e]) <= 0
<1> DEFINE t == l.time[e]
           l0 == [first |-> l.first, last |-> l.last, size |-> l.size + 1,
                  next |-> [l.next EXCEPT ![e] = NULL], prev |-> [l.prev EXCEPT ![e] = NULL],
                  time |-> l.time, type |-> l.type]
           r == push_event(l, e)
<1>1. /\ n \in Nat /\ NULL \notin Nodes /\ \A i \in 1 .. n : q[i] \in Nodes
      /\ l.size = n
      /\ \A i, k \in 1 .. n : q[i] = q[k] => i = k
      /\ IF n = 0 THEN l.first = NULL /\ l.last = NULL ELSE l.first = q[1] /\ l.last = q[n]
      /\ \A i \in 1 .. n : l.next[q[i]] = IF i = n THEN NULL ELSE q[i + 1]
      /\ \A i \in 1 .. n : l.prev[q[i]] = IF i = 1 THEN NULL ELSE q[i - 1]
  <2>1. NULL \notin Nodes
    BY BoundsAssumption DEF Nodes, NULL
  <2> QED  BY <2>1 DEF IsList
<1>2. /\ l.next \in [Nodes -> Link] /\ l.prev \in [Nodes -> Link]
      /\ l.time \in [Nodes -> Timevals] /\ l.first \in Link /\ l.last \in Link
  BY DEF Lists
<1>3. [l EXCEPT !.prev[e] = NULL, !.next[e] = NULL, !.size = @ + 1] = l0
  <2> DEFINE la == [first |-> l.first, last |-> l.last, size |-> l.size, next |-> l.next,
                    prev |-> [l.prev EXCEPT ![e] = NULL], time |-> l.time, type |-> l.type]
             lb == [first |-> l.first, last |-> l.last, size |-> l.size,
                    next |-> [l.next EXCEPT ![e] = NULL],
                    prev |-> [l.prev EXCEPT ![e] = NULL], time |-> l.time, type |-> l.type]
  <2>1. [l EXCEPT !.prev[e] = NULL, !.next[e] = NULL, !.size = @ + 1]
          = [[[l EXCEPT !.prev[e] = NULL] EXCEPT !.next[e] = NULL] EXCEPT !.size = l.size + 1]
    BY DEF Lists
  <2>2. [l EXCEPT !.prev[e] = NULL] = la
    BY DEF Lists
  <2>3. [la EXCEPT !.next[e] = NULL] = lb
    OBVIOUS
  <2>4. [lb EXCEPT !.size = l.size + 1] = l0
    OBVIOUS
  <2> HIDE DEF la, lb, l0
  <2> QED  BY <2>1, <2>2, <2>3, <2>4
<1>4. t \in Timevals
  BY <1>2
<1>5. PICK j \in 0 .. n :
        /\ Stepper(l, t) = IF j = 0 THEN NULL ELSE q[j]
        /\ j > 0 => timecmp(l.time[q[j]], t) > 0
        /\ \A i \in j + 1 .. n : timecmp(l.time[q[i]], t) <= 0
  BY <1>4, StepperAt
<1> DEFINE s == Stepper(l, t)
           l1 == insque(l0, e, s)
<1>6. r = IF l.last = NULL THEN [l0 EXCEPT !.first = e, !.last = e]
          ELSE IF s = NULL
            THEN [l0 EXCEPT !.prev[l.first] = e, !.next[e] = l.first, !.first = e]
            ELSE [l1 EXCEPT !.last = IF l1.next[e] = NULL THEN e ELSE @]
  BY <1>3 DEF push_event
<1> HIDE DEF s
<1>7. /\ r \in Lists /\ r.time = l.time /\ r.type = l.type /\ r.size = n + 1
      /\ r.first = (IF j = 0 THEN e ELSE l.first) /\ r.last = (IF j = n THEN e ELSE l.last)
      /\ \A m \in Nodes :
           /\ r.next[m] = IF m = e THEN (IF j = n THEN NULL ELSE q[j + 1])
                          ELSE IF j > 0 /\ m = q[j] THEN e ELSE l.next[m]
           /\ r.prev[m] = IF m = e THEN (IF j = 0 THEN NULL ELSE q[j])
                          ELSE IF j < n /\ m = q[j + 1] THEN e ELSE l.prev[m]
  <2>1. CASE n = 0
    <3>1. l.last = NULL /\ j = 0
      BY <1>1, <2>1
    <3>2. r = [l0 EXCEPT !.first = e, !.last = e]
      BY <1>6, <3>1
    <3>3. r = [first |-> e, last |-> e, size |-> l.size + 1,
               next |-> [l.next EXCEPT ![e] = NULL], prev |-> [l.prev EXCEPT ![e] = NULL],
               time |-> l.time, type |-> l.type]
      BY <3>2
    <3> HIDE DEF r
    <3> QED  BY <1>1, <1>2, <2>1, <3>1, <3>3 DEF Lists, Link
  <2>2. CASE n # 0 /\ j = 0
    <3>1. l.last # NULL /\ s = NULL /\ l.first = q[1] /\ q[1] \in Nodes
      BY <1>1, <1>5, <2>2 DEF s
    <3>2. r = [l0 EXCEPT !.prev[l.first] = e, !.next[e] = l.first, !.first = e]
      BY <1>6, <3>1
    <3>3. r = [first |-> e, last |-> l.last, size |-> l.size + 1,
               next |-> [[l.next EXCEPT ![e] = NULL] EXCEPT ![e] = l.first],
               prev |-> [[l.prev EXCEPT ![e] = NULL] EXCEPT ![l.first] = e],
               time |-> l.time, type |-> l.type]
      BY <3>2
    <3> HIDE DEF r
    <3> QED  BY <1>1, <1>2, <2>2, <3>1, <3>3 DEF Lists, Link
  <2>3. CASE n # 0 /\ j # 0
    <3>1. /\ l.last # NULL /\ s = q[j] /\ s \in Nodes /\ s # NULL /\ s # e
      BY <1>1, <1>5, <2>3 DEF s
    <3> DEFINE succ == l.next[s]
               nx == [[l.next EXCEPT ![e] = NULL] EXCEPT ![s] = e, ![e] = succ]
               pv == [m \in Nodes |-> IF m = e THEN s ELSE IF m = succ THEN e ELSE l0.prev[m]]
    <3>2. l0.next[s] = succ /\ succ = (IF j = n THEN NULL ELSE q[j + 1])
      BY <1>1, <1>2, <2>3, <3>1
    <3>3. l1 = [first |-> l.first, last |-> l.last, size |-> l.size + 1,
                next |-> nx, prev |-> pv, time |-> l.time, type |-> l.type]
      <4>1. l0 \in Lists
        BY <1>2, <1>1 DEF Lists, Link
      <4>2. l0.prev = [l.prev EXCEPT ![e] = NULL] /\ l0.next = [l.next EXCEPT ![e] = NULL]
            /\ l0.first = l.first /\ l0.last = l.last /\ l0.size = l.size + 1
            /\ l0.time = l.time /\ l0.type = l.type
        OBVIOUS
      <4> HIDE DEF l0
      <4>3. l1 = [first |-> l0.first, last |-> l0.last, size |-> l0.size,
                  next |-> [l0.next EXCEPT ![s] = e, ![e] = l0.next[s]],
                  prev |-> [m \in Nodes |-> IF m = e THEN s
                                            ELSE IF m = l0.next[s] THEN e ELSE l0.prev[m]],
                  time |-> l0.time, type |-> l0.type]
        BY <3>1, <4>1, InsqueIs
      <4>4. l1 = [first |-> l0.first, last |-> l0.last, size |-> l0.size,
                  next |-> [l0.next EXCEPT ![s] = e, ![e] = succ],
                  prev |-> pv, time |-> l0.time, type |-> l0.type]
        BY <3>2, <4>3
      <4> QED  BY <4>2, <4>4
    <3>4. r = [l1 EXCEPT !.last = IF l1.next[e] = NULL THEN e ELSE @]
      BY <1>6, <3>1
    <3>5. /\ nx \in [Nodes -> Link]
          /\ \A m \in Nodes : nx[m] = IF m = e THEN succ ELSE IF m = s THEN e ELSE l.next[m]
      BY <1>2, <3>1 DEF Link
    <3>6. /\ pv \in [Nodes -> Link]
          /\ \A m \in Nodes : pv[m] = IF m = e THEN s ELSE IF m = succ THEN e ELSE l.prev[m]
      BY <1>2, <3>1 DEF Link
    <3> HIDE DEF r, nx, pv, l1
    <3>7. r = [first |-> l.first, last |-> (IF nx[e] = NULL THEN e ELSE l.last),
               size |-> l.size + 1, next |-> nx, prev |-> pv, time |-> l.time, type |-> l.type]
      BY <3>3, <3>4
    <3>8. nx[e] = NULL <=> j = n
      BY <1>1, <2>3, <3>2, <3>5
    <3>9. r \in Lists
      BY <1>1, <1>2, <3>5, <3>6, <3>7 DEF Lists, Link
    <3>10. /\ r.time = l.time /\ r.type = l.type /\ r.size = n + 1
           /\ r.first = l.first /\ r.last = (IF j = n THEN e ELSE l.last)
           /\ r.next = nx /\ r.prev = pv
      BY <1>1, <3>7, <3>8
    <3>11. \A m \in Nodes : nx[m] = IF m = e THEN (IF j = n THEN NULL ELSE q[j + 1])
                                    ELSE IF j > 0 /\ m = q[j] THEN e ELSE l.next[m]
      BY <1>1, <2>3, <3>1, <3>2, <3>5
    <3>12. \A m \in Nodes : pv[m] = IF m = e THEN (IF j = 0 THEN NULL ELSE q[j])
                                    ELSE IF j < n /\ m = q[j + 1] THEN e ELSE l.prev[m]
      BY <1>1, <2>3, <3>1, <3>2, <3>6
    <3> QED  BY <2>3, <3>9, <3>10, <3>11, <3>12
  <2> QED  BY <2>1, <2>2, <2>3
<1> HIDE DEF r
<1>8. IsList(r, Ins(q, n, j, e), n + 1)
  BY <1>7, LinkIn
<1> QED  BY <1>5, <1>7, <1>8 DEF r

\* q without its first node.
Rest(q, n) == [i \in 1 .. n - 1 |-> q[i + 1]]

\* What is left when the first node has been unlinked.
LEMMA LinkOut ==
  ASSUME NEW l, NEW q, NEW n, IsList(l, q, n), n > 0,
         NEW r, r.size = n - 1,
         r.first = (IF n = 1 THEN NULL ELSE q[2]), r.last = (IF n = 1 THEN NULL ELSE l.last),
         \A m \in Nodes :
           /\ r.next[m] = l.next[m]
           /\ r.prev[m] = IF n > 1 /\ m = q[2] THEN NULL ELSE l.prev[m]
  PROVE  IsList(r, Rest(q, n), n - 1)
<1> DEFINE p == Rest(q, n)
<1>1. /\ n \in Nat /\ \A i \in 1 .. n : q[i] \in Nodes
      /\ \A i, k \in 1 .. n : q[i] = q[k] => i = k
      /\ l.first = q[1] /\ l.last = q[n]
      /\ \A i \in 1 .. n : l.next[q[i]] = IF i = n THEN NULL ELSE q[i + 1]
      /\ \A i \in 1 .. n : l.prev[q[i]] = IF i = 1 THEN NULL ELSE q[i - 1]
  <2>1. n # 0
    BY DEF IsList
  <2>2. l.first = q[1] /\ l.last = q[n]
    BY <2>1 DEF IsList
  <2>3. \A i, k \in 1 .. n : q[i] = q[k] => i = k
    BY DEF IsList
  <2> QED  BY <2>2, <2>3 DEF IsList
<1>2. p \in [1 .. n - 1 -> Nodes] /\ \A i \in 1 .. n - 1 : p[i] = q[i + 1]
  <2>1. \A i \in 1 .. n - 1 : q[i + 1] \in Nodes
    BY <1>1
  <2>2. p = [i \in 1 .. n - 1 |-> q[i + 1]]
    BY DEF Rest
  <2> HIDE DEF p
  <2>3. n \in Nat
    BY <1>1
  <2> QED  BY <2>1, <2>2, <2>3
<1> HIDE DEF p
<1>3. \A i, k \in 1 .. n - 1 : p[i] = p[k] => i = k
  <2> TAKE i, k \in 1 .. n - 1
  <2>1. p[i] = q[i + 1] /\ p[k] = q[k + 1] /\ i + 1 \in 1 .. n /\ k + 1 \in 1 .. n
    BY <1>1, <1>2
  <2>2. q[i + 1] = q[k + 1] => i + 1 = k + 1
    BY <1>1, <2>1
  <2>3. i \in Int /\ k \in Int
    BY <1>1
  <2> QED  BY <2>1, <2>2, <2>3
<1>4. IF n - 1 = 0 THEN r.first = NULL /\ r.last = NULL ELSE r.first = p[1] /\ r.last = p[n - 1]
  <2>1. CASE n = 1
    BY <1>1, <2>1
  <2>2. CASE n # 1
    <3>1. n - 1 # 0 /\ 1 \in 1 .. n - 1 /\ n - 1 \in 1 .. n - 1 /\ 1 + 1 = 2 /\ n - 1 + 1 = n
      BY <1>1, <2>2
    <3>2. p[1] = q[2] /\ p[n - 1] = q[n]
      BY <1>2, <3>1
    <3> QED  BY <1>1, <2>2, <3>1, <3>2
  <2> QED  BY <2>1, <2>2
<1>5. \A i \in 1 .. n - 1 : r.next[p[i]] = IF i = n - 1 THEN NULL ELSE p[i + 1]
  <2> TAKE i \in 1 .. n - 1
  <2>1. p[i] = q[i + 1] /\ i + 1 \in 1 .. n /\ q[i + 1] \in Nodes
    BY <1>1, <1>2
  <2>2. i # n - 1 => p[i + 1] = q[i + 1 + 1] /\ i + 1 # n
    BY <1>1, <1>2
  <2> QED  BY <1>1, <2>1, <2>2
<1>6. \A i \in 1 .. n - 1 : r.prev[p[i]] = IF i = 1 THEN NULL ELSE p[i - 1]
  <2> TAKE i \in 1 .. n - 1
  <2>1. p[i] = q[i + 1] /\ i + 1 \in 1 .. n /\ q[i + 1] \in Nodes /\ i + 1 # 1 /\ i + 1 - 1 = i
    BY <1>1, <1>2
  <2>2. CASE i = 1
    BY <1>1, <2>1, <2>2
  <2>3. CASE i # 1
    <3>1. p[i - 1] = q[i] /\ n > 1 /\ q[i + 1] # q[2]
      BY <1>1, <1>2, <2>1, <2>3
    <3> QED  BY <1>1, <2>1, <2>3, <3>1
  <2> QED  BY <2>2, <2>3
<1>7. n - 1 \in Nat
  BY <1>1
<1> QED  BY <1>2, <1>3, <1>4, <1>5, <1>6, <1>7 DEF IsList, p

\* pull_event takes the first node.
LEMMA PullList ==
  ASSUME NEW l \in Lists, NEW q, NEW n, IsList(l, q, n), n > 0
  PROVE  LET r == pull_event(l)
         IN  /\ r \in Lists /\ r.time = l.time /\ r.type = l.type
             /\ IsList(r, Rest(q, n), n - 1)
<1> DEFINE e == l.first
           l0 == [first |-> l.next[e], last |-> l.last, size |-> l.size,
                  next |-> l.next, prev |-> l.prev, time |-> l.time, type |-> l.type]
           pv == [m \in Nodes |-> IF m = l.next[e] THEN l.prev[e] ELSE l.prev[m]]
           nx == [m \in Nodes |-> IF m = l.prev[e] THEN l.next[e] ELSE l.next[m]]
           l1 == [first |-> l.next[e], last |-> l.last, size |-> l.size - 1,
                  next |-> nx, prev |-> pv, time |-> l.time, type |-> l.type]
           r == pull_event(l)
<1>1. /\ n \in Nat /\ \A i \in 1 .. n : q[i] \in Nodes
      /\ l.size = n
      /\ \A i, k \in 1 .. n : q[i] = q[k] => i = k
      /\ e = q[1] /\ l.last = q[n]
      /\ \A i \in 1 .. n : l.next[q[i]] = IF i = n THEN NULL ELSE q[i + 1]
      /\ \A i \in 1 .. n : l.prev[q[i]] = IF i = 1 THEN NULL ELSE q[i - 1]
  BY DEF IsList
<1>2. NULL \notin Nodes
  BY BoundsAssumption DEF Nodes, NULL
<1>3. /\ l.next \in [Nodes -> Link] /\ l.prev \in [Nodes -> Link]
      /\ l.time \in [Nodes -> Timevals] /\ l.last \in Link
  BY DEF Lists
<1>4. [l EXCEPT !.first = l.next[l.first]] = l0
  BY DEF Lists
<1>5. remque(l0, e) = [first |-> l.next[e], last |-> l.last, size |-> l.size,
                       next |-> nx, prev |-> pv, time |-> l.time, type |-> l.type]
  <2> DEFINE la == [first |-> l.next[e], last |-> l.last, size |-> l.size,
                    next |-> l.next, prev |-> pv, time |-> l.time, type |-> l.type]
             lb == [first |-> l.next[e], last |-> l.last, size |-> l.size,
                    next |-> nx, prev |-> pv, time |-> l.time, type |-> l.type]
  <2>1. remque(l0, e) = [l0 EXCEPT !.prev = pv, !.next = nx]
    BY DEF remque
  <2> HIDE DEF nx, pv
  <2>2. remque(l0, e) = [[l0 EXCEPT !.prev = pv] EXCEPT !.next = nx]
    BY <2>1
  <2>3. [l0 EXCEPT !.prev = pv] = la
    OBVIOUS
  <2>4. [la EXCEPT !.next = nx] = lb
    OBVIOUS
  <2> HIDE DEF l0, la
  <2> QED  BY <2>2, <2>3, <2>4
<1>6. r = IF l1.size <= 0 THEN [l1 EXCEPT !.first = NULL, !.last = NULL] ELSE l1
  <2>1. [remque([l EXCEPT !.first = l.next[l.first]], l.first) EXCEPT !.size = @ - 1] = l1
    BY <1>4, <1>5
  <2> QED  BY <2>1 DEF pull_event
<1>7. r = [first |-> (IF n = 1 THEN NULL ELSE l.next[e]),
           last |-> (IF n = 1 THEN NULL ELSE l.last),
           size |-> n - 1, next |-> nx, prev |-> pv, time |-> l.time, type |-> l.type]
  <2> HIDE DEF r, nx, pv, e
  <2>1. CASE n = 1
    <3> DEFINE la == [first |-> NULL, last |-> l.last, size |-> l.size - 1,
                      next |-> nx, prev |-> pv, time |-> l.time, type |-> l.type]
    <3>1. r = [[l1 EXCEPT !.first = NULL] EXCEPT !.last = NULL] /\ l.size - 1 = n - 1
      BY <1>1, <1>6, <2>1
    <3>2. [l1 EXCEPT !.first = NULL] = la
      OBVIOUS
    <3> HIDE DEF l1
    <3>3. r = [la EXCEPT !.last = NULL]
      BY <3>1, <3>2
    <3> QED  BY <2>1, <3>1, <3>3
  <2>2. CASE n # 1
    BY <1>1, <1>6, <2>2
  <2> QED  BY <2>1, <2>2
<1>8. /\ e \in Nodes /\ l.prev[e] = NULL
      /\ l.next[e] = IF n = 1 THEN NULL ELSE q[2]
      /\ n # 1 => q[2] \in Nodes
  BY <1>1
<1>9. /\ nx \in [Nodes -> Link] /\ \A m \in Nodes : nx[m] = l.next[m]
      /\ pv \in [Nodes -> Link]
      /\ \A m \in Nodes : pv[m] = IF n > 1 /\ m = q[2] THEN NULL ELSE l.prev[m]
  BY <1>1, <1>2, <1>3, <1>8 DEF Link
<1> HIDE DEF r, nx, pv, e
<1>10. r \in Lists /\ r.time = l.time /\ r.type = l.type
  <2>1. l.type \in [Nodes -> {"none", "CHECKMEDIASTATE", "FRAME", "ENDOFSTREAM"}]
    BY DEF Lists
  <2> QED  BY <1>1, <1>3, <1>7, <1>8, <1>9, <2>1 DEF Lists, Link
<1>11. IsList(r, Rest(q, n), n - 1)
  <2>1. /\ r.size = n - 1 /\ r.next = nx /\ r.prev = pv
        /\ r.first = (IF n = 1 THEN NULL ELSE q[2]) /\ r.last = (IF n = 1 THEN NULL ELSE l.last)
    BY <1>7, <1>8
  <2> QED  BY <1>9, <2>1, LinkOut
<1> QED  BY <1>10, <1>11 DEF r

\* Forgetting nodes that are not in the list leaves it.
LEMMA FreeList ==
  ASSUME NEW l \in Lists, NEW q, NEW n, IsList(l, q, n), NEW ns,
         \A i \in 1 .. n : q[i] \notin ns
  PROVE  LET r == Free(l, ns)
         IN  /\ r \in Lists /\ IsList(r, q, n)
             /\ \A m \in Nodes : r.time[m] = IF m \in ns THEN Zero ELSE l.time[m]
<1> DEFINE nx == [m \in Nodes |-> IF m \in ns THEN NULL ELSE l.next[m]]
           pv == [m \in Nodes |-> IF m \in ns THEN NULL ELSE l.prev[m]]
           tm == [m \in Nodes |-> IF m \in ns THEN Zero ELSE l.time[m]]
           tp == [m \in Nodes |-> IF m \in ns THEN "none" ELSE l.type[m]]
           r == Free(l, ns)
           t == [first |-> l.first, last |-> l.last, size |-> l.size, next |-> nx, prev |-> pv,
                 time |-> tm, type |-> tp]
<1>1. r = [l EXCEPT !.next = nx, !.prev = pv, !.time = tm, !.type = tp]
  BY DEF Free
<1>2. /\ l.next \in [Nodes -> Link] /\ l.prev \in [Nodes -> Link] /\ l.first \in Link
      /\ l.last \in Link /\ l.size \in Int
      /\ l.time \in [Nodes -> Timevals]
      /\ l.type \in [Nodes -> {"none", "CHECKMEDIASTATE", "FRAME", "ENDOFSTREAM"}]
  BY DEF Lists
<1>3. /\ nx \in [Nodes -> Link] /\ pv \in [Nodes -> Link] /\ tm \in [Nodes -> Timevals]
      /\ tp \in [Nodes -> {"none", "CHECKMEDIASTATE", "FRAME", "ENDOFSTREAM"}]
  BY <1>2 DEF Link, Zero, Timevals
<1>4. \A m \in Nodes : /\ m \notin ns => nx[m] = l.next[m] /\ pv[m] = l.prev[m]
                       /\ tm[m] = IF m \in ns THEN Zero ELSE l.time[m]
  OBVIOUS
<1> HIDE DEF nx, pv, tm, tp, r
<1>5. r = t
  <2>1. [l EXCEPT !.next = nx]
          = [first |-> l.first, last |-> l.last, size |-> l.size, next |-> nx, prev |-> l.prev,
             time |-> l.time, type |-> l.type]
    BY DEF Lists
  <2>2. r = [[[[l EXCEPT !.next = nx] EXCEPT !.prev = pv] EXCEPT !.time = tm]
              EXCEPT !.type = tp]
    BY <1>1
  <2> QED  BY <2>1, <2>2
<1>6. r \in Lists
  BY <1>2, <1>3, <1>5 DEF Lists
<1>7. IsList(r, q, n)
  <2>1. \A i \in 1 .. n : q[i] \in Nodes /\ q[i] \notin ns
    BY DEF IsList
  <2>2. r.first = l.first /\ r.last = l.last /\ r.size = l.size /\ r.next = nx /\ r.prev = pv
    BY <1>5
  <2> QED  BY <1>4, <2>1, <2>2 DEF IsList
<1> QED  BY <1>4, <1>5, <1>6, <1>7 DEF r

-----------------------------------------------------------------------------
(*****************************************************************************)
(* Nodes and times.                                                         *)
(*****************************************************************************)
\* The nodes of q.
Of(q, n) == {q[i] : i \in 1 .. n}

\* The times are normalised, and those of the list in order.
InTime(l, q, n) ==
  /\ \A m \in Nodes : Normal(l.time[m])
  /\ \A i \in 1 .. n - 1 : Micros(l.time[q[i]]) <= Micros(l.time[q[i + 1]])

\* The instant of a timeval is an integer.
LEMMA MicrosInt ==
  ASSUME NEW t \in Timevals
  PROVE  Micros(t) \in Int
BY ScaleAssumption DEF Micros, Timevals

\* What PushNew does to the list, and where the new event is.
LEMMA PushNewList ==
  ASSUME NEW l \in Lists, NEW q, NEW n, IsList(l, q, n), NEW e \in Nodes, e \notin Of(q, n),
         NEW type \in {"CHECKMEDIASTATE", "FRAME", "ENDOFSTREAM"}, NEW t \in Timevals
  PROVE  LET r == PushNew(l, e, type, t)
         IN  /\ r \in Lists
             /\ \A m \in Nodes : r.time[m] = IF m = e THEN t ELSE l.time[m]
             /\ \E j \in 0 .. n :
                  /\ IsList(r, Ins(q, n, j, e), n + 1)
                  /\ j > 0 => timecmp(l.time[q[j]], t) > 0
                  /\ \A i \in j + 1 .. n : timecmp(l.time[q[i]], t) <= 0
<1> DEFINE tm == [l.time EXCEPT ![e] = t]
           tp == [l.type EXCEPT ![e] = type]
           l0 == [first |-> l.first, last |-> l.last, size |-> l.size, next |-> l.next,
                  prev |-> l.prev, time |-> tm, type |-> tp]
           r  == PushNew(l, e, type, t)
<1>1. /\ l.next \in [Nodes -> Link] /\ l.prev \in [Nodes -> Link] /\ l.first \in Link
      /\ l.last \in Link /\ l.size \in Int
      /\ l.time \in [Nodes -> Timevals]
      /\ l.type \in [Nodes -> {"none", "CHECKMEDIASTATE", "FRAME", "ENDOFSTREAM"}]
  BY DEF Lists
<1>2. [l EXCEPT !.time[e] = t, !.type[e] = type] = l0
  <2> DEFINE la == [first |-> l.first, last |-> l.last, size |-> l.size, next |-> l.next,
                    prev |-> l.prev, time |-> tm, type |-> l.type]
  <2>1. [l EXCEPT !.time[e] = t, !.type[e] = type]
          = [[l EXCEPT !.time[e] = t] EXCEPT !.type[e] = type]
    BY DEF Lists
  <2>2. [l EXCEPT !.time[e] = t] = la
    BY DEF Lists
  <2>3. [la EXCEPT !.type[e] = type] = l0
    OBVIOUS
  <2> HIDE DEF la, l0
  <2> QED  BY <2>1, <2>2, <2>3
<1>3. r = push_event(l0, e)
  BY <1>2 DEF PushNew
<1>4. /\ tm \in [Nodes -> Timevals] /\ \A m \in Nodes : tm[m] = IF m = e THEN t ELSE l.time[m]
      /\ tp \in [Nodes -> {"none", "CHECKMEDIASTATE", "FRAME", "ENDOFSTREAM"}]
  BY <1>1
<1> HIDE DEF tm, tp, r
<1>5. l0 \in Lists
  BY <1>1, <1>4 DEF Lists
<1>6. IsList(l0, q, n)
  BY DEF IsList
<1>7. n \in Nat /\ \A i \in 1 .. n : q[i] \in Nodes /\ q[i] # e
  BY DEF IsList, Of
<1>8. l0.time = tm
  OBVIOUS
<1> HIDE DEF l0
<1>9. /\ r \in Lists /\ r.time = tm
      /\ \E j \in 0 .. n :
           /\ IsList(r, Ins(q, n, j, e), n + 1)
           /\ j > 0 => timecmp(tm[q[j]], tm[e]) > 0
           /\ \A i \in j + 1 .. n : timecmp(tm[q[i]], tm[e]) <= 0
  <2>1. /\ push_event(l0, e) \in Lists /\ push_event(l0, e).time = l0.time
        /\ \E j \in 0 .. n :
             /\ IsList(push_event(l0, e), Ins(q, n, j, e), n + 1)
             /\ j > 0 => timecmp(l0.time[q[j]], l0.time[e]) > 0
             /\ \A i \in j + 1 .. n : timecmp(l0.time[q[i]], l0.time[e]) <= 0
    <3>1. \A i \in 1 .. n : q[i] # e
      BY <1>7
    <3> QED  BY <1>5, <1>6, <3>1, PushList
  <2> QED  BY <1>3, <1>8, <2>1, Zenon
<1>10. PICK j \in 0 .. n :
         /\ IsList(r, Ins(q, n, j, e), n + 1)
         /\ j > 0 => timecmp(tm[q[j]], tm[e]) > 0
         /\ \A i \in j + 1 .. n : timecmp(tm[q[i]], tm[e]) <= 0
  BY <1>9
<1>11. tm[e] = t /\ \A i \in 1 .. n : tm[q[i]] = l.time[q[i]]
  BY <1>4, <1>7
<1>12. j > 0 => timecmp(l.time[q[j]], t) > 0
  <2>1. j > 0 => j \in 1 .. n
    BY <1>7
  <2> QED  BY <1>10, <1>11, <2>1
<1>13. \A i \in j + 1 .. n : timecmp(l.time[q[i]], t) <= 0
  <2>1. \A i \in j + 1 .. n : i \in 1 .. n
    BY <1>7
  <2> QED  BY <1>10, <1>11, <2>1
<1>14. \A m \in Nodes : r.time[m] = IF m = e THEN t ELSE l.time[m]
  BY <1>4, <1>9
<1> QED  BY <1>9, <1>10, <1>12, <1>13, <1>14 DEF r

\* The elements of q with e inserted.
LEMMA InsOf ==
  ASSUME NEW q, NEW n \in Nat, NEW j \in 0 .. n, NEW e
  PROVE  /\ \A i \in 1 .. n + 1 :
              Ins(q, n, j, e)[i] = IF i <= j THEN q[i] ELSE IF i = j + 1 THEN e ELSE q[i - 1]
         /\ Of(Ins(q, n, j, e), n + 1) = Of(q, n) \cup {e}
<1> DEFINE p == Ins(q, n, j, e)
<1>1. \A i \in 1 .. n + 1 : p[i] = IF i <= j THEN q[i] ELSE IF i = j + 1 THEN e ELSE q[i - 1]
  BY DEF Ins
<1> HIDE DEF p
<1>2. ASSUME NEW x \in Of(p, n + 1) PROVE x \in Of(q, n) \cup {e}
  <2>1. PICK i \in 1 .. n + 1 : x = p[i]
    BY DEF Of
  <2>2. i <= j => i \in 1 .. n
    OBVIOUS
  <2>3. i > j + 1 => i - 1 \in 1 .. n
    OBVIOUS
  <2> QED  BY <1>1, <2>1, <2>2, <2>3 DEF Of
<1>3. ASSUME NEW x \in Of(q, n) PROVE x \in Of(p, n + 1)
  <2>1. PICK i \in 1 .. n : x = q[i]
    BY DEF Of
  <2>2. CASE i <= j
    <3>1. i \in 1 .. n + 1 /\ p[i] = x
      BY <1>1, <2>1, <2>2
    <3> QED  BY <3>1 DEF Of
  <2>3. CASE i > j
    <3>1. i + 1 \in 1 .. n + 1 /\ p[i + 1] = x
      BY <1>1, <2>1, <2>3
    <3> QED  BY <3>1 DEF Of
  <2> QED  BY <2>2, <2>3
<1>4. e \in Of(p, n + 1)
  <2>1. j + 1 \in 1 .. n + 1 /\ p[j + 1] = e
    BY <1>1
  <2> QED  BY <2>1 DEF Of
<1>5. Of(p, n + 1) = Of(q, n) \cup {e}
  BY <1>2, <1>3, <1>4
<1> QED  BY <1>1, <1>5 DEF p

\* timecmp orders normalised times.
LEMMA Later ==
  ASSUME NEW a \in Timevals, NEW b \in Timevals, Normal(a), Normal(b)
  PROVE  /\ timecmp(a, b) > 0 => Micros(a) < Micros(b)
         /\ timecmp(a, b) <= 0 => Micros(b) <= Micros(a)
<1>1. a.usec \in 0 .. 2 * USEC - 1
  BY ScaleAssumption DEF Normal
<1>2. timecmp(a, b) > 0 <=> Micros(b) > Micros(a)
  BY <1>1, TimecmpSign
<1>3. timecmp(a, b) \in Int /\ Micros(a) \in Int /\ Micros(b) \in Int
  BY MicrosInt, ScaleAssumption DEF timecmp, calculate_delta, Timevals
<1> QED  BY <1>2, <1>3

\* Where the times of the list are normalised and in order, they stay so.
LEMMA InsInTime ==
  ASSUME NEW l \in Lists, NEW q, NEW n, IsList(l, q, n), InTime(l, q, n), NEW e \in Nodes,
         e \notin Of(q, n), NEW t \in Timevals, Normal(t), NEW r,
         \A m \in Nodes : r.time[m] = IF m = e THEN t ELSE l.time[m],
         NEW j \in 0 .. n, j > 0 => timecmp(l.time[q[j]], t) > 0,
         \A i \in j + 1 .. n : timecmp(l.time[q[i]], t) <= 0
  PROVE  LET p == Ins(q, n, j, e)
         IN  /\ InTime(r, p, n + 1)
             /\ n > 0 => Micros(r.time[p[1]]) <= Micros(l.time[q[1]])
             /\ \/ Micros(r.time[p[1]]) = Micros(t)
                \/ n > 0 /\ Micros(r.time[p[1]]) = Micros(l.time[q[1]])
<1> DEFINE p == Ins(q, n, j, e)
           old(i) == Micros(l.time[q[i]])
           new(i) == Micros(r.time[p[i]])
           x == Micros(t)
<1>1. n \in Nat /\ \A i \in 1 .. n : q[i] \in Nodes /\ q[i] # e
  BY DEF IsList, Of
<1>2. /\ \A i \in 1 .. n : l.time[q[i]] \in Timevals /\ Normal(l.time[q[i]])
      /\ \A i \in 1 .. n - 1 : old(i) <= old(i + 1)
  BY <1>1 DEF Lists, InTime
<1>3. x \in Int /\ \A i \in 1 .. n : old(i) \in Int
  BY <1>2, MicrosInt
<1>4. /\ \A i \in 1 .. n : timecmp(l.time[q[i]], t) > 0 => old(i) < x
      /\ \A i \in 1 .. n : timecmp(l.time[q[i]], t) <= 0 => x <= old(i)
  BY <1>2, Later
<1>5. \A i \in 1 .. n + 1 : p[i] = IF i <= j THEN q[i] ELSE IF i = j + 1 THEN e ELSE q[i - 1]
  BY <1>1, InsOf
<1> HIDE DEF p
<1>6. ASSUME NEW i \in 1 .. n + 1
      PROVE  new(i) = IF i <= j THEN old(i) ELSE IF i = j + 1 THEN x ELSE old(i - 1)
  <2>1. CASE i <= j
    <3>1. i \in 1 .. n /\ p[i] = q[i] /\ q[i] \in Nodes /\ q[i] # e
      BY <1>1, <1>5, <2>1
    <3> QED  BY <2>1, <3>1
  <2>2. CASE i = j + 1
    BY <1>1, <1>5, <2>2
  <2>3. CASE i > j + 1
    <3>1. i - 1 \in 1 .. n /\ p[i] = q[i - 1] /\ q[i - 1] \in Nodes /\ q[i - 1] # e
          /\ ~(i <= j) /\ i # j + 1
      BY <1>1, <1>5, <2>3
    <3> QED  BY <3>1
  <2> QED  BY <1>1, <2>1, <2>2, <2>3
<1>7. j > 0 => old(j) < x
  <2>1. j > 0 => j \in 1 .. n
    BY <1>1
  <2> QED  BY <1>4, <2>1
<1>8. j < n => x <= old(j + 1)
  <2>1. j < n => j + 1 \in 1 .. n /\ j + 1 \in j + 1 .. n
    BY <1>1
  <2> QED  BY <1>4, <2>1
<1>9. \A m \in Nodes : Normal(r.time[m])
  BY DEF InTime
<1> HIDE DEF old, new, x
<1>10. \A i \in 1 .. n : new(i) <= new(i + 1)
  <2> TAKE i \in 1 .. n
  <2>0. i \in 1 .. n + 1 /\ i + 1 \in 1 .. n + 1
    BY <1>1
  <2>1. CASE i < j
    <3>1. new(i) = old(i) /\ new(i + 1) = old(i + 1) /\ i \in 1 .. n - 1
      BY <1>1, <1>6, <2>0, <2>1
    <3> QED  BY <1>2, <3>1
  <2>2. CASE i = j
    <3>1. new(i) = old(j) /\ new(i + 1) = x /\ j \in 1 .. n
      BY <1>1, <1>6, <2>0, <2>2
    <3> QED  BY <1>3, <1>7, <3>1
  <2>3. CASE i = j + 1
    <3>1. new(i) = x /\ new(i + 1) = old(j + 1)
      BY <1>1, <1>6, <2>0, <2>3
    <3> QED  BY <1>1, <1>8, <2>3, <3>1
  <2>4. CASE i > j + 1
    <3>1. new(i) = old(i - 1) /\ new(i + 1) = old(i) /\ i - 1 \in 1 .. n - 1 /\ i - 1 + 1 = i
      BY <1>1, <1>6, <2>0, <2>4
    <3>2. old(i - 1) <= old(i - 1 + 1)
      BY <1>2, <3>1
    <3> QED  BY <3>1, <3>2
  <2> QED  BY <1>1, <2>1, <2>2, <2>3, <2>4
<1>11. /\ n > 0 => new(1) <= old(1)
       /\ new(1) = x \/ (n > 0 /\ new(1) = old(1))
  <2>1. 1 \in 1 .. n + 1 /\ (n > 0 => 1 \in 1 .. n)
    BY <1>1
  <2>2. CASE j = 0
    <3>1. new(1) = x
      BY <1>6, <2>1, <2>2
    <3> QED  BY <1>1, <1>8, <2>2, <3>1
  <2>3. CASE j > 0
    <3>1. new(1) = old(1) /\ n > 0
      BY <1>1, <1>6, <2>1, <2>3
    <3> QED  BY <1>3, <2>1, <3>1
  <2> QED  BY <1>1, <2>2, <2>3
<1>12. InTime(r, p, n + 1)
  <2>1. \A i \in 1 .. n + 1 - 1 : new(i) <= new(i + 1)
    BY <1>1, <1>10
  <2>2. \A i \in 1 .. n + 1 - 1 : Micros(r.time[p[i]]) <= Micros(r.time[p[i + 1]])
    BY <2>1 DEF new
  <2>3. n \in Nat
    BY <1>1
  <2> QED  BY <1>9, <2>2, <2>3 DEF InTime
<1> QED  BY <1>11, <1>12, Zenon DEF p, old, new, x

\* The elements of q without its first one.
LEMMA RestOf ==
  ASSUME NEW l, NEW q, NEW n, IsList(l, q, n), n > 0
  PROVE  /\ \A i \in 1 .. n - 1 : Rest(q, n)[i] = q[i + 1]
         /\ Of(Rest(q, n), n - 1) = Of(q, n) \ {q[1]}
         /\ q[1] \in Of(q, n) /\ q[1] \in Nodes /\ l.first = q[1]
<1> DEFINE p == Rest(q, n)
<1>1. n \in Nat /\ 1 \in 1 .. n /\ \A i \in 1 .. n : q[i] \in Nodes
  BY DEF IsList
<1>2. \A i, k \in 1 .. n : q[i] = q[k] => i = k
  BY DEF IsList
<1>3. \A i \in 1 .. n - 1 : p[i] = q[i + 1]
  BY DEF Rest
<1> HIDE DEF p
<1>4. ASSUME NEW x \in Of(p, n - 1) PROVE x \in Of(q, n) /\ x # q[1]
  <2>1. PICK i \in 1 .. n - 1 : x = p[i]
    BY DEF Of
  <2>2. i + 1 \in 1 .. n /\ x = q[i + 1] /\ i + 1 # 1
    BY <1>1, <1>3, <2>1
  <2>3. x # q[1]
    BY <1>1, <1>2, <2>2
  <2> QED  BY <2>2, <2>3 DEF Of
<1>5. ASSUME NEW x \in Of(q, n), x # q[1] PROVE x \in Of(p, n - 1)
  <2>1. PICK i \in 1 .. n : x = q[i]
    BY DEF Of
  <2>2. i - 1 \in 1 .. n - 1 /\ i - 1 + 1 = i
    BY <1>1, <1>5, <2>1
  <2>3. x = p[i - 1]
    BY <1>3, <2>1, <2>2
  <2> QED  BY <2>2, <2>3 DEF Of
<1>6. Of(p, n - 1) = Of(q, n) \ {q[1]}
  BY <1>4, <1>5
<1>7. q[1] \in Of(q, n)
  BY <1>1 DEF Of
<1>8. l.first = q[1]
  <2>1. n # 0
    OBVIOUS
  <2> QED  BY <2>1 DEF IsList
<1> QED  BY <1>1, <1>3, <1>6, <1>7, <1>8 DEF p

\* Taking the first event keeps the times in order.
LEMMA RestInTime ==
  ASSUME NEW l, NEW q, NEW n, IsList(l, q, n), n > 0, InTime(l, q, n), NEW r, r.time = l.time
  PROVE  InTime(r, Rest(q, n), n - 1)
<1> DEFINE p == Rest(q, n)
<1>1. n \in Nat
  BY DEF IsList
<1>2. \A i \in 1 .. n - 1 : p[i] = q[i + 1]
  BY RestOf
<1> HIDE DEF p
<1>3. ASSUME NEW i \in 1 .. n - 1 - 1
      PROVE  Micros(r.time[p[i]]) <= Micros(r.time[p[i + 1]])
  <2>1. p[i] = q[i + 1] /\ p[i + 1] = q[i + 1 + 1] /\ i + 1 \in 1 .. n - 1
    BY <1>1, <1>2
  <2> QED  BY <2>1 DEF InTime
<1>4. \A m \in Nodes : Normal(r.time[m])
  BY DEF InTime
<1>5. InTime(r, p, n - 1)
  BY <1>1, <1>3, <1>4 DEF InTime
<1> QED  BY <1>5 DEF p

\* So does forgetting nodes outside the list.
LEMMA FreeInTime ==
  ASSUME NEW l, NEW q, NEW n, IsList(l, q, n), InTime(l, q, n), NEW ns, Of(q, n) \cap ns = {},
         NEW r, \A m \in Nodes : r.time[m] = IF m \in ns THEN Zero ELSE l.time[m]
  PROVE  InTime(r, q, n)
<1>1. n \in Nat /\ \A i \in 1 .. n : q[i] \in Nodes /\ q[i] \notin ns
  BY DEF IsList, Of
<1>2. Normal(Zero)
  BY ScaleAssumption DEF Zero, Normal
<1>3. \A m \in Nodes : Normal(r.time[m])
  BY <1>2 DEF InTime
<1>4. \A i \in 1 .. n : r.time[q[i]] = l.time[q[i]]
  BY <1>1
<1>5. ASSUME NEW i \in 1 .. n - 1
      PROVE  Micros(r.time[q[i]]) <= Micros(r.time[q[i + 1]])
  <2>1. i \in 1 .. n /\ i + 1 \in 1 .. n
    BY <1>1
  <2> QED  BY <1>4, <2>1 DEF InTime
<1> QED  BY <1>1, <1>3, <1>5 DEF InTime

\* empty_queue forgets all nodes.
LEMMA EmptyList ==
  ASSUME NEW l \in Lists, NEW ns
  PROVE  LET r == Free(empty_queue(l), ns)
         IN  /\ r \in Lists /\ IsList(r, <<>>, 0)
             /\ \A m \in Nodes : r.time[m] = IF m \in ns THEN Zero ELSE l.time[m]
<1> DEFINE l0 == [first |-> NULL, last |-> NULL, size |-> 0, next |-> l.next, prev |-> l.prev,
                  time |-> l.time, type |-> l.type]
<1>1. empty_queue(l) = l0
  <2> DEFINE la == [first |-> NULL, last |-> l.last, size |-> l.size, next |-> l.next,
                    prev |-> l.prev, time |-> l.time, type |-> l.type]
             lb == [first |-> NULL, last |-> NULL, size |-> l.size, next |-> l.next,
                    prev |-> l.prev, time |-> l.time, type |-> l.type]
  <2>1. empty_queue(l) = [[[l EXCEPT !.first = NULL] EXCEPT !.last = NULL] EXCEPT !.size = 0]
    BY DEF empty_queue, Lists
  <2>2. [l EXCEPT !.first = NULL] = la
    BY DEF Lists
  <2>3. [la EXCEPT !.last = NULL] = lb
    OBVIOUS
  <2>4. [lb EXCEPT !.size = 0] = l0
    OBVIOUS
  <2> HIDE DEF la, lb, l0
  <2> QED  BY <2>1, <2>2, <2>3, <2>4
<1>2. l0 \in Lists /\ l0.time = l.time
  BY DEF Lists, Link
<1>3. IsList(l0, <<>>, 0)
  BY DEF IsList
<1> HIDE DEF l0
<1>4. \A i \in 1 .. 0 : <<>>[i] \notin ns
  OBVIOUS
<1>5. LET r == Free(l0, ns)
      IN  /\ r \in Lists /\ IsList(r, <<>>, 0)
          /\ \A m \in Nodes : r.time[m] = IF m \in ns THEN Zero ELSE l0.time[m]
  BY <1>2, <1>3, <1>4, FreeList
<1> QED  BY <1>1, <1>2, <1>5

\* malloc returns a node that is free, when there is one: the least of them.
LEMMA MallocFree ==
  ASSUME used \subseteq Nodes, Room
  PROVE  Malloc \in Nodes /\ Malloc \notin used
<1> DEFINE s == Nodes \ used
<1>1. s \in SUBSET Nat /\ s # {}
  <2>1. s # {}
    BY DEF Room
  <2>2. Nodes \subseteq Nat
    BY BoundsAssumption DEF Nodes
  <2> QED  BY <2>1, <2>2
<1> HIDE DEF s
<1>2. \E m \in s : \A i \in s : m <= i
  BY <1>1, Least
<1>3. \E m \in Nodes \ used : \A i \in Nodes \ used : m <= i
  BY <1>2 DEF s
<1>4. Malloc \in Nodes \ used
  BY <1>3, Zenon DEF Malloc
<1> QED  BY <1>4

\* The delta to a time that is not earlier is a valid timeout.
LEMMA DeltaForward ==
  ASSUME NEW a \in Timevals, NEW b \in Timevals, Normal(a), Normal(b)
  PROVE  LET d == calculate_delta(a, b)
         IN  /\ d \in Timevals /\ d.usec >= 0
             /\ Micros(d) = Micros(b) - Micros(a)
             /\ d.sec < 0 <=> Micros(b) < Micros(a)
<1> DEFINE d == calculate_delta(a, b)
<1>1. d \in Timevals /\ Micros(d) = Micros(b) - Micros(a)
  BY DeltaExact
<1>2. d.usec \in 0 .. USEC - 1
  BY ScaleAssumption DEF calculate_delta, Normal, Timevals
<1>3. Micros(a) \in Int /\ Micros(b) \in Int
  BY MicrosInt
<1> HIDE DEF d
<1>4. d.sec \in Int /\ d.usec \in Int /\ USEC \in Int /\ USEC > 0
  BY <1>1, ScaleAssumption DEF Timevals
<1>5. d.sec < 0 => Micros(d) < 0
  BY <1>2, <1>4, SecondsOutweigh DEF Micros
<1>6. d.sec >= 0 => Micros(d) >= 0
  <2>1. d.sec >= 0 => d.sec * USEC >= 0
    BY <1>4
  <2> QED  BY <1>2, <1>4, <2>1 DEF Micros
<1>7. d.sec < 0 <=> Micros(b) < Micros(a)
  BY <1>1, <1>3, <1>4, <1>5, <1>6
<1> QED  BY <1>1, <1>2, <1>4, <1>7 DEF d

\* The timeout of zero is a timeout.
LEMMA MicrosZero == Micros(Zero) = 0 /\ Zero \in Timevals /\ Zero # NoTimeout
BY ScaleAssumption DEF Micros, Zero, Timevals, NoTimeout

\* A timer's stamp is a pair of integers, carried or not.
LEMMA StampType ==
  ASSUME NEW t \in Timevals, NEW ms \in Nat
  PROVE  timeout_stamp(t, ms) \in Timevals
<1>1. ms \div 1000 \in Int /\ ms % 1000 \in 0 .. 999
  OBVIOUS
<1> DEFINE u == (ms % 1000) * USEC
<1>2. u \in Int
  BY <1>1, ScaleAssumption
<1> HIDE DEF u
<1>3. u \div 1000 \in Int
  BY <1>2
<1> QED  BY <1>1, <1>3 DEF timeout_stamp, Timevals, u

-----------------------------------------------------------------------------
(*****************************************************************************)
(* One insertion, the next timeout, and the abstract queue.                 *)
(*****************************************************************************)
\* A new event in a list whose times are in order.
LEMMA Pushed ==
  ASSUME NEW l \in Lists, NEW q, NEW n, IsList(l, q, n), Carry \/ InTime(l, q, n),
         NEW e \in Nodes, e \notin Of(q, n),
         NEW type \in {"CHECKMEDIASTATE", "FRAME", "ENDOFSTREAM"},
         NEW t \in Timevals, MayStamp(t)
  PROVE  LET r == PushNew(l, e, type, t)
         IN  /\ r \in Lists
             /\ \A m \in Nodes : r.time[m] = IF m = e THEN t ELSE l.time[m]
             /\ \E j \in 0 .. n : \E p :
                  /\ p = Ins(q, n, j, e)
                  /\ IsList(r, p, n + 1)
                  /\ Of(p, n + 1) = Of(q, n) \cup {e}
                  /\ \/ Carry
                     \/ /\ InTime(r, p, n + 1)
                        /\ n > 0 => Micros(r.time[p[1]]) <= Micros(l.time[q[1]])
                        /\ \/ Micros(r.time[p[1]]) = Micros(t)
                           \/ n > 0 /\ Micros(r.time[p[1]]) = Micros(l.time[q[1]])
<1> DEFINE r == PushNew(l, e, type, t)
<1>1. /\ r \in Lists
      /\ \A m \in Nodes : r.time[m] = IF m = e THEN t ELSE l.time[m]
      /\ \E j \in 0 .. n :
           /\ IsList(r, Ins(q, n, j, e), n + 1)
           /\ j > 0 => timecmp(l.time[q[j]], t) > 0
           /\ \A i \in j + 1 .. n : timecmp(l.time[q[i]], t) <= 0
  BY PushNewList
<1> HIDE DEF r
<1>2. PICK j \in 0 .. n :
        /\ IsList(r, Ins(q, n, j, e), n + 1)
        /\ j > 0 => timecmp(l.time[q[j]], t) > 0
        /\ \A i \in j + 1 .. n : timecmp(l.time[q[i]], t) <= 0
  BY <1>1
<1> DEFINE p == Ins(q, n, j, e)
<1>3. n \in Nat
  BY DEF IsList
<1>4. Of(p, n + 1) = Of(q, n) \cup {e}
  BY <1>3, InsOf
<1>5. \/ Carry
      \/ /\ InTime(r, p, n + 1)
         /\ n > 0 => Micros(r.time[p[1]]) <= Micros(l.time[q[1]])
         /\ \/ Micros(r.time[p[1]]) = Micros(t)
            \/ n > 0 /\ Micros(r.time[p[1]]) = Micros(l.time[q[1]])
  <2>1. CASE Carry
    BY <2>1
  <2>2. CASE ~Carry
    <3>1. InTime(l, q, n) /\ Normal(t)
      BY <2>2 DEF MayStamp
    <3> QED  BY <1>1, <1>2, <3>1, InsInTime
  <2> QED  BY <2>1, <2>2
<1>6. IsList(r, p, n + 1)
  BY <1>2
<1> HIDE DEF p
<1>7. p = Ins(q, n, j, e)
  BY DEF p
<1> QED  BY <1>1, <1>4, <1>5, <1>6, <1>7, Zenon DEF r

\* The timeout computed from the event that was handled.
LEMMA NextTimeout ==
  ASSUME NEW l \in Lists, NEW q, NEW n, IsList(l, q, n), Carry \/ InTime(l, q, n),
         NEW e \in Nodes, NEW x \in Timevals,
         Carry \/ /\ Micros(l.time[e]) <= Micros(x)
                  /\ n > 0 => Micros(l.time[e]) <= Micros(l.time[q[1]]),
         NEW ti, NEW w,
         IF l.size > 0
           THEN ti = calculate_delta(l.time[e], l.time[l.first]) /\ w = Micros(x) + Micros(ti)
           ELSE ti = NoTimeout /\ w = 0
  PROVE  /\ ti \in Timevals /\ w \in Int
         /\ \/ Carry \/ ti = NoTimeout
            \/ n > 0 /\ Micros(l.time[q[1]]) <= w /\ ti.sec >= 0 /\ ti.usec >= 0
<1>1. n \in Nat /\ l.size = n
  BY DEF IsList
<1>2. CASE n = 0
  <2>1. ti = NoTimeout /\ w = 0
    BY <1>1, <1>2
  <2> QED  BY <2>1 DEF NoTimeout, Timevals
<1>3. CASE n # 0
  <2> DEFINE a == l.time[e]
             b == l.time[q[1]]
  <2>1. l.first = q[1] /\ q[1] \in Nodes
    BY <1>1, <1>3, RestOf
  <2>2. a \in Timevals /\ b \in Timevals
    BY <2>1 DEF Lists
  <2>3. ti = calculate_delta(a, b) /\ w = Micros(x) + Micros(ti)
    BY <1>1, <1>3, <2>1
  <2>4. ti \in Timevals
    BY <2>2, <2>3, DeltaExact
  <2>5. w \in Int
    BY <2>3, <2>4, MicrosInt
  <2>6. CASE Carry
    BY <2>4, <2>5, <2>6
  <2>7. CASE ~Carry
    <3>1. Normal(a) /\ Normal(b)
      BY <2>1, <2>7 DEF InTime
    <3>2. Micros(a) <= Micros(x) /\ Micros(a) <= Micros(b)
      BY <1>1, <1>3, <2>7
    <3>3. Micros(a) \in Int /\ Micros(b) \in Int /\ Micros(x) \in Int
      BY <2>2, MicrosInt
    <3>4. /\ ti.usec >= 0 /\ Micros(ti) = Micros(b) - Micros(a)
          /\ ti.sec < 0 <=> Micros(b) < Micros(a)
      BY <2>2, <2>3, <3>1, DeltaForward
    <3>5. ti.sec \in Int
      BY <2>4 DEF Timevals
    <3>6. ti.sec >= 0 /\ Micros(b) <= w
      BY <2>3, <3>2, <3>3, <3>4, <3>5
    <3> QED  BY <1>1, <1>3, <2>4, <2>5, <3>4, <3>6
  <2> QED  BY <2>6, <2>7
<1> QED  BY <1>2, <1>3

\* The abstract queue of a list.
Event(l, x) == [id |-> x, at |-> Micros(l.time[x])]
EventSet == [id : Nodes, at : Int]
Events(l, q, n) == [k \in 1 .. n |-> Event(l, q[k])]

\* A function on 1 .. n is a sequence.
LEMMA FunSeq ==
  ASSUME NEW S, NEW n \in Nat, NEW f \in [1 .. n -> S]
  PROVE  f \in Seq(S) /\ Len(f) = n
OBVIOUS

\* The abstract queue of a list of n nodes has length n.
LEMMA EventsSeq ==
  ASSUME NEW l \in Lists, NEW q, NEW n, IsList(l, q, n)
  PROVE  /\ Events(l, q, n) \in Seq(EventSet)
         /\ Len(Events(l, q, n)) = n
         /\ \A k \in 1 .. n : Events(l, q, n)[k] = Event(l, q[k])
<1>1. n \in Nat /\ \A k \in 1 .. n : q[k] \in Nodes
  BY DEF IsList
<1>2. ASSUME NEW k \in 1 .. n PROVE Event(l, q[k]) \in EventSet
  <2>1. Micros(l.time[q[k]]) \in Int
    BY <1>1, MicrosInt DEF Lists
  <2> QED  BY <1>1, <2>1 DEF Event, EventSet
<1>3. Events(l, q, n) \in [1 .. n -> EventSet]
  BY <1>2 DEF Events
<1>4. Events(l, q, n) \in Seq(EventSet) /\ Len(Events(l, q, n)) = n
  BY <1>1, <1>3, FunSeq
<1> QED  BY <1>4 DEF Events

\* Where the times of the list are in order, so is the abstract queue.
LEMMA EventsSorted ==
  ASSUME NEW l \in Lists, NEW q, NEW n, IsList(l, q, n), InTime(l, q, n)
  PROVE  Abstract!Sorted(Events(l, q, n))
<1>1. n \in Nat
  BY DEF IsList
<1>2. Len(Events(l, q, n)) = n
  BY EventsSeq
<1>3. ASSUME NEW i \in 1 .. n - 1
      PROVE  Events(l, q, n)[i].at <= Events(l, q, n)[i + 1].at
  <2>1. i \in 1 .. n /\ i + 1 \in 1 .. n
    BY <1>1
  <2>2. Micros(l.time[q[i]]) <= Micros(l.time[q[i + 1]])
    BY DEF InTime
  <2>3. Events(l, q, n)[i] = Event(l, q[i]) /\ Events(l, q, n)[i + 1] = Event(l, q[i + 1])
    BY <2>1, EventsSeq
  <2> QED  BY <2>2, <2>3 DEF Event
<1> QED  BY <1>2, <1>3 DEF Abstract!Sorted

\* Taking the first event takes the head of the abstract queue.
LEMMA EventsRest ==
  ASSUME NEW l \in Lists, NEW q, NEW n, IsList(l, q, n), n > 0,
         NEW r \in Lists, IsList(r, Rest(q, n), n - 1),
         \A i \in 1 .. n : i > 1 => r.time[q[i]] = l.time[q[i]]
  PROVE  Events(r, Rest(q, n), n - 1) = Tail(Events(l, q, n))
<1> DEFINE p == Rest(q, n)
           s == Events(l, q, n)
           t == Events(r, p, n - 1)
<1>1. n \in Nat
  BY DEF IsList
<1>2. /\ s \in Seq(EventSet) /\ Len(s) = n
      /\ \A k \in 1 .. n : s[k] = Event(l, q[k])
  BY EventsSeq
<1>3. /\ t \in Seq(EventSet) /\ Len(t) = n - 1
      /\ \A k \in 1 .. n - 1 : t[k] = Event(r, p[k])
  BY EventsSeq
<1>4. \A k \in 1 .. n - 1 : p[k] = q[k + 1]
  BY RestOf
<1> HIDE DEF p, s, t
<1>5. /\ Tail(s) \in Seq(EventSet) /\ Len(Tail(s)) = n - 1
      /\ \A k \in 1 .. n - 1 : Tail(s)[k] = s[k + 1]
  BY <1>1, <1>2
<1>6. ASSUME NEW k \in 1 .. n - 1 PROVE t[k] = Tail(s)[k]
  <2>1. k + 1 \in 1 .. n /\ k + 1 > 1
    BY <1>1
  <2>2. Event(r, q[k + 1]) = Event(l, q[k + 1])
    BY <2>1 DEF Event
  <2> QED  BY <1>2, <1>3, <1>4, <1>5, <2>1, <2>2
<1>7. t = Tail(s)
  BY <1>3, <1>5, <1>6, SeqEqual
<1> QED  BY <1>7 DEF p, s, t

\* RemoveAt, as TimerQueue uses it.
LEMMA RemoveAtIs ==
  ASSUME NEW t, NEW i
  PROVE  Abstract!RemoveAt(t, i) = SubSeq(t, 1, i - 1) \o SubSeq(t, i + 1, Len(t))
BY Zenon DEF Abstract!RemoveAt

\* Removing the new event leaves the abstract queue of before.
LEMMA EventsIns ==
  ASSUME NEW l \in Lists, NEW q, NEW n, IsList(l, q, n), NEW e, NEW j \in 0 .. n,
         NEW r \in Lists, NEW p, p = Ins(q, n, j, e), IsList(r, p, n + 1), InTime(r, p, n + 1),
         \A i \in 1 .. n : r.time[q[i]] = l.time[q[i]]
  PROVE  Abstract!Inserted(Events(l, q, n), Events(r, p, n + 1))
<1> DEFINE s == Events(l, q, n)
           t == Events(r, p, n + 1)
<1>1. n \in Nat
  BY DEF IsList
<1>2. /\ s \in Seq(EventSet) /\ Len(s) = n
      /\ \A k \in 1 .. n : s[k] = Event(l, q[k])
  BY EventsSeq
<1>3. /\ t \in Seq(EventSet) /\ Len(t) = n + 1
      /\ \A k \in 1 .. n + 1 : t[k] = Event(r, p[k])
  BY EventsSeq
<1>4. \A i \in 1 .. n + 1 : p[i] = IF i <= j THEN q[i] ELSE IF i = j + 1 THEN e ELSE q[i - 1]
  <2>1. \A i \in 1 .. n + 1 :
          Ins(q, n, j, e)[i] = IF i <= j THEN q[i] ELSE IF i = j + 1 THEN e ELSE q[i - 1]
    BY DEF Ins
  <2> QED  BY <2>1, Zenon
<1>5. Abstract!Sorted(t)
  BY EventsSorted
<1> HIDE DEF s, t
<1>6. \A k \in 1 .. n : s[k] = IF k <= j THEN t[k] ELSE t[k + 1]
  <2> TAKE k \in 1 .. n
  <2>1. k \in 1 .. n + 1 /\ k + 1 \in 1 .. n + 1 /\ k + 1 - 1 = k
    BY <1>1
  <2>4. Event(r, q[k]) = Event(l, q[k])
    BY DEF Event
  <2>2. CASE k <= j
    BY <1>2, <1>3, <1>4, <2>1, <2>2, <2>4
  <2>3. CASE ~(k <= j)
    <3>1. ~(k + 1 <= j) /\ k + 1 # j + 1
      BY <1>1, <2>3
    <3>2. p[k + 1] = q[k]
      BY <1>4, <2>1, <3>1
    <3> QED  BY <1>2, <1>3, <2>1, <2>3, <2>4, <3>2
  <2> QED  BY <2>2, <2>3
<1> DEFINE a == SubSeq(t, 1, j)
           b == SubSeq(t, j + 2, n + 1)
<1>7. /\ a \in Seq(EventSet) /\ Len(a) = j
      /\ \A k \in 1 .. j : a[k] = t[k]
  BY <1>1, <1>3
<1>8. /\ b \in Seq(EventSet) /\ Len(b) = n - j
      /\ \A k \in 1 .. n - j : b[k] = t[k + j + 1]
  BY <1>1, <1>3
<1> HIDE DEF a, b
<1>9. /\ a \o b \in Seq(EventSet) /\ Len(a \o b) = n
      /\ \A k \in 1 .. n : (a \o b)[k] = IF k <= j THEN a[k] ELSE b[k - j]
  BY <1>1, <1>7, <1>8, ConcatProperties
<1>10. \A k \in 1 .. n : (a \o b)[k] = s[k]
  <2> TAKE k \in 1 .. n
  <2>1. CASE k <= j
    <3>1. k \in 1 .. j /\ a[k] = t[k]
      BY <1>1, <1>7, <2>1
    <3> QED  BY <1>6, <1>9, <2>1, <3>1
  <2>2. CASE ~(k <= j)
    <3>1. k - j \in 1 .. n - j /\ k - j + j + 1 = k + 1
      BY <1>1, <2>2
    <3> QED  BY <1>6, <1>8, <1>9, <2>2, <3>1
  <2> QED  BY <2>1, <2>2
<1>11. s = a \o b
  BY <1>2, <1>9, <1>10, SeqEqual
<1>12. /\ j + 1 \in 1 .. Len(t)
       /\ s = Abstract!RemoveAt(t, j + 1)
  <2>1. (j + 1) - 1 = j /\ j + 1 + 1 = j + 2 /\ j + 1 \in 1 .. Len(t) /\ Len(t) = n + 1
    BY <1>1, <1>3
  <2>2. Abstract!RemoveAt(t, j + 1) = SubSeq(t, 1, (j + 1) - 1) \o SubSeq(t, j + 1 + 1, Len(t))
    BY RemoveAtIs
  <2> QED  BY <1>11, <2>1, <2>2 DEF a, b
<1> QED  BY <1>2, <1>3, <1>5, <1>12, Zenon DEF Abstract!Inserted, s, t

-----------------------------------------------------------------------------
(*****************************************************************************)
(* The inductive invariant and the steps.  Each step lemma also says which  *)
(* step of TimerQueue it is.                                                *)
(*****************************************************************************)
\* The types, with the times that are normalised by construction.
TypeInv ==
  /\ list \in Lists /\ used \subseteq Nodes
  /\ now \in Timevals /\ Normal(now)
  /\ base \in Timevals /\ (base # NoTimeout => Normal(base))
  /\ prev \in Timevals
  /\ timeind \in Timevals /\ wake \in Int /\ mpc \in {"select", "fdloop"}

\* The list is a sequence of the allocated nodes, in order unless times carry.
ListInv ==
  \E q, n : IsList(list, q, n) /\ used = Of(q, n) /\ (Carry \/ InTime(list, q, n))

\* An armed timer is valid, has an event and does not expire before it is due.
WakeInv ==
  \/ Carry \/ timeind = NoTimeout
  \/ /\ used # {} /\ Micros(list.time[list.first]) <= wake
     /\ timeind.sec >= 0 /\ timeind.usec >= 0

Inv == TypeInv /\ ListInv /\ WakeInv

\* The abstract queue is the list walked by next.
Shape == \A q, n : IsList(list, q, n) => Queue = Events(list, q, n)

\* What Queue is, whichever sequence of nodes the list is.
LEMMA QueueShape == Shape
<1> SUFFICES ASSUME NEW q, NEW n, IsList(list, q, n) PROVE Queue = Events(list, q, n)
  BY DEF Shape
<1>1. n \in Nat /\ n <= MaxEvents
  BY ListBound
<1>2. \A k \in 1 .. n : Nth(k) = q[k]
  BY <1>1, NthOf
<1>3. list.size = n
  BY DEF IsList
<1> QED  BY <1>2, <1>3 DEF Queue, EventOf, Events, Event

\* size, first and the set of nodes agree on whether the list is empty.
LEMMA NonEmpty ==
  ASSUME NEW l, NEW q, NEW n, IsList(l, q, n)
  PROVE  n \in Nat /\ l.size = n /\ (Of(q, n) # {} <=> n > 0) /\ (l.first # NULL <=> n > 0)
         /\ (n > 0 => l.first = q[1] /\ q[1] \in Nodes)
<1>1. n \in Nat /\ l.size = n
  BY DEF IsList
<1>2. Of(q, n) # {} <=> n > 0
  <2>1. n > 0 => q[1] \in Of(q, n)
    BY <1>1 DEF Of
  <2>2. n = 0 => Of(q, n) = {}
    BY DEF Of
  <2> QED  BY <1>1, <2>1, <2>2
<1>3. n > 0 => l.first = q[1] /\ q[1] \in Nodes
  BY RestOf
<1>4. n = 0 => l.first = NULL
  BY DEF IsList
<1>5. NULL \notin Nodes
  BY BoundsAssumption DEF Nodes, NULL
<1> QED  BY <1>1, <1>2, <1>3, <1>4, <1>5

\* The server starts with an empty list and no timeout.
LEMMA InitInv ==
  ASSUME Init
  PROVE  Inv
<1>1. IsList(list, <<>>, 0)
  BY DEF Init, IsList
<1>2. Of(<<>>, 0) = {}
  BY DEF Of
<1>3. NULL \in Link /\ Zero \in Timevals /\ Normal(Zero) /\ NoTimeout \in Timevals
  BY ScaleAssumption DEF Link, Zero, Timevals, NoTimeout, Normal
<1>4. list \in Lists
  BY <1>3 DEF Init, Lists
<1>5. Start \in Timevals /\ Normal(Start)
  BY BoundsAssumption
<1>6. TypeInv
  BY <1>3, <1>4, <1>5 DEF Init, TypeInv
<1>7. InTime(list, <<>>, 0)
  BY <1>3 DEF Init, InTime
<1>8. used = {} /\ timeind = NoTimeout
  BY DEF Init
<1> QED  BY <1>1, <1>2, <1>6, <1>7, <1>8 DEF Inv, ListInv, WakeInv

\* A new event keeps the invariant and is an abstract Push.
LEMMA PushStep ==
  ASSUME Inv, Shape, Shape', Room, NEW t \in Timevals, MayStamp(t),
         NEW type \in {"CHECKMEDIASTATE", "FRAME", "ENDOFSTREAM"},
         list' = PushNew(list, Malloc, type, t), used' = used \cup {Malloc}
  PROVE  /\ list' \in Lists /\ used' \subseteq Nodes /\ used' # {}
         /\ ListInv'
         /\ \/ Carry
            \/ /\ used # {} => Micros(list'.time[list'.first]) <= Micros(list.time[list.first])
               /\ Abstract!Inserted(Queue, Queue')
<1>1. list \in Lists /\ used \subseteq Nodes
  BY DEF Inv, TypeInv
<1>2. Malloc \in Nodes /\ Malloc \notin used
  BY <1>1, MallocFree
<1>3. PICK q, n : IsList(list, q, n) /\ used = Of(q, n) /\ (Carry \/ InTime(list, q, n))
  BY DEF Inv, ListInv
<1> DEFINE e == Malloc
<1> HIDE DEF e
<1>4. /\ e \in Nodes /\ e \notin Of(q, n)
      /\ list' = PushNew(list, e, type, t) /\ used' = used \cup {e}
  BY <1>2, <1>3 DEF e
<1>5. /\ list' \in Lists
      /\ \A m \in Nodes : list'.time[m] = IF m = e THEN t ELSE list.time[m]
      /\ \E j \in 0 .. n : \E p :
           /\ p = Ins(q, n, j, e)
           /\ IsList(list', p, n + 1)
           /\ Of(p, n + 1) = Of(q, n) \cup {e}
           /\ \/ Carry
              \/ /\ InTime(list', p, n + 1)
                 /\ n > 0 => Micros(list'.time[p[1]]) <= Micros(list.time[q[1]])
  <2>1. LET r == PushNew(list, e, type, t)
        IN  /\ r \in Lists
            /\ \A m \in Nodes : r.time[m] = IF m = e THEN t ELSE list.time[m]
            /\ \E j \in 0 .. n : \E p :
                 /\ p = Ins(q, n, j, e)
                 /\ IsList(r, p, n + 1)
                 /\ Of(p, n + 1) = Of(q, n) \cup {e}
                 /\ \/ Carry
                    \/ /\ InTime(r, p, n + 1)
                       /\ n > 0 => Micros(r.time[p[1]]) <= Micros(list.time[q[1]])
                       /\ \/ Micros(r.time[p[1]]) = Micros(t)
                          \/ n > 0 /\ Micros(r.time[p[1]]) = Micros(list.time[q[1]])
    BY <1>1, <1>3, <1>4, Pushed
  <2> QED  BY <1>4, <2>1, Zenon
<1>6. PICK j, p :
        /\ j \in 0 .. n /\ p = Ins(q, n, j, e)
        /\ IsList(list', p, n + 1)
        /\ Of(p, n + 1) = Of(q, n) \cup {e}
        /\ \/ Carry
           \/ /\ InTime(list', p, n + 1)
              /\ n > 0 => Micros(list'.time[p[1]]) <= Micros(list.time[q[1]])
  BY <1>5, Zenon
<1>7. ListInv'
  <2>1. IsList(list', p, n + 1) /\ used' = Of(p, n + 1) /\ (Carry \/ InTime(list', p, n + 1))
    BY <1>3, <1>4, <1>6
  <2> QED  BY <2>1 DEF ListInv
<1>8. CASE ~Carry
  <2>1. InTime(list', p, n + 1)
    BY <1>6, <1>8
  <2>2. used # {} => Micros(list'.time[list'.first]) <= Micros(list.time[list.first])
    <3>1. list'.first = p[1]
      <4>1. n + 1 > 0
        BY <1>3, NonEmpty
      <4> QED  BY <1>6, <4>1, NonEmpty
    <3>2. used # {} => n > 0 /\ list.first = q[1]
      BY <1>3, NonEmpty
    <3> QED  BY <1>6, <1>8, <3>1, <3>2
  <2>3. \A i \in 1 .. n : list'.time[q[i]] = list.time[q[i]]
    <3>1. \A i \in 1 .. n : q[i] \in Nodes /\ q[i] # e
      BY <1>3, <1>4 DEF IsList, Of
    <3> QED  BY <1>5, <3>1
  <2>4. Abstract!Inserted(Events(list, q, n), Events(list', p, n + 1))
    BY <1>1, <1>3, <1>5, <1>6, <2>1, <2>3, EventsIns
  <2>5. Queue = Events(list, q, n) /\ Queue' = Events(list', p, n + 1)
    BY <1>3, <1>6, Zenon DEF Shape
  <2> QED  BY <1>1, <1>4, <1>5, <1>7, <2>2, <2>4, <2>5
<1> QED  BY <1>1, <1>4, <1>5, <1>7, <1>8

\* The second by which CHECKMEDIASTATE puts itself off carries over exactly.
LEMMA SecondLater ==
  ASSUME NEW x \in Timevals, Normal(x)
  PROVE  LET t == timeout_stamp(x, 1000)
         IN  t \in Timevals /\ Normal(t) /\ Micros(t) = Micros(x) + USEC
<1>1. 1000 \div 1000 = 1 /\ 1000 % 1000 = 0 /\ (0 * USEC) \div 1000 = 0
  BY ScaleAssumption
<1>2. timeout_stamp(x, 1000) = [sec |-> x.sec + 1, usec |-> x.usec]
  BY <1>1 DEF timeout_stamp, Timevals, Normal
<1>3. x.sec \in Int /\ x.usec \in Int /\ USEC \in Int
  BY ScaleAssumption DEF Timevals
<1>4. (x.sec + 1) * USEC = x.sec * USEC + USEC
  BY <1>3
<1> QED  BY <1>2, <1>3, <1>4 DEF Micros, Timevals, Normal

\* What is left when the first event e is taken.
LEMMA Pulled ==
  ASSUME NEW l \in Lists, NEW q, NEW n, IsList(l, q, n), n > 0, Carry \/ InTime(l, q, n)
  PROVE  LET r == pull_event(l)
         IN  /\ r \in Lists /\ r.time = l.time
             /\ IsList(r, Rest(q, n), n - 1)
             /\ Of(Rest(q, n), n - 1) = Of(q, n) \ {q[1]}
             /\ \/ Carry
                \/ /\ InTime(r, Rest(q, n), n - 1)
                   /\ n - 1 > 0 => Micros(l.time[q[1]]) <= Micros(r.time[Rest(q, n)[1]])
<1> DEFINE r == pull_event(l)
           p == Rest(q, n)
<1>1. r \in Lists /\ r.time = l.time /\ IsList(r, p, n - 1)
  BY PullList
<1>2. Of(p, n - 1) = Of(q, n) \ {q[1]}
  BY RestOf
<1> HIDE DEF r
<1>3. CASE ~Carry
  <2>1. InTime(r, p, n - 1)
    BY <1>1, <1>3, RestInTime
  <2>2. n \in Nat
    BY DEF IsList
  <2>3. ASSUME n - 1 > 0 PROVE Micros(l.time[q[1]]) <= Micros(r.time[p[1]])
    <3>1. 1 \in 1 .. n - 1 /\ 1 + 1 = 2
      BY <2>2, <2>3
    <3>2. p[1] = q[1 + 1]
      BY <3>1, RestOf
    <3>3. Micros(l.time[q[1]]) <= Micros(l.time[q[1 + 1]])
      BY <1>3, <3>1 DEF InTime
    <3> QED  BY <1>1, <3>2, <3>3
  <2> QED  BY <1>1, <1>2, <2>1, <2>3 DEF r
<1> QED  BY <1>1, <1>2, <1>3 DEF r

\* What the list is after the event e, which is no longer in it, is freed.
LEMMA Freed ==
  ASSUME NEW l \in Lists, NEW q, NEW n, IsList(l, q, n), Carry \/ InTime(l, q, n),
         NEW e, e \notin Of(q, n)
  PROVE  LET r == Free(l, {e})
         IN  /\ r \in Lists /\ IsList(r, q, n) /\ (Carry \/ InTime(r, q, n))
             /\ \A m \in Nodes : m # e => r.time[m] = l.time[m]
<1> DEFINE r == Free(l, {e})
<1>1. \A i \in 1 .. n : q[i] \notin {e}
  BY DEF Of
<1>2. /\ r \in Lists /\ IsList(r, q, n)
      /\ \A m \in Nodes : r.time[m] = IF m \in {e} THEN Zero ELSE l.time[m]
  BY <1>1, FreeList
<1> HIDE DEF r
<1>3. Of(q, n) \cap {e} = {}
  OBVIOUS
<1>4. Carry \/ InTime(r, q, n)
  BY <1>2, <1>3, FreeInTime
<1> QED  BY <1>2, <1>4 DEF r

\* The end of the timeout branch: l is the list when the timeout is set.
LEMMA TimeoutEnd ==
  ASSUME NEW l \in Lists, NEW q, NEW n, IsList(l, q, n), Carry \/ InTime(l, q, n),
         NEW e \in Nodes, e \notin Of(q, n), now \in Timevals,
         Carry \/ /\ Micros(l.time[e]) <= Micros(now)
                  /\ n > 0 => Micros(l.time[e]) <= Micros(l.time[q[1]]),
         IF l.size > 0
           THEN /\ timeind' = calculate_delta(l.time[e], l.time[l.first])
                /\ wake' = Micros(now) + Micros(timeind')
           ELSE timeind' = NoTimeout /\ wake' = 0,
         list' = Free(l, {e}), used' = Of(q, n)
  PROVE  /\ list' \in Lists /\ IsList(list', q, n) /\ (Carry \/ InTime(list', q, n))
         /\ \A m \in Nodes : m # e => list'.time[m] = l.time[m]
         /\ timeind' \in Timevals /\ wake' \in Int
         /\ ListInv' /\ WakeInv'
<1>1. /\ list' \in Lists /\ IsList(list', q, n) /\ (Carry \/ InTime(list', q, n))
      /\ \A m \in Nodes : m # e => list'.time[m] = l.time[m]
  BY Freed
<1>2. /\ timeind' \in Timevals /\ wake' \in Int
      /\ \/ Carry \/ timeind' = NoTimeout
         \/ n > 0 /\ Micros(l.time[q[1]]) <= wake' /\ timeind'.sec >= 0 /\ timeind'.usec >= 0
  BY NextTimeout
<1>3. ListInv'
  BY <1>1 DEF ListInv
<1>4. WakeInv'
  <2>1. n > 0 => /\ list'.first = q[1] /\ q[1] \in Nodes /\ used' # {}
    BY <1>1, NonEmpty
  <2>2. n > 0 => q[1] # e
    <3>1. n \in Nat
      BY DEF IsList
    <3> QED  BY <3>1 DEF Of
  <2> QED  BY <1>1, <1>2, <2>1, <2>2 DEF WakeInv
<1> QED  BY <1>1, <1>2, <1>3, <1>4

\* The timeout branch, with or without the event that puts itself off again, is
\* an abstract Handle.  The event is due because the timer was not armed to
\* expire before it, and the next timer is computed from its time, not from now.
LEMMA TimeoutStep ==
  ASSUME Inv, Shape, Shape', Timeout
  PROVE  Inv' /\ (Carry \/ Abstract!Handle)
<1> USE DEF Inv
<1>1. /\ list \in Lists /\ used \subseteq Nodes
      /\ now \in Timevals /\ Normal(now) /\ wake \in Int
  BY DEF TypeInv
<1>2. PICK q, n : IsList(list, q, n) /\ used = Of(q, n) /\ (Carry \/ InTime(list, q, n))
  BY DEF ListInv
<1> DEFINE e == list.first
           l == pull_event(list)
           t == timeout_stamp(now, 1000)
           p == Rest(q, n)
           SetTimeout(l1) ==
             IF l1.size > 0
               THEN /\ timeind' = calculate_delta(l1.time[e], l1.time[l1.first])
                    /\ wake' = Micros(now) + Micros(timeind')
               ELSE timeind' = NoTimeout /\ wake' = 0
<1>3. /\ timeind # NoTimeout /\ Micros(now) >= wake /\ e # NULL
      /\ UNCHANGED <<now, base, prev, mpc>>
  BY DEF Timeout
<1>4. \/ SetTimeout(l) /\ list' = Free(l, {e}) /\ used' = used \ {e}
      \/ /\ Room
         /\ SetTimeout(PushNew(l, Malloc, "CHECKMEDIASTATE", t))
         /\ list' = Free(PushNew(l, Malloc, "CHECKMEDIASTATE", t), {e})
         /\ used' = (used \cup {Malloc}) \ {e}
  BY DEF Timeout
<1>5. n \in Nat /\ n > 0 /\ e = q[1] /\ e \in Nodes /\ e \in used
  <2>1. n \in Nat /\ n > 0 /\ e = q[1] /\ e \in Nodes
    BY <1>2, <1>3, NonEmpty
  <2> QED  BY <1>2, <2>1 DEF Of
<1>6. /\ l \in Lists /\ l.time = list.time /\ IsList(l, p, n - 1)
      /\ Of(p, n - 1) = used \ {e}
      /\ \/ Carry
         \/ /\ InTime(l, p, n - 1)
            /\ n - 1 > 0 => Micros(list.time[e]) <= Micros(l.time[p[1]])
  BY <1>1, <1>2, <1>5, Pulled
<1>7. Carry \/ Micros(list.time[e]) <= Micros(now)
  <2>1. Micros(list.time[e]) \in Int /\ Micros(now) \in Int
    BY <1>1, <1>5, MicrosInt DEF Lists
  <2>2. Carry \/ Micros(list.time[e]) <= wake
    BY <1>3 DEF WakeInv
  <2> QED  BY <1>1, <1>3, <2>1, <2>2
<1>8. t \in Timevals /\ Normal(t) /\ Micros(t) = Micros(now) + USEC
  BY <1>1, SecondLater
<1>9. TypeInv' <=> /\ list' \in Lists /\ used' \subseteq Nodes
                   /\ timeind' \in Timevals /\ wake' \in Int
  BY <1>3 DEF TypeInv
<1>10. /\ Queue = Events(list, q, n) /\ Micros(now)' = Micros(now)
       /\ Len(Queue) = n /\ Queue \in Seq(EventSet) /\ Head(Queue) = Event(list, e)
  <2>1. Queue = Events(list, q, n)
    BY <1>2, Zenon DEF Shape
  <2>2. Len(Queue) = n /\ Queue \in Seq(EventSet) /\ Queue[1] = Event(list, e)
    BY <1>1, <1>2, <1>5, <2>1, EventsSeq
  <2>3. Head(Queue) = Queue[1]
    BY <1>5, <2>2
  <2>4. Micros(now)' = Micros(now)
    BY <1>3
  <2> QED  BY <2>1, <2>2, <2>3, <2>4
<1>11. Carry \/ (Queue # <<>> /\ Head(Queue).at <= Micros(now))
  <2>1. Queue # <<>>
    BY <1>5, <1>10
  <2>2. Event(list, e).at = Micros(list.time[e])
    BY DEF Event
  <2> QED  BY <1>7, <1>10, <2>1, <2>2
<1> HIDE DEF e, l, t, p, SetTimeout, Inv
<1>12. CASE SetTimeout(l) /\ list' = Free(l, {e}) /\ used' = used \ {e}
  <2>1. e \notin Of(p, n - 1) /\ used' = Of(p, n - 1)
    BY <1>6, <1>12
  <2>2. Carry \/ /\ Micros(l.time[e]) <= Micros(now)
                 /\ n - 1 > 0 => Micros(l.time[e]) <= Micros(l.time[p[1]])
    BY <1>6, <1>7
  <2>3. IF l.size > 0
          THEN /\ timeind' = calculate_delta(l.time[e], l.time[l.first])
               /\ wake' = Micros(now) + Micros(timeind')
          ELSE timeind' = NoTimeout /\ wake' = 0
    BY <1>12 DEF SetTimeout
  <2>4. /\ list' \in Lists /\ IsList(list', p, n - 1)
        /\ \A m \in Nodes : m # e => list'.time[m] = l.time[m]
        /\ timeind' \in Timevals /\ wake' \in Int
        /\ ListInv' /\ WakeInv'
    <3>1. Carry \/ InTime(l, p, n - 1)
      BY <1>6
    <3>2. /\ l \in Lists /\ IsList(l, p, n - 1) /\ e \in Nodes /\ now \in Timevals
          /\ list' = Free(l, {e})
      BY <1>1, <1>5, <1>6, <1>12
    <3> QED  BY <2>1, <2>2, <2>3, <3>1, <3>2, TimeoutEnd
  <2>5. Inv'
    BY <1>1, <1>9, <1>12, <2>4 DEF Inv
  <2>6. Queue' = Tail(Queue)
    <3>1. Queue' = Events(list', p, n - 1)
      BY <2>4, Zenon DEF Shape
    <3>2. \A i \in 1 .. n : i > 1 => list'.time[q[i]] = list.time[q[i]]
      <4>1. \A i \in 1 .. n : q[i] \in Nodes /\ (i > 1 => q[i] # q[1])
        BY <1>2, <1>5 DEF IsList
      <4> QED  BY <1>5, <1>6, <2>4, <4>1
    <3>3. Events(list', Rest(q, n), n - 1) = Tail(Events(list, q, n))
      BY <1>1, <1>2, <1>5, <2>4, <3>2, EventsRest DEF p
    <3> QED  BY <1>10, <3>1, <3>3 DEF p
  <2>7. Carry \/ Abstract!Handle
    BY <1>10, <1>11, <2>6 DEF Abstract!Handle
  <2> QED  BY <2>5, <2>7
<1>13. CASE /\ Room
            /\ SetTimeout(PushNew(l, Malloc, "CHECKMEDIASTATE", t))
            /\ list' = Free(PushNew(l, Malloc, "CHECKMEDIASTATE", t), {e})
            /\ used' = (used \cup {Malloc}) \ {e}
  <2> DEFINE x == Malloc
             l1 == PushNew(l, x, "CHECKMEDIASTATE", t)
  <2>1. x \in Nodes /\ x \notin used
    BY <1>1, <1>13, MallocFree
  <2>2. /\ SetTimeout(l1) /\ list' = Free(l1, {e}) /\ used' = (used \cup {x}) \ {e}
    BY <1>13
  <2> HIDE DEF x
  <2>3. x \notin Of(p, n - 1) /\ x # e
    BY <1>5, <1>6, <2>1
  <2>4. MayStamp(t)
    BY <1>8 DEF MayStamp
  <2>5. /\ l1 \in Lists
        /\ \A m \in Nodes : l1.time[m] = IF m = x THEN t ELSE l.time[m]
        /\ \E j \in 0 .. n - 1 : \E r :
             /\ r = Ins(p, n - 1, j, x)
             /\ IsList(l1, r, n - 1 + 1)
             /\ Of(r, n - 1 + 1) = Of(p, n - 1) \cup {x}
             /\ \/ Carry
                \/ /\ InTime(l1, r, n - 1 + 1)
                   /\ \/ Micros(l1.time[r[1]]) = Micros(t)
                      \/ n - 1 > 0 /\ Micros(l1.time[r[1]]) = Micros(l.time[p[1]])
    <3>1. Carry \/ InTime(l, p, n - 1)
      BY <1>6
    <3>2. "CHECKMEDIASTATE" \in {"CHECKMEDIASTATE", "FRAME", "ENDOFSTREAM"}
      OBVIOUS
    <3>3. /\ l1 \in Lists
          /\ \A m \in Nodes : l1.time[m] = IF m = x THEN t ELSE l.time[m]
          /\ \E j \in 0 .. n - 1 : \E r :
               /\ r = Ins(p, n - 1, j, x)
               /\ IsList(l1, r, n - 1 + 1)
               /\ Of(r, n - 1 + 1) = Of(p, n - 1) \cup {x}
               /\ \/ Carry
                  \/ /\ InTime(l1, r, n - 1 + 1)
                     /\ n - 1 > 0 => Micros(l1.time[r[1]]) <= Micros(l.time[p[1]])
                     /\ \/ Micros(l1.time[r[1]]) = Micros(t)
                        \/ n - 1 > 0 /\ Micros(l1.time[r[1]]) = Micros(l.time[p[1]])
      BY <1>6, <1>8, <2>1, <2>3, <2>4, <3>1, <3>2, Pushed
    <3> HIDE DEF l1
    <3> QED  BY <3>3, Zenon
  <2> HIDE DEF l1
  <2>6. PICK j, r :
          /\ j \in 0 .. n - 1 /\ r = Ins(p, n - 1, j, x)
          /\ IsList(l1, r, n - 1 + 1)
          /\ Of(r, n - 1 + 1) = Of(p, n - 1) \cup {x}
          /\ \/ Carry
             \/ /\ InTime(l1, r, n - 1 + 1)
                /\ \/ Micros(l1.time[r[1]]) = Micros(t)
                   \/ n - 1 > 0 /\ Micros(l1.time[r[1]]) = Micros(l.time[p[1]])
    BY <2>5, Zenon
  <2>7. e \notin Of(r, n - 1 + 1) /\ used' = Of(r, n - 1 + 1)
    BY <1>6, <2>2, <2>3, <2>6
  <2>8. l1.time[e] = list.time[e]
    BY <1>5, <1>6, <2>3, <2>5
  <2>9. Carry \/ /\ Micros(l1.time[e]) <= Micros(now)
                 /\ n - 1 + 1 > 0 => Micros(l1.time[e]) <= Micros(l1.time[r[1]])
    <3>1. Micros(list.time[e]) \in Int /\ Micros(now) \in Int
      BY <1>1, <1>5, MicrosInt DEF Lists
    <3>2. Carry \/ Micros(list.time[e]) <= Micros(t)
      BY <1>7, <1>8, <3>1, ScaleAssumption
    <3> QED  BY <1>6, <1>7, <2>6, <2>8, <3>2
  <2>10. IF l1.size > 0
           THEN /\ timeind' = calculate_delta(l1.time[e], l1.time[l1.first])
                /\ wake' = Micros(now) + Micros(timeind')
           ELSE timeind' = NoTimeout /\ wake' = 0
    BY <2>2 DEF SetTimeout
  <2>11. /\ list' \in Lists /\ IsList(list', r, n - 1 + 1)
         /\ Carry \/ InTime(list', r, n - 1 + 1)
         /\ \A m \in Nodes : m # e => list'.time[m] = l1.time[m]
         /\ timeind' \in Timevals /\ wake' \in Int
         /\ ListInv' /\ WakeInv'
    <3>1. Carry \/ InTime(l1, r, n - 1 + 1)
      BY <2>6
    <3> QED  BY <1>1, <1>5, <2>2, <2>5, <2>6, <2>7, <2>9, <2>10, <3>1, TimeoutEnd
  <2>12. Inv'
    BY <1>1, <1>9, <2>1, <2>2, <2>11 DEF Inv
  <2>13. CASE ~Carry
    <3>1. Queue' = Events(list', r, n - 1 + 1)
      BY <2>11, Zenon DEF Shape
    <3>2. Events(l, p, n - 1) = Tail(Queue)
      <4>1. Events(l, Rest(q, n), n - 1) = Tail(Events(list, q, n))
        BY <1>1, <1>2, <1>5, <1>6, EventsRest DEF p
      <4> QED  BY <1>10, <4>1 DEF p
    <3>3. \A i \in 1 .. n - 1 : list'.time[p[i]] = l.time[p[i]]
      <4>1. \A i \in 1 .. n - 1 : p[i] \in Nodes /\ p[i] \in Of(p, n - 1)
        BY <1>6 DEF IsList, Of
      <4>2. \A i \in 1 .. n - 1 : p[i] # e /\ p[i] # x
        BY <1>6, <2>3, <4>1
      <4> QED  BY <2>5, <2>11, <4>1, <4>2
    <3>4. Abstract!Inserted(Events(l, p, n - 1), Events(list', r, n - 1 + 1))
      BY <1>6, <2>6, <2>11, <2>13, <3>3, EventsIns
    <3>5. Abstract!Inserted(Tail(Queue), Queue')
      BY <3>1, <3>2, <3>4, Zenon
    <3>6. Abstract!Handle
      BY <1>10, <1>11, <2>13, <3>5 DEF Abstract!Handle
    <3> QED  BY <2>12, <3>6
  <2> QED  BY <2>12, <2>13
<1> QED  BY <1>4, <1>12, <1>13

\* A step that leaves the list leaves the abstract queue.
LEMMA SameQueue ==
  ASSUME Inv, Shape, Shape', UNCHANGED list
  PROVE  UNCHANGED Queue
<1>1. PICK q, n : IsList(list, q, n)
  BY DEF Inv, ListInv
<1>2. Queue = Events(list, q, n)
  BY <1>1, Zenon DEF Shape
<1>3. Queue' = Events(list', q, n)
  <2>1. IsList(list', q, n)
    BY <1>1
  <2> QED  BY <2>1, Zenon DEF Shape
<1> QED  BY <1>2, <1>3

\* A step that leaves the list leaves what is said of it.
LEMMA SameList ==
  ASSUME ListInv, UNCHANGED <<list, used>>
  PROVE  ListInv'
BY DEF ListInv

\* The clock advances, also over the end of a second.
LEMMA TickStep ==
  ASSUME Inv, Shape, Shape', Tick
  PROVE  Inv' /\ (Carry \/ Abstract!Pass)
<1>1. /\ now \in Timevals /\ Normal(now)
      /\ now' = IF now.usec = USEC - 1 THEN [sec |-> now.sec + 1, usec |-> 0]
                ELSE [now EXCEPT !.usec = @ + 1]
      /\ UNCHANGED <<list, used, base, prev, timeind, wake, mpc>>
  BY DEF Inv, TypeInv, Tick
<1>2. now.sec \in Int /\ now.usec \in 0 .. USEC - 1 /\ USEC \in Nat \ {0}
      /\ now = [sec |-> now.sec, usec |-> now.usec]
  BY <1>1, ScaleAssumption DEF Timevals, Normal
<1>3. now' = IF now.usec = USEC - 1 THEN [sec |-> now.sec + 1, usec |-> 0]
             ELSE [sec |-> now.sec, usec |-> now.usec + 1]
  BY <1>1, <1>2
<1>4. now' \in Timevals /\ Normal(now')
  BY <1>2, <1>3 DEF Timevals, Normal
<1>5. (now.sec + 1) * USEC = now.sec * USEC + USEC /\ now.sec * USEC \in Int
  BY <1>2
<1>6. Micros(now') > Micros(now)
  BY <1>2, <1>3, <1>5 DEF Micros
<1>7. TypeInv'
  BY <1>1, <1>4 DEF Inv, TypeInv
<1>8. ListInv' /\ WakeInv'
  BY <1>1, SameList DEF Inv, WakeInv
<1>9. Abstract!Pass
  BY <1>1, <1>6, SameQueue DEF Abstract!Pass
<1> QED  BY <1>7, <1>8, <1>9 DEF Inv

\* The steps of the filler, which leave the timer as it is.
LEMMA FillStep ==
  ASSUME Inv, Shape, Shape', Room, NEW t \in Timevals, MayStamp(t),
         NEW type \in {"FRAME", "ENDOFSTREAM"},
         list' = PushNew(list, Malloc, type, t), used' = used \cup {Malloc},
         UNCHANGED <<now, timeind, wake, mpc>>,
         base' \in Timevals, base' # NoTimeout => Normal(base'), prev' \in Timevals
  PROVE  Inv' /\ (Carry \/ Abstract!Push)
<1>1. type \in {"CHECKMEDIASTATE", "FRAME", "ENDOFSTREAM"}
  OBVIOUS
<1>2. /\ list' \in Lists /\ used' \subseteq Nodes /\ used' # {}
      /\ ListInv'
      /\ \/ Carry
         \/ /\ used # {} => Micros(list'.time[list'.first]) <= Micros(list.time[list.first])
            /\ Abstract!Inserted(Queue, Queue')
  BY <1>1, PushStep
<1>3. TypeInv'
  BY <1>2 DEF Inv, TypeInv
<1>4. WakeInv'
  <2>1. CASE Carry \/ timeind = NoTimeout
    BY <2>1 DEF WakeInv
  <2>2. CASE ~Carry /\ timeind # NoTimeout
    <3>1. /\ used # {} /\ Micros(list.time[list.first]) <= wake
          /\ timeind.sec >= 0 /\ timeind.usec >= 0
      BY <2>2 DEF Inv, WakeInv
    <3>2. PICK q, n : IsList(list, q, n) /\ used = Of(q, n)
      BY DEF Inv, ListInv
    <3>3. PICK p, k : IsList(list', p, k) /\ used' = Of(p, k)
      BY <1>2 DEF ListInv
    <3>4. list.first \in Nodes /\ list'.first \in Nodes
      BY <1>2, <3>1, <3>2, <3>3, NonEmpty
    <3>5. Micros(list.time[list.first]) \in Int /\ Micros(list'.time[list'.first]) \in Int
      BY <1>2, <3>4, MicrosInt DEF Inv, TypeInv, Lists
    <3>6. wake \in Int
      BY DEF Inv, TypeInv
    <3> QED  BY <1>2, <2>2, <3>1, <3>5, <3>6 DEF WakeInv
  <2> QED  BY <2>1, <2>2
<1>5. Carry \/ Abstract!Push
  BY <1>2 DEF Abstract!Push
<1> QED  BY <1>2, <1>3, <1>4, <1>5 DEF Inv

\* A descriptor leaves no timeout.
LEMMA ServedWake ==
  ASSUME Served
  PROVE  WakeInv' /\ timeind' \in Timevals /\ wake' \in Int /\ mpc' \in {"select", "fdloop"}
BY DEF Served, WakeInv, NoTimeout, Timevals

\* push_timeout by the handler of a descriptor.
LEMMA PushTimeoutStep ==
  ASSUME Inv, Shape, Shape', NEW ms \in Delays, push_timeout(ms)
  PROVE  Inv' /\ (Carry \/ Abstract!Push)
<1> DEFINE t == timeout_stamp(now, ms)
<1>1. /\ Room /\ MayStamp(t)
      /\ list' = PushNew(list, Malloc, "CHECKMEDIASTATE", t)
      /\ used' = used \cup {Malloc}
      /\ Served /\ UNCHANGED <<now, base, prev>>
  BY DEF push_timeout
<1>2. t \in Timevals
  <2>1. ms \in Nat
    BY BoundsAssumption
  <2> QED  BY <2>1, StampType DEF Inv, TypeInv
<1>3. "CHECKMEDIASTATE" \in {"CHECKMEDIASTATE", "FRAME", "ENDOFSTREAM"}
  OBVIOUS
<1> HIDE DEF t
<1>4. /\ list' \in Lists /\ used' \subseteq Nodes
      /\ ListInv' /\ (Carry \/ Abstract!Inserted(Queue, Queue'))
  BY <1>1, <1>2, <1>3, PushStep
<1>5. TypeInv'
  BY <1>1, <1>4, ServedWake DEF Inv, TypeInv
<1>6. Carry \/ Abstract!Push
  BY <1>1, <1>4 DEF Abstract!Push
<1> QED  BY <1>1, <1>4, <1>5, <1>6, ServedWake DEF Inv

\* A descriptor that concerns something else only costs the timeout.
LEMMA OtherFdStep ==
  ASSUME Inv, Shape, Shape', OtherFd
  PROVE  Inv' /\ UNCHANGED <<Queue, Micros(now)>>
<1>1. Served /\ UNCHANGED <<list, used, now, base, prev>>
  BY DEF OtherFd
<1>2. TypeInv'
  BY <1>1, ServedWake DEF Inv, TypeInv
<1>3. ListInv' /\ WakeInv'
  BY <1>1, SameList, ServedWake DEF Inv
<1> QED  BY <1>1, <1>2, <1>3, SameQueue DEF Inv

\* A frame of the filler, whose stamp never needs a second carry.
LEMMA PushFrameStep ==
  ASSUME Inv, Shape, Shape', NEW ts \in Stamps, PushFrame(ts)
  PROVE  Inv' /\ (Carry \/ Abstract!Push)
<1> DEFINE t == set_timeval(base, ts)
<1>1. /\ base # NoTimeout /\ Room
      /\ list' = PushNew(list, Malloc, "FRAME", t)
      /\ used' = used \cup {Malloc}
      /\ prev' = t
      /\ UNCHANGED <<now, base, timeind, wake, mpc>>
  BY DEF PushFrame
<1>2. t \in Timevals /\ Normal(t)
  <2>1. ts \in Nat
    BY BoundsAssumption
  <2>2. base \in Timevals /\ Normal(base)
    BY <1>1 DEF Inv, TypeInv
  <2> QED  BY <2>1, <2>2, FrameStampNormal
<1> HIDE DEF t
<1>3. MayStamp(t)
  BY <1>2 DEF MayStamp
<1>4. base' \in Timevals /\ (base' # NoTimeout => Normal(base')) /\ prev' \in Timevals
  BY <1>1, <1>2 DEF Inv, TypeInv
<1>5. "FRAME" \in {"FRAME", "ENDOFSTREAM"}
  OBVIOUS
<1> QED  BY <1>1, <1>2, <1>3, <1>4, <1>5, FillStep

\* ENDOFSTREAM.
LEMMA PushEosStep ==
  ASSUME Inv, Shape, Shape', PushEos
  PROVE  Inv' /\ (Carry \/ Abstract!Push)
<1> DEFINE t == eos_stamp(prev, EosGap)
<1>1. /\ Room /\ MayStamp(t)
      /\ list' = PushNew(list, Malloc, "ENDOFSTREAM", t)
      /\ used' = used \cup {Malloc}
      /\ base' = NoTimeout /\ prev' = NoTimeout
      /\ UNCHANGED <<now, timeind, wake, mpc>>
  BY DEF PushEos
<1>2. t \in Timevals
  <2>1. prev \in Timevals /\ EosGap \in Nat
    BY BoundsAssumption DEF Inv, TypeInv
  <2> QED  BY <2>1 DEF eos_stamp, Timevals
<1> HIDE DEF t
<1>3. base' \in Timevals /\ (base' # NoTimeout => Normal(base')) /\ prev' \in Timevals
  BY <1>1 DEF NoTimeout, Timevals
<1>4. "ENDOFSTREAM" \in {"FRAME", "ENDOFSTREAM"}
  OBVIOUS
<1> QED  BY <1>1, <1>2, <1>3, <1>4, FillStep

\* A filler that starts leaves list and timer.
LEMMA StartFillStep ==
  ASSUME Inv, Shape, Shape', StartFill
  PROVE  Inv' /\ UNCHANGED <<Queue, Micros(now)>>
<1>1. base' = now /\ UNCHANGED <<list, used, now, prev, timeind, wake, mpc>>
  BY DEF StartFill
<1>2. TypeInv'
  BY <1>1 DEF Inv, TypeInv
<1>3. ListInv' /\ WakeInv'
  BY <1>1, SameList DEF Inv, WakeInv
<1> QED  BY <1>1, <1>2, <1>3, SameQueue DEF Inv

\* TEARDOWN empties the queue and leaves no timer.
LEMMA TeardownStep ==
  ASSUME Inv, Shape, Shape', Teardown
  PROVE  Inv' /\ Abstract!Empty
<1>1. /\ list' = Free(empty_queue(list), used) /\ used' = {}
      /\ base' = NoTimeout /\ prev' = NoTimeout /\ Served /\ now' = now
  BY DEF Teardown
<1>2. list \in Lists
  BY DEF Inv, TypeInv
<1>3. /\ list' \in Lists /\ IsList(list', <<>>, 0)
      /\ \A m \in Nodes : list'.time[m] = IF m \in used THEN Zero ELSE list.time[m]
  BY <1>1, <1>2, EmptyList
<1>4. Of(<<>>, 0) = {}
  BY DEF Of
<1>5. Carry \/ InTime(list', <<>>, 0)
  <2>1. CASE ~Carry
    <3>1. \A m \in Nodes : Normal(list.time[m])
      BY <2>1 DEF Inv, ListInv, InTime
    <3>2. Normal(Zero)
      BY ScaleAssumption DEF Zero, Normal
    <3>3. \A m \in Nodes : Normal(list'.time[m])
      BY <1>3, <3>1, <3>2
    <3> QED  BY <3>3 DEF InTime
  <2> QED  BY <2>1
<1>6. ListInv'
  BY <1>1, <1>3, <1>4, <1>5 DEF ListInv
<1>7. NoTimeout \in Timevals
  BY DEF NoTimeout, Timevals
<1>8. TypeInv'
  BY <1>1, <1>3, <1>7, ServedWake DEF Inv, TypeInv
<1>9. Queue' = <<>>
  <2>1. Queue' = Events(list', <<>>, 0)
    BY <1>3, Zenon DEF Shape
  <2>2. Events(list', <<>>, 0) = <<>>
    BY DEF Events
  <2> QED  BY <2>1, <2>2
<1>10. Abstract!Empty
  BY <1>1, <1>9 DEF Abstract!Empty
<1> QED  BY <1>1, <1>6, <1>8, <1>10, ServedWake DEF Inv

\* After the descriptors an overdue event becomes a timeout of zero, any other
\* the time that is left.
LEMMA EndLoopStep ==
  ASSUME Inv, Shape, Shape', EndLoop
  PROVE  Inv' /\ UNCHANGED <<Queue, Micros(now)>>
<1> DEFINE b == list.time[list.first]
           d == calculate_delta(now, b)
<1>1. /\ timeind' = IF list.size <= 0 THEN NoTimeout ELSE IF d.sec < 0 THEN Zero ELSE d
      /\ wake' = IF timeind' = NoTimeout THEN 0 ELSE Micros(now) + Micros(timeind')
      /\ mpc' = "select"
      /\ UNCHANGED <<list, used, now, base, prev>>
  BY DEF EndLoop
<1>2. PICK q, n : IsList(list, q, n) /\ used = Of(q, n) /\ (Carry \/ InTime(list, q, n))
  BY DEF Inv, ListInv
<1>3. now \in Timevals /\ Normal(now) /\ list \in Lists
  BY DEF Inv, TypeInv
<1> HIDE DEF d, b
<1>4. timeind' \in Timevals /\ wake' \in Int /\ WakeInv'
  <2>1. CASE n = 0
    <3>1. timeind' = NoTimeout /\ wake' = 0
      BY <1>1, <1>2, <2>1, NonEmpty
    <3> QED  BY <3>1 DEF WakeInv, NoTimeout, Timevals
  <2>2. CASE n # 0
    <3>1. /\ list.size > 0 /\ used # {} /\ list.first \in Nodes /\ list.size = n /\ n \in Nat
      BY <1>2, <2>2, NonEmpty
    <3>2. b \in Timevals
      BY <1>3, <3>1 DEF Lists, b
    <3>3. d \in Timevals /\ Micros(d) = Micros(b) - Micros(now)
      BY <1>3, <3>2, DeltaExact DEF d
    <3>4. timeind' = IF d.sec < 0 THEN Zero ELSE d
      BY <1>1, <3>1
    <3>5. timeind' \in Timevals
      BY <3>3, <3>4, MicrosZero
    <3>6. wake' \in Int
      BY <1>1, <1>3, <3>5, MicrosInt
    <3>7. CASE ~Carry
      <4>1. Normal(b)
        BY <1>2, <3>1, <3>7 DEF InTime, b
      <4>2. d.usec >= 0 /\ (d.sec < 0 <=> Micros(b) < Micros(now))
        BY <1>3, <3>2, <4>1, DeltaForward DEF d
      <4>3. d.sec \in Int
        BY <3>3 DEF Timevals
      <4>4. timeind'.sec >= 0 /\ timeind'.usec >= 0
        BY <3>4, <4>2, <4>3 DEF Zero
      <4>5. timeind' # NoTimeout
        BY <4>4 DEF NoTimeout
      <4>6. Micros(b) \in Int /\ Micros(now) \in Int
        BY <1>3, <3>2, MicrosInt
      <4>7. Micros(b) <= wake'
        BY <1>1, <3>3, <3>4, <4>2, <4>3, <4>5, <4>6, MicrosZero
      <4>8. list'.time[list'.first] = b /\ used' # {}
        BY <1>1, <3>1 DEF b
      <4> QED  BY <3>5, <3>6, <4>4, <4>7, <4>8 DEF WakeInv
    <3> QED  BY <3>5, <3>6, <3>7 DEF WakeInv
  <2> QED  BY <2>1, <2>2
<1>5. TypeInv'
  BY <1>1, <1>4 DEF Inv, TypeInv
<1>6. ListInv'
  BY <1>1, SameList DEF Inv
<1> QED  BY <1>1, <1>4, <1>5, <1>6, SameQueue DEF Inv

-----------------------------------------------------------------------------
(*****************************************************************************)
(* The theorems.                                                            *)
(*****************************************************************************)
\* Every step keeps the invariant and, unless times carry, is a step of
\* TimerQueue or none.
LEMMA StepInv ==
  ASSUME Inv, Shape, Shape', [Next]_vars
  PROVE  Inv' /\ (Carry \/ [Abstract!Next]_<<Queue, Micros(now)>>)
<1>1. CASE UNCHANGED vars
  <2>1. UNCHANGED <<list, used, now, base, prev, timeind, wake, mpc>>
    BY <1>1 DEF vars
  <2>2. TypeInv' /\ WakeInv'
    BY <2>1 DEF Inv, TypeInv, WakeInv
  <2>3. ListInv'
    BY <2>1, SameList DEF Inv
  <2> QED  BY <2>1, <2>2, <2>3, SameQueue DEF Inv
<1>2. CASE Tick
  BY <1>2, TickStep DEF Abstract!Next
<1>3. CASE \E ms \in Delays : push_timeout(ms)
  BY <1>3, PushTimeoutStep DEF Abstract!Next
<1>4. CASE StartFill
  BY <1>4, StartFillStep
<1>5. CASE \E ts \in Stamps : PushFrame(ts)
  BY <1>5, PushFrameStep DEF Abstract!Next
<1>6. CASE PushEos
  BY <1>6, PushEosStep DEF Abstract!Next
<1>7. CASE Timeout
  BY <1>7, TimeoutStep DEF Abstract!Next
<1>8. CASE Teardown
  BY <1>8, TeardownStep DEF Abstract!Next
<1>9. CASE EndLoop
  BY <1>9, EndLoopStep
<1>10. CASE OtherFd
  BY <1>10, OtherFdStep
<1> QED  BY <1>1, <1>2, <1>3, <1>4, <1>5, <1>6, <1>7, <1>8, <1>9, <1>10 DEF Next

\* The list is at all times a sequence of the allocated nodes, with the times in
\* order unless they may carry, and an armed timer has an event and does not
\* expire before it is due.
THEOREM Invariance == Spec => []Inv
<1>1. Init => Inv
  BY InitInv
<1>2. Inv /\ Shape /\ Shape' /\ [Next]_vars => Inv'
  BY StepInv
<1> QED  BY <1>1, <1>2, QueueShape, PTL DEF Spec

\* push_event, pull_event and empty_queue leave a list that holds every event
\* once, is linked both ways and counted by size, whatever the times are.
THEOREM ListWellFormed == Spec => []WellFormed
<1>1. Inv => WellFormed
  <2> SUFFICES ASSUME Inv PROVE WellFormed
    OBVIOUS
  <2>1. PICK q, n : IsList(list, q, n) /\ used = Of(q, n)
    BY DEF Inv, ListInv
  <2>2. /\ n \in Nat /\ list.size = n /\ n <= MaxEvents
        /\ (used # {} <=> n > 0)
    BY <2>1, NonEmpty, ListBound
  <2>3. /\ q \in [1 .. n -> Nodes]
        /\ \A i, j \in 1 .. n : q[i] = q[j] => i = j
        /\ IF n = 0 THEN list.first = NULL /\ list.last = NULL
           ELSE list.first = q[1] /\ list.last = q[n]
        /\ \A i \in 1 .. n : list.next[q[i]] = IF i = n THEN NULL ELSE q[i + 1]
        /\ \A i \in 1 .. n : list.prev[q[i]] = IF i = 1 THEN NULL ELSE q[i - 1]
    BY <2>1 DEF IsList
  <2>4. \A k \in 1 .. n : Nth(k) = q[k]
    BY <2>1, <2>2, NthOf
  <2>5. Cardinality(used) = n
    <3>1. q \in Bijection(1 .. n, used)
      <4>1. q \in Surjection(1 .. n, used)
        BY <2>1, <2>3 DEF Of, Surjection
      <4>2. q \in Injection(1 .. n, used)
        BY <2>1, <2>3 DEF Of, Injection, IsInjective
      <4> QED  BY <4>1, <4>2 DEF Bijection
    <3> QED  BY <2>2, <3>1, FS_CountingElements DEF ExistsBijection
  <2>6. {Nth(k) : k \in 1 .. list.size} = used
    BY <2>1, <2>2, <2>4 DEF Of
  <2>7. CASE n = 0
    BY <2>2, <2>3, <2>5, <2>6, <2>7 DEF WellFormed
  <2>8. CASE n # 0
    <3>1. n \in 1 .. n /\ 1 \in 1 .. n /\ used # {}
      BY <2>2, <2>8
    <3>2. list.last = q[n] /\ list.first = q[1] /\ list.last = Nth(list.size)
      BY <2>2, <2>3, <2>4, <2>8, <3>1
    <3>3. list.next[list.last] = NULL /\ list.prev[list.first] = NULL
      BY <2>3, <3>1, <3>2
    <3>4. ASSUME NEW m \in used \ {list.last} PROVE list.prev[list.next[m]] = m
      <4>1. PICK i \in 1 .. n : m = q[i]
        BY <2>1 DEF Of
      <4>2. i # n /\ i + 1 \in 1 .. n /\ i + 1 # 1 /\ (i + 1) - 1 = i
        <5>1. i # n
          BY <3>2, <3>4, <4>1
        <5> QED  BY <2>2, <5>1
      <4>3. list.next[q[i]] = q[i + 1]
        BY <2>3, <4>2
      <4>4. list.prev[q[i + 1]] = q[(i + 1) - 1]
        BY <2>3, <4>2
      <4> QED  BY <4>1, <4>2, <4>3, <4>4
    <3> QED  BY <2>2, <2>5, <2>6, <3>1, <3>2, <3>3, <3>4 DEF WellFormed
  <2> QED  BY <2>7, <2>8
<1> QED  BY <1>1, Invariance, PTL

\* As long as no stamp runs over its second, select() is never called with a
\* negative timeout.
THEOREM NoNegativeTimeout ==
  ASSUME ~Carry
  PROVE  Spec => []TimeoutValid
<1>1. Inv => TimeoutValid
  BY DEF Inv, WakeInv, TimeoutValid
<1> QED  BY <1>1, Invariance, PTL

\* As long as no stamp runs over its second, the queue "retains the order, smallest time first".
THEOREM RetainsOrder ==
  ASSUME ~Carry
  PROVE  Spec => []Sorted
<1>1. Inv => Sorted
  <2> SUFFICES ASSUME Inv PROVE Sorted
    OBVIOUS
  <2>1. PICK q, n : IsList(list, q, n) /\ InTime(list, q, n)
    BY DEF Inv, ListInv
  <2>2. n \in Nat /\ list.size = n /\ n <= MaxEvents
    BY <2>1, NonEmpty, ListBound
  <2>3. \A k \in 1 .. n : Nth(k) = q[k]
    BY <2>1, <2>2, NthOf
  <2>4. \A k \in 1 .. n - 1 : k \in 1 .. n /\ k + 1 \in 1 .. n
    BY <2>2
  <2> QED  BY <2>1, <2>2, <2>3, <2>4 DEF Sorted, InTime
<1> QED  BY <1>1, Invariance, PTL

\* As long as no stamp runs over its second, the list, the clock and the select
\* loop implement the abstract timer queue: what is pushed goes to its place, the
\* first event is the one handled, and none is handled before its time.
THEOREM TimerQueueImplemented ==
  ASSUME ~Carry
  PROVE  Spec => ImplementsTimerQueue
<1>1. Init /\ Shape => Abstract!Init
  <2> SUFFICES ASSUME Init, Shape PROVE Abstract!Init
    OBVIOUS
  <2>1. IsList(list, <<>>, 0)
    BY DEF Init, IsList
  <2>2. Queue = Events(list, <<>>, 0)
    BY <2>1, Zenon DEF Shape
  <2>3. Queue = <<>>
    BY <2>2 DEF Events
  <2>4. Micros(now) \in Int
    BY BoundsAssumption, MicrosInt DEF Init
  <2> QED  BY <2>3, <2>4 DEF Abstract!Init
<1>2. Inv /\ Shape /\ Shape' /\ [Next]_vars => [Abstract!Next]_<<Queue, Micros(now)>>
  BY StepInv
<1> QED
  BY <1>1, <1>2, QueueShape, Invariance, PTL DEF Spec, ImplementsTimerQueue, Abstract!Spec
=============================================================================
