------------------------------ MODULE Calls_proofs ------------------------------
(***************************************************************************)
(* mark_dirty marks exactly what it promises, on every graph over any set  *)
(* of nodes.  For every number of starts, stops and events of one caller,  *)
(* a started engine is wired, a stopped one leaves nothing behind, and the *)
(* events of a source are handled once and in the order of publication.    *)
(***************************************************************************)
EXTENDS MCCalls, GraphReach, SequenceTheorems, TLAPS

-----------------------------------------------------------------------------
(* mark_dirty: the loop invariant is inductive and implies the contract.   *)

(* Popping and extending the stack, seen as sets of elements.              *)
LEMMA PoppedElements ==
  ASSUME NEW s \in Seq(NodeId), s # <<>>
  PROVE  /\ s[Len(s)] \in Elements(s)
         /\ SubSeq(s, 1, Len(s) - 1) \in Seq(NodeId)
         /\ Elements(s) = Elements(SubSeq(s, 1, Len(s) - 1)) \cup {s[Len(s)]}
<1> DEFINE n == Len(s) - 1
           p == SubSeq(s, 1, n)
<1>1. /\ n \in Nat /\ 1 .. Len(s) = (1 .. n) \cup {Len(s)}
      /\ \A i \in 1 .. n : s[i] \in NodeId
  OBVIOUS
<1>2. p \in Seq(NodeId) /\ Len(p) = n /\ \A i \in 1 .. n : p[i] = s[i]
  <2> HIDE DEF n
  <2>1. /\ p \in Seq(NodeId)
        /\ Len(p) = IF 1 <= n THEN n - 1 + 1 ELSE 0
        /\ \A i \in 1 .. n - 1 + 1 : p[i] = s[1 + i - 1]
    BY <1>1, SubSeqProperties
  <2>2. QED
    BY <2>1, <1>1
<1>3. QED
  BY <1>1, <1>2 DEF Elements

LEMMA ExtendedElements ==
  ASSUME NEW s \in Seq(NodeId), NEW S \in SUBSET NodeId
  PROVE  /\ s \o Descending[S] \in Seq(NodeId)
         /\ Elements(s \o Descending[S]) = Elements(s) \cup S
<1> DEFINE t == Descending[S]
<1>1. t \in Seq(NodeId) /\ Elements(t) = S
  BY DescendingAssumption DEF Elements
<1>2. /\ s \o t \in Seq(NodeId)
      /\ Len(s \o t) = Len(s) + Len(t)
      /\ \A i \in 1 .. Len(s) : (s \o t)[i] = s[i]
      /\ \A i \in 1 .. Len(t) : (s \o t)[Len(s) + i] = t[i]
  BY <1>1
<1>3. Elements(s \o t) \subseteq Elements(s) \cup Elements(t)
  <2> SUFFICES ASSUME NEW i \in 1 .. Len(s \o t)
               PROVE  (s \o t)[i] \in Elements(s) \cup Elements(t)
    BY DEF Elements
  <2>1. CASE i <= Len(s)
    BY <2>1, <1>1, <1>2 DEF Elements
  <2>2. CASE i > Len(s)
    <3>1. i - Len(s) \in 1 .. Len(t) /\ i = Len(s) + (i - Len(s))
      BY <2>2, <1>1, <1>2
    <3>2. (s \o t)[i] = t[i - Len(s)]
      BY <3>1, <1>2
    <3>3. QED
      BY <3>1, <3>2 DEF Elements
  <2>3. QED
    BY <2>1, <2>2, <1>1, <1>2
<1>4. Elements(s) \subseteq Elements(s \o t)
  BY <1>1, <1>2 DEF Elements
<1>5. Elements(t) \subseteq Elements(s \o t)
  <2> SUFFICES ASSUME NEW i \in 1 .. Len(t)
               PROVE  t[i] \in Elements(s \o t)
    BY DEF Elements
  <2>1. Len(s) + i \in 1 .. Len(s \o t)
    BY <1>1, <1>2
  <2>2. QED
    BY <2>1, <1>2 DEF Elements
<1>6. QED
  BY <1>1, <1>2, <1>3, <1>4, <1>5
-----------------------------------------------------------------------------
(* The two kinds of iteration preserve the loop invariant.                 *)
LEMMA SkipPreserves == LoopInv /\ Skip => LoopInv'
<1> SUFFICES ASSUME LoopInv, Skip PROVE LoopInv'
  OBVIOUS
<1> USE DEF LoopInv, Skip, call, TypeOK
<1>1. /\ stack' \in Seq(NodeId)
      /\ Elements(stack) = Elements(stack') \cup {Top}
  BY PoppedElements DEF Popped, Top
<1>2. Top \in marked
  OBVIOUS
<1>3. TypeOK'
  BY <1>1
<1>4. (Elements(stack) \subseteq
        {root} \cup (IF propagate THEN Downstream(dependents, root) ELSE {}))'
  BY <1>1
<1>5. ASSUME propagate
      PROVE  /\ \A m \in marked : Covered(m)'
             /\ root \in Elements(stack') \/ Covered(root)'
  BY <1>5, <1>1, <1>2 DEF Covered
<1>6. include_self => root \in marked \cup Elements(stack')
  BY <1>1, <1>2
<1>7. QED
  BY <1>3, <1>4, <1>5, <1>6

LEMMA ExpandPreserves == LoopInv /\ Expand => LoopInv'
<1> SUFFICES ASSUME LoopInv, Expand PROVE LoopInv'
  OBVIOUS
<1> USE DEF LoopInv, Expand, call, TypeOK
<1> DEFINE D == Downstream(dependents, root)
<1>1. /\ Top \in Elements(stack) /\ Popped \in Seq(NodeId)
      /\ Elements(stack) = Elements(Popped) \cup {Top}
  BY PoppedElements DEF Popped, Top
<1>2. Top \in NodeId
  BY <1>1 DEF Elements
<1>3. /\ D \subseteq NodeId /\ dependents[root] \subseteq D
      /\ ClosedUnder(dependents, D)
  BY DownstreamClosed
<1>4. /\ stack' \in Seq(NodeId)
      /\ Elements(stack') =
           Elements(Popped) \cup (IF propagate THEN dependents[Top] ELSE {})
  BY <1>1, <1>2, ExtendedElements
<1>5. TypeOK'
  BY <1>2, <1>4
<1>6. dirty' = before \cup marked'
  OBVIOUS
<1>7. marked' \subseteq Marked(dependents, root, propagate, include_self)
  BY <1>1 DEF Marked, Marking
<1>8. (Elements(stack) \subseteq {root} \cup (IF propagate THEN D ELSE {}))'
  BY <1>1, <1>3, <1>4 DEF ClosedUnder
<1>9. ASSUME propagate
      PROVE  /\ \A m \in marked' : Covered(m)'
             /\ root \in Elements(stack') \/ Covered(root)'
  <2>1. Elements(stack) \subseteq Elements(stack') \cup {Top}
    BY <1>1, <1>4
  <2>2. dependents[Top] \subseteq Elements(stack')
    BY <1>9, <1>4
  <2>3. Top \in marked' \cup {root}
    BY DEF Marking
  <2>a. marked \subseteq marked' /\ marked' \subseteq marked \cup {Top}
    OBVIOUS
  <2>4. ASSUME NEW m \in NodeId, Covered(m)
        PROVE  Covered(m)'
    BY <2>1, <2>3, <2>a, <2>4 DEF Covered
  <2>b. PICK t \in NodeId : t = Top
    BY <1>2
  <2>5. Covered(t)'
    BY <2>2, <2>b DEF Covered
  <2>6. ASSUME NEW m \in marked' PROVE Covered(m)'
    BY <2>4, <2>5, <2>a, <2>b, <1>9
  <2>7. root \in Elements(stack') \/ Covered(root)'
    BY <2>1, <2>4, <2>5, <2>b, <1>9
  <2>8. QED
    BY <2>6, <2>7
<1>10. include_self => root \in marked' \cup Elements(stack')
  BY <1>1, <1>4 DEF Marking
<1>11. QED
  BY <1>5, <1>6, <1>7, <1>8, <1>9, <1>10

(* The loop invariant holds in every state of every call.                  *)
THEOREM LoopInvariant == Spec => []LoopInv
<1>1. Init => LoopInv
  BY DEF Init, LoopInv, TypeOK, Elements, Marked
<1>2. LoopInv /\ [Next]_vars => LoopInv'
  <2> SUFFICES ASSUME LoopInv, [Next]_vars PROVE LoopInv'
    OBVIOUS
  <2>1. CASE Skip
    BY <2>1, SkipPreserves
  <2>2. CASE Expand
    BY <2>2, ExpandPreserves
  <2>3. CASE UNCHANGED vars
    BY <2>3 DEF vars, call, LoopInv, TypeOK, Covered, Elements
  <2>4. QED
    BY <2>1, <2>2, <2>3 DEF Next
<1>3. QED
  BY <1>1, <1>2, PTL DEF Spec

(* When the call of mark_dirty returns, the newly dirty nodes are exactly  *)
(* the promised ones, on every graph, cyclic ones included.                *)
THEOREM MarkDirtyCorrect == Spec => []MarksExactlyDownstream
<1>1. LoopInv => MarksExactlyDownstream
  <2> SUFFICES ASSUME LoopInv, Returned
               PROVE  dirty = before \cup Marked(dependents, root, propagate, include_self)
    BY DEF MarksExactlyDownstream
  <2> USE DEF LoopInv, TypeOK
  <2>1. Elements(stack) = {}
    BY DEF Returned, Elements
  <2>2. ASSUME propagate
        PROVE  Downstream(dependents, root) \subseteq marked \cup {root}
    <3>1. /\ dependents[root] \subseteq marked \cup {root}
          /\ ClosedUnder(dependents, marked \cup {root})
      BY <2>1, <2>2 DEF Covered, ClosedUnder
    <3>2. QED
      BY <3>1, DownstreamLeast
  <2>3. Marked(dependents, root, propagate, include_self) \subseteq marked
    BY <2>1, <2>2 DEF Marked
  <2>4. QED
    BY <2>3
<1>2. QED
  BY <1>1, LoopInvariant, PTL

-----------------------------------------------------------------------------
(* Starting and stopping the engine.                                       *)

(* What a concatenation of two lists of events keeps.                      *)
LEMMA Concatenation ==
  ASSUME NEW p \in Seq(Life!Event), NEW q \in Seq(Life!Event)
  PROVE  /\ p \o q \in Seq(Life!Event)
         /\ Life!Rising(p) /\ Life!Rising(q) /\ Life!Precedes(p, q) => Life!Rising(p \o q)
         /\ \A n \in Nat : Life!UpTo(p, n) /\ Life!UpTo(q, n) => Life!UpTo(p \o q, n)
         /\ \A x \in Seq(Life!Event) :
              /\ Life!Precedes(x, p) /\ Life!Precedes(x, q) => Life!Precedes(x, p \o q)
              /\ Life!Precedes(p, x) /\ Life!Precedes(q, x) => Life!Precedes(p \o q, x)
<1> DEFINE s == p \o q
           m == Len(p)
           n == Len(q)
<1>1. /\ s \in Seq(Life!Event) /\ m \in Nat /\ n \in Nat /\ Len(s) = m + n
      /\ \A i \in 1 .. m : s[i] = p[i]
      /\ \A i \in m + 1 .. m + n : s[i] = q[i - m] /\ i - m \in 1 .. n
  OBVIOUS
<1>2. \A i \in 1 .. Len(s) : i \in 1 .. m \/ i \in m + 1 .. m + n
  BY <1>1
<1> HIDE DEF s, m, n
<1>3. ASSUME Life!Rising(p), Life!Rising(q), Life!Precedes(p, q)
      PROVE  Life!Rising(s)
  <2> SUFFICES ASSUME NEW i \in 1 .. Len(s), NEW j \in 1 .. Len(s), i < j, s[i].of = s[j].of
               PROVE  s[i].number < s[j].number
    BY DEF Life!Rising
  <2>1. CASE i \in 1 .. m /\ j \in 1 .. m
    BY <1>1, <1>3, <2>1 DEF Life!Rising, m
  <2>2. CASE i \in 1 .. m /\ j \in m + 1 .. m + n
    BY <1>1, <1>3, <2>2 DEF Life!Precedes, m, n
  <2>3. CASE i \in m + 1 .. m + n /\ j \in m + 1 .. m + n
    <3>1. i - m \in 1 .. n /\ j - m \in 1 .. n /\ i - m < j - m
      BY <1>1, <2>3
    <3> QED
      BY <1>1, <1>3, <2>3, <3>1 DEF Life!Rising, n
  <2> QED
    BY <1>1, <1>2, <2>1, <2>2, <2>3
<1>4. ASSUME NEW k \in Nat, Life!UpTo(p, k), Life!UpTo(q, k)
      PROVE  Life!UpTo(s, k)
  BY <1>1, <1>2, <1>4 DEF Life!UpTo, m, n
<1>5. ASSUME NEW x \in Seq(Life!Event)
      PROVE  /\ Life!Precedes(x, p) /\ Life!Precedes(x, q) => Life!Precedes(x, s)
             /\ Life!Precedes(p, x) /\ Life!Precedes(q, x) => Life!Precedes(s, x)
  BY <1>1, <1>2 DEF Life!Precedes, m, n
<1> QED
  BY <1>1, <1>3, <1>4, <1>5 DEF s

LEMMA OneEvent ==
  ASSUME NEW e \in Life!Event
  PROVE  /\ <<e>> \in Seq(Life!Event) /\ Life!Rising(<<e>>)
         /\ \A n \in Nat : Life!UpTo(<<e>>, n) <=> e.number =< n
         /\ \A x \in Seq(Life!Event), n \in Nat :
              Life!UpTo(x, n) /\ n < e.number => Life!Precedes(x, <<e>>)
<1>1. <<e>> \in Seq(Life!Event) /\ Len(<<e>>) = 1 /\ <<e>>[1] = e /\ e.number \in Nat
  BY DEF Life!Event
<1>2. Life!Rising(<<e>>)
  BY <1>1 DEF Life!Rising
<1>3. \A n \in Nat : Life!UpTo(<<e>>, n) <=> e.number =< n
  BY <1>1 DEF Life!UpTo
<1>4. ASSUME NEW x \in Seq(Life!Event), NEW n \in Nat, Life!UpTo(x, n), n < e.number,
             NEW i \in 1 .. Len(x)
      PROVE  x[i].number < e.number
  <2>1. x[i] \in Life!Event
    OBVIOUS
  <2> QED
    BY <1>1, <1>4, <2>1 DEF Life!UpTo, Life!Event
<1> QED
  BY <1>1, <1>2, <1>3, <1>4 DEF Life!Precedes

(* What the head and the tail of a list of events keep.                    *)
LEMMA HeadAndTail ==
  ASSUME NEW p \in Seq(Life!Event), p # <<>>
  PROVE  /\ Head(p) \in Life!Event /\ Tail(p) \in Seq(Life!Event)
         /\ Life!Rising(p) => Life!Rising(Tail(p)) /\ Life!Precedes(<<Head(p)>>, Tail(p))
         /\ \A n \in Nat : Life!UpTo(p, n) => Life!UpTo(Tail(p), n) /\ Head(p).number =< n
         /\ \A x \in Seq(Life!Event) :
              /\ Life!Precedes(x, p) =>
                   Life!Precedes(x, Tail(p)) /\ Life!Precedes(x, <<Head(p)>>)
              /\ Life!Precedes(p, x) =>
                   Life!Precedes(Tail(p), x) /\ Life!Precedes(<<Head(p)>>, x)
<1> DEFINE t == Tail(p)
           h == Head(p)
<1>1. /\ h \in Life!Event /\ t \in Seq(Life!Event) /\ Len(p) \in Nat /\ 1 \in 1 .. Len(p)
         /\ h = p[1]
      /\ Len(t) = Len(p) - 1
      /\ \A i \in 1 .. Len(t) : t[i] = p[i + 1] /\ i + 1 \in 1 .. Len(p)
  OBVIOUS
<1>2. Len(<<h>>) = 1 /\ <<h>>[1] = h /\ 1 .. 1 = {1}
  OBVIOUS
<1> HIDE DEF t, h
<1>3. ASSUME Life!Rising(p)
      PROVE  Life!Rising(t) /\ Life!Precedes(<<h>>, t)
  <2>1. Life!Rising(t)
    <3> SUFFICES ASSUME NEW i \in 1 .. Len(t), NEW j \in 1 .. Len(t), i < j,
        t[i].of = t[j].of
                 PROVE  t[i].number < t[j].number
      BY DEF Life!Rising
    <3>1. i + 1 < j + 1
      OBVIOUS
    <3> QED
      BY <1>1, <1>3, <3>1 DEF Life!Rising
  <2>2. Life!Precedes(<<h>>, t)
    <3> SUFFICES ASSUME NEW j \in 1 .. Len(t), h.of = t[j].of
                 PROVE  h.number < t[j].number
      BY <1>2 DEF Life!Precedes
    <3>1. 1 < j + 1
      OBVIOUS
    <3> QED
      BY <1>1, <1>3, <3>1 DEF Life!Rising
  <2> QED
    BY <2>1, <2>2
<1>4. ASSUME NEW n \in Nat, Life!UpTo(p, n)
      PROVE  Life!UpTo(t, n) /\ h.number =< n
  BY <1>1, <1>4 DEF Life!UpTo
<1>5. ASSUME NEW x \in Seq(Life!Event), Life!Precedes(x, p)
      PROVE  Life!Precedes(x, t) /\ Life!Precedes(x, <<h>>)
  <2>1. Life!Precedes(x, t)
    BY <1>1, <1>5 DEF Life!Precedes
  <2>2. Life!Precedes(x, <<h>>)
    BY <1>1, <1>2, <1>5 DEF Life!Precedes
  <2> QED
    BY <2>1, <2>2
<1>6. ASSUME NEW x \in Seq(Life!Event), Life!Precedes(p, x)
      PROVE  Life!Precedes(t, x) /\ Life!Precedes(<<h>>, x)
  BY <1>1, <1>2, <1>6 DEF Life!Precedes
<1> QED
  BY <1>1, <1>3, <1>4, <1>5, <1>6 DEF t, h

LEMMA NoEvents ==
  /\ Life!Rising(<<>>) /\ \A n \in Nat : Life!UpTo(<<>>, n)
  /\ \A x \in Seq(Life!Event) : Life!Precedes(x, <<>>) /\ Life!Precedes(<<>>, x)
BY DEF Life!Rising, Life!UpTo, Life!Precedes

LEMMA LaterBound ==
  ASSUME NEW p \in Seq(Life!Event), NEW m \in Nat, NEW n \in Nat, m =< n, Life!UpTo(p, m)
  PROVE  Life!UpTo(p, n)
<1> SUFFICES ASSUME NEW i \in 1 .. Len(p)
             PROVE  p[i].number =< n
  BY DEF Life!UpTo
<1>1. p[i] \in Life!Event
  OBVIOUS
<1> QED
  BY <1>1 DEF Life!UpTo, Life!Event

(* The tasks of one start: two relays and a loop.                          *)
LEMMA TasksOfStart ==
  ASSUME NEW g \in Life!Gen
  PROVE  /\ Life!RelayOf("market", g) \in Life!Relay
            /\ Life!RelayOf("scheduler", g) \in Life!Relay
         /\ Life!LoopOf(g) \in Life!Loop /\ Life!RelaysOf(g) \subseteq Life!Relay
         /\ Life!RelayOf("market", g) # Life!RelayOf("scheduler", g)
         /\ \A r \in Life!Relay : r.gen = g <=> r \in Life!RelaysOf(g)
BY DEF Life!RelayOf, Life!LoopOf, Life!RelaysOf, Life!Relay, Life!Loop

LEMMA RelaysAreNoLoops == Life!Relay \cap Life!Loop = {} /\ Life!Relay \subseteq Life!Task
                          /\ Life!Loop \subseteq Life!Task
BY DEF Life!Relay, Life!Loop, Life!Task

(* What the list of relays holds.                                          *)
LEMMA RelayList ==
  ASSUME NEW g \in Life!Gen, relays = <<Life!RelayOf("market", g),
         Life!RelayOf("scheduler", g)>>
  PROVE  /\ Len(relays) = 2 /\ Life!Member(relays) = Life!RelaysOf(g)
         /\ relays[1] = Life!RelayOf("market", g)
            /\ relays[2] = Life!RelayOf("scheduler", g)
<1>1. Len(relays) = 2 /\ relays[1] = Life!RelayOf("market", g)
      /\ relays[2] = Life!RelayOf("scheduler", g)
  OBVIOUS
<1>2. 1 .. Len(relays) = {1, 2}
  BY <1>1
<1> QED
  BY <1>1, <1>2 DEF Life!Member, Life!RelaysOf

(* Who is in stop, where there is one caller.                              *)
LEMMA WhereStopIs ==
  ASSUME Life!OneCaller, NEW c \in Caller, Life!Phases
  PROVE  /\ running => Life!IsRunning(starts)
         /\ ~ running /\ caller[c] = Life!Idle => Life!IsStopped
         /\ caller[c].at = "scheduler" => Life!WaitsForScheduler(c, starts)
         /\ caller[c].at = "relay" => Life!WaitsForRelay(c, starts)
<1>1. \A d \in Caller : d = c
  BY DEF Life!OneCaller
<1>2. Life!IsRunning(starts) \/ Life!IsStopped \/ Life!WaitsForScheduler(c, starts)
      \/ Life!WaitsForRelay(c, starts)
  BY <1>1 DEF Life!Phases
<1>3. CASE Life!IsRunning(starts)
  BY <1>3 DEF Life!IsRunning, Life!Stopping, Life!Idle
<1>4. CASE Life!IsStopped
  BY <1>4 DEF Life!IsStopped, Life!Stopping, Life!Idle
<1>5. CASE Life!WaitsForScheduler(c, starts)
  BY <1>5 DEF Life!WaitsForScheduler, Life!Idle
<1>6. CASE Life!WaitsForRelay(c, starts)
  BY <1>6 DEF Life!WaitsForRelay, Life!Idle
<1> QED
  BY <1>2, <1>3, <1>4, <1>5, <1>6

(* In every phase, what is not stopped belongs to the last start.          *)
LEMMA LastStart ==
  ASSUME Life!Phases, Life!TypeOK
  PROVE  /\ \/ Life!IsStopped
            \/ Life!Bound(starts)
         /\ current # 0 => Life!Bound(starts)
BY DEF Life!Phases, Life!IsRunning, Life!IsStopped, Life!WaitsForScheduler,
     Life!WaitsForRelay

LEMMA PhaseFrame ==
  ASSUME Life!Phases, UNCHANGED <<running, starts, handle, task, target, Life!wiring,
         caller>>
  PROVE  Life!Phases'
BY DEF Life!Phases, Life!IsRunning, Life!IsStopped, Life!WaitsForScheduler,
     Life!WaitsForRelay, Life!Stopping, Life!Bound,
       Life!RelaysDeliver, Life!Ending, Life!Ended, Life!Live, Life!wiring

LEMMA StartPhase ==
  ASSUME Life!LifecycleConstants, Life!OneCaller, Life!TypeOK, Life!Phases,
         NEW c \in Caller, Life!Start(c),
         NEW g \in Life!Gen, g = starts + 1
  PROVE  Life!IsRunning(g)' /\ starts' = g
<1>1. Life!IsStopped
  BY WhereStopIs DEF Life!Start
<1>2. current' = g /\ starts' = g /\ running' = TRUE
  BY DEF Life!Start, Life!TypeOK, Life!Gen, Life!LifecycleConstants
<1>3. ~ Life!LoopRunning
  BY <1>1 DEF Life!IsStopped, Life!LoopRunning
<1>4. Life!Created(g) = Life!RelaysOf(g) \cup {Life!LoopOf(g)}
  BY <1>3 DEF Life!Created, Life!RelaysOf
<1>5. /\ subscribed' = Life!RelaysOf(g) /\ handle' = g /\ caller' = caller
      /\ relays' = <<Life!RelayOf("market", g), Life!RelayOf("scheduler", g)>>
      /\ task' = [t \in Life!Task |->
                    IF t \in Life!RelaysOf(g) \cup {Life!LoopOf(g)}
                    THEN "created" ELSE task[t]]
  BY <1>1, <1>3, <1>4 DEF Life!Start, Life!IsStopped, Life!RelaysOf
<1>6. ~ Life!Stopping'
  BY <1>1, <1>5 DEF Life!IsStopped, Life!Stopping
<1>7. \A t \in Life!Task \ (Life!RelaysOf(g) \cup {Life!LoopOf(g)}) : Life!Ended(t)'
  BY <1>1, <1>5 DEF Life!IsStopped, Life!Ended
<1>8. \A t \in Life!RelaysOf(g) \cup {Life!LoopOf(g)} : task'[t] = "created"
  BY <1>2, <1>5, TasksOfStart, RelaysAreNoLoops
<1>9. Life!Bound(g)'
  BY <1>2, <1>5, <1>7 DEF Life!Bound
<1>10. Life!RelaysDeliver(g)' /\ Life!Live(Life!LoopOf(g))'
  BY <1>8 DEF Life!RelaysDeliver, Life!Live
<1>11. Life!IsRunning(g)'
  BY <1>2, <1>5, <1>6, <1>9, <1>10 DEF Life!IsRunning
<1> QED
  BY <1>2, <1>11

LEMMA StopPhase ==
  ASSUME Life!OneCaller, Life!TypeOK, Life!Phases, NEW c \in Caller, Life!Stop(c)
  PROVE  Life!WaitsForScheduler(c, starts)' /\ UNCHANGED <<Life!wiring, starts, target>>
<1> DEFINE g == starts
<1>1. Life!IsRunning(g)
  BY WhereStopIs DEF Life!Stop
<1>2. g \in Life!Gen /\ handle = g /\ g # 0 /\ Life!Live(Life!LoopOf(g))
      /\ Life!LoopOf(g) \in Life!Task
  BY <1>1, TasksOfStart, RelaysAreNoLoops DEF Life!IsRunning, Life!Bound, Life!Gen
<1>3. Life!LoopRunning
  BY <1>2 DEF Life!LoopRunning, Life!Live
<1>4. /\ task' = Life!Cancel(task, {Life!LoopOf(g)}) /\ running' = FALSE
      /\ caller' = [caller EXCEPT ![c] = [at |-> "scheduler", on |-> Life!LoopOf(g)]]
      /\ UNCHANGED <<handle, Life!wiring, starts, target>>
  BY <1>2, <1>3 DEF Life!Stop
<1>5. /\ task'[Life!LoopOf(g)] = "cancelling"
      /\ \A t \in Life!Task \ {Life!LoopOf(g)} : task'[t] = task[t]
  BY <1>2, <1>4 DEF Life!Cancel, Life!Live
<1>6. caller'[c] = [at |-> "scheduler", on |-> Life!LoopOf(g)]
  BY <1>4 DEF Life!TypeOK
<1>7. \A r \in Life!RelaysOf(g) : r \in Life!Task \ {Life!LoopOf(g)}
  BY <1>2, TasksOfStart, RelaysAreNoLoops
<1>8. Life!Bound(g)'
  BY <1>1, <1>4, <1>5 DEF Life!IsRunning, Life!Bound, Life!Ended, Life!wiring
<1>9. Life!RelaysDeliver(g)'
  BY <1>1, <1>4, <1>5, <1>7 DEF Life!IsRunning, Life!RelaysDeliver, Life!Live
<1> QED
  BY <1>2, <1>4, <1>5, <1>6, <1>8, <1>9 DEF Life!WaitsForScheduler, Life!Ending

LEMMA SchedulerStoppedPhase ==
  ASSUME Life!OneCaller, Life!TypeOK, Life!Phases, NEW c \in Caller,
         Life!SchedulerStopped(c)
  PROVE  Life!WaitsForRelay(c, starts)' /\ UNCHANGED <<Life!wiring, starts, target>>
<1> DEFINE g == starts
<1>1. Life!WaitsForScheduler(c, g)
  BY WhereStopIs DEF Life!SchedulerStopped
<1>2. g \in Life!Gen /\ Life!Bound(g) /\ Life!RelaysDeliver(g)
      /\ task[Life!LoopOf(g)] = "done" /\ Life!LoopOf(g) \in Life!Task
  BY <1>1, TasksOfStart, RelaysAreNoLoops DEF Life!WaitsForScheduler, Life!Bound,
       Life!SchedulerStopped
<1>3. /\ Len(relays) = 2 /\ Life!Member(relays) = Life!RelaysOf(g)
      /\ relays[1] = Life!RelayOf("market", g) /\ relays[2] = Life!RelayOf("scheduler", g)
  BY <1>2, RelayList DEF Life!Bound
<1>4. /\ handle' = 0 /\ task' = Life!Cancel(task, Life!RelaysOf(g))
         /\ Life!AwaitRelays(c, task', 1)
      /\ UNCHANGED <<running, starts, target>>
  BY <1>3 DEF Life!SchedulerStopped, Life!StopRelays
<1>5. /\ \A r \in Life!RelaysOf(g) : task'[r] = "cancelling"
      /\ \A t \in Life!Task \ Life!RelaysOf(g) : task'[t] = task[t]
  BY <1>2, <1>4, TasksOfStart, RelaysAreNoLoops DEF Life!Cancel, Life!RelaysDeliver,
       Life!Live
<1>6. Life!LoopOf(g) \in Life!Task \ Life!RelaysOf(g)
  BY <1>2, TasksOfStart, RelaysAreNoLoops
<1>7. task'[relays[1]] # "done"
  BY <1>3, <1>5 DEF Life!RelaysOf
<1>8. /\ caller' = [caller EXCEPT ![c] = [at |-> "relay", on |-> relays[1], index |-> 1]]
      /\ UNCHANGED Life!wiring
  <2>1. PICK j \in 1 .. Len(relays) :
          /\ \A k \in 1 .. j - 1 : task'[relays[k]] = "done"
          /\ caller' = [caller EXCEPT ![c] = [at |-> "relay", on |-> relays[j],
             index |-> j]]
          /\ UNCHANGED Life!wiring
    BY <1>3, <1>4, <1>7 DEF Life!AwaitRelays
  <2>2. j = 1
    BY <1>3, <1>7, <2>1
  <2> QED
    BY <2>1, <2>2
<1>9. caller'[c] = [at |-> "relay", on |-> relays[1], index |-> 1]
  BY <1>8 DEF Life!TypeOK
<1>10. Life!Bound(g)'
  BY <1>2, <1>4, <1>5, <1>8 DEF Life!Bound, Life!Ended, Life!wiring
<1>11. ~ running' /\ relays' = relays
  BY <1>1, <1>4, <1>8 DEF Life!WaitsForScheduler, Life!wiring
<1> QED
  BY <1>2, <1>4, <1>5, <1>6, <1>8, <1>9, <1>10, <1>11 DEF Life!WaitsForRelay, Life!Ending

LEMMA RelayStoppedPhase ==
  ASSUME Life!OneCaller, Life!TypeOK, Life!Phases, NEW c \in Caller, Life!RelayStopped(c)
  PROVE  /\ UNCHANGED <<task, starts, target, handle, running>>
         /\ \/ Life!WaitsForRelay(c, starts)' /\ UNCHANGED Life!wiring
            \/ Life!IsStopped'
<1> DEFINE g == starts
<1>1. Life!WaitsForRelay(c, g)
  BY WhereStopIs DEF Life!RelayStopped
<1>2. PICK i \in {1, 2} : /\ caller[c] = [at |-> "relay", on |-> relays[i], index |-> i]
                          /\ i = 2 => task[Life!RelayOf("market", g)] = "done"
  BY <1>1 DEF Life!WaitsForRelay
<1>3. /\ g \in Life!Gen /\ Life!Bound(g) /\ handle = 0 /\ ~ running
         /\ task[Life!LoopOf(g)] = "done"
      /\ \A r \in Life!RelaysOf(g) : Life!Ending(r)
  BY <1>1 DEF Life!WaitsForRelay, Life!Bound
<1>4. /\ Len(relays) = 2
      /\ relays[1] = Life!RelayOf("market", g) /\ relays[2] = Life!RelayOf("scheduler", g)
  BY <1>3, RelayList DEF Life!Bound
<1>5. /\ task[relays[i]] = "done" /\ Life!AwaitRelays(c, task, i + 1)
      /\ UNCHANGED <<running, starts, handle, task, target>>
  BY <1>2 DEF Life!RelayStopped, Life!tasks
<1>6. task[Life!RelayOf("market", g)] = "done"
  BY <1>2, <1>4, <1>5
<1>7. CASE \E j \in i + 1 .. Len(relays) :
             /\ caller' = [caller EXCEPT ![c] = [at |-> "relay", on |-> relays[j],
                index |-> j]]
             /\ UNCHANGED Life!wiring
  <2>1. PICK j \in i + 1 .. Len(relays) :
             /\ caller' = [caller EXCEPT ![c] = [at |-> "relay", on |-> relays[j],
                index |-> j]]
             /\ UNCHANGED Life!wiring
    BY <1>7
  <2>2. j = 2
    BY <1>2, <1>4, <2>1
  <2>3. caller'[c] = [at |-> "relay", on |-> relays[2], index |-> 2] /\ relays' = relays
    BY <2>1, <2>2 DEF Life!TypeOK, Life!wiring
  <2>4. Life!Bound(g)'
    BY <1>3, <1>5, <2>1 DEF Life!Bound, Life!Ended, Life!wiring
  <2>5. \A r \in Life!RelaysOf(g) : Life!Ending(r)'
    BY <1>3, <1>5 DEF Life!Ending
  <2>6. Life!WaitsForRelay(c, g)'
    BY <1>3, <1>5, <1>6, <2>3, <2>4, <2>5 DEF Life!WaitsForRelay
  <2> QED
    BY <1>5, <2>1, <2>6
<1>8. CASE /\ \A k \in i + 1 .. Len(relays) : task[relays[k]] = "done"
           /\ caller' = [caller EXCEPT ![c] = Life!Idle]
           /\ relays' = <<>> /\ subscribed' = {} /\ current' = 0
  <2>1. task[Life!RelayOf("scheduler", g)] = "done"
    <3>1. CASE i = 1
      <4>1. 2 \in i + 1 .. Len(relays)
        BY <1>4, <3>1
      <4> QED
        BY <1>4, <1>8, <4>1
    <3>2. CASE i = 2
      BY <1>4, <1>5, <3>2
    <3> QED
      BY <3>1, <3>2
  <2>2. \A t \in Life!Task : task[t] \in {"none", "done"}
    BY <1>3, <1>6, <2>1 DEF Life!Bound, Life!Ended, Life!RelaysOf
  <2>3. \A d \in Caller : caller'[d] = Life!Idle
    BY <1>8 DEF Life!OneCaller, Life!TypeOK
  <2>4. Life!IsStopped'
    BY <1>3, <1>5, <1>8, <2>2, <2>3 DEF Life!IsStopped, Life!Stopping, Life!Ended
  <2> QED
    BY <1>5, <2>4
<1> QED
  BY <1>5, <1>7, <1>8 DEF Life!AwaitRelays

(* A relay that runs for the first time finds the queue of its own start.  *)
LEMMA RelayRuns ==
  ASSUME Life!TypeOK, Life!Phases, NEW r \in Life!Relay, Life!Live(r)
  PROVE  /\ Life!Bound(starts) /\ Life!RelaysDeliver(starts)
            /\ r \in Life!RelaysOf(starts) /\ r.gen = starts
         /\ current = starts /\ starts \in Life!Gen
         /\ Life!IsRunning(starts) \/ \E c \in Caller : Life!WaitsForScheduler(c, starts)
<1>1. ~ Life!Ended(r) /\ ~ Life!Ending(r) /\ r \in Life!Task
  BY RelaysAreNoLoops DEF Life!Live, Life!Ended, Life!Ending
<1>2. ~ Life!IsStopped
  BY <1>1 DEF Life!IsStopped
<1>3. Life!Bound(starts)
  BY <1>2, LastStart
<1>4. r # Life!LoopOf(starts) /\ starts \in Life!Gen
  BY <1>3, TasksOfStart, RelaysAreNoLoops DEF Life!Bound
<1>5. r \in Life!RelaysOf(starts)
  BY <1>1, <1>3, <1>4 DEF Life!Bound
<1>6. \A c \in Caller : ~ Life!WaitsForRelay(c, starts)
  BY <1>1, <1>5 DEF Life!WaitsForRelay
<1> QED
  BY <1>2, <1>3, <1>4, <1>5, <1>6, TasksOfStart
     DEF Life!Phases, Life!IsRunning, Life!WaitsForScheduler, Life!Bound

LEMMA RelayBeginsPhase ==
  ASSUME Life!TypeOK, Life!Phases, NEW r \in Life!Relay, Life!RelayBegins(r)
  PROVE  Life!Phases' /\ Life!MoveAll(r, starts)
         /\ UNCHANGED <<running, starts, Life!wiring>>
<1> DEFINE g == starts
<1>1. /\ Life!Bound(g) /\ Life!RelaysDeliver(g) /\ r \in Life!RelaysOf(g) /\ current = g
         /\ g \in Life!Gen
      /\ Life!IsRunning(g) \/ \E c \in Caller : Life!WaitsForScheduler(c, g)
  BY RelayRuns DEF Life!RelayBegins, Life!Live
<1>2. g # 0
  BY <1>1 DEF Life!Gen
<1>3. /\ task' = [task EXCEPT ![r] = "parked"] /\ target' = [target EXCEPT ![r] = g]
      /\ Life!MoveAll(r, g) /\ UNCHANGED <<running, starts, handle, Life!wiring, caller>>
  BY <1>1, <1>2 DEF Life!RelayBegins
<1>4. /\ task'[r] = "parked" /\ target'[r] = g
      /\ \A t \in Life!Task \ {r} : task'[t] = task[t]
      /\ \A q \in Life!Relay \ {r} : target'[q] = target[q]
  BY <1>3, RelaysAreNoLoops DEF Life!TypeOK
<1>5. Life!Bound(g)'
  BY <1>1, <1>3, <1>4 DEF Life!Bound, Life!Ended, Life!wiring
<1>6. Life!RelaysDeliver(g)'
  <2>1. \A q \in Life!RelaysOf(g) : q \in Life!Relay /\ q \in Life!Task
    BY <1>1, TasksOfStart, RelaysAreNoLoops
  <2>2. ASSUME NEW q \in Life!RelaysOf(g)
        PROVE  /\ task'[q] = "created" \/ task'[q] = "parked"
               /\ task'[q] = "parked" => target'[q] = g
    <3>1. CASE q = r
      BY <1>4, <3>1
    <3>2. CASE q # r
      <4>1. task'[q] = task[q] /\ target'[q] = target[q]
        BY <1>4, <2>1, <3>2
      <4> QED
        BY <1>1, <4>1 DEF Life!RelaysDeliver, Life!Live
    <3> QED
      BY <3>1, <3>2
  <2>3. starts' = starts
    BY <1>3
  <2> QED
    BY <2>2, <2>3 DEF Life!RelaysDeliver, Life!Live, Life!RelaysOf
<1>7. task'[Life!LoopOf(g)] = task[Life!LoopOf(g)]
  BY <1>1, <1>4, TasksOfStart, RelaysAreNoLoops
<1>8. Life!Phases'
  <2>1. CASE Life!IsRunning(g)
    BY <1>3, <1>5, <1>6, <1>7, <2>1 DEF Life!Phases, Life!IsRunning, Life!Stopping,
         Life!Live
  <2>2. ASSUME NEW c \in Caller, Life!WaitsForScheduler(c, g)
        PROVE  Life!Phases'
    BY <1>3, <1>5, <1>6, <1>7, <2>2 DEF Life!Phases, Life!WaitsForScheduler, Life!Ending
  <2> QED
    BY <1>1, <2>1, <2>2
<1> QED
  BY <1>3, <1>8

LEMMA LoopBeginsPhase ==
  ASSUME Life!TypeOK, Life!Phases, NEW t \in Life!Loop, Life!LoopBegins(t)
  PROVE  Life!Phases'
<1> DEFINE g == starts
<1>1. ~ Life!Ended(t) /\ ~ Life!Ending(t) /\ t \in Life!Task
  BY RelaysAreNoLoops DEF Life!LoopBegins, Life!Ended, Life!Ending
<1>2. Life!Bound(g) /\ g \in Life!Gen
  BY <1>1, LastStart DEF Life!IsStopped, Life!Bound
<1>3. t = Life!LoopOf(g)
  BY <1>1, <1>2, TasksOfStart, RelaysAreNoLoops DEF Life!Bound
<1>4. Life!IsRunning(g)
  BY <1>1, <1>3 DEF Life!Phases, Life!IsStopped, Life!WaitsForScheduler,
       Life!WaitsForRelay, Life!Ending
<1>5. /\ task' = [task EXCEPT ![t] = "parked"]
      /\ UNCHANGED <<running, starts, handle, target, Life!wiring, caller>>
  BY DEF Life!LoopBegins
<1>6. task'[t] = "parked" /\ \A u \in Life!Task \ {t} : task'[u] = task[u]
  BY <1>1, <1>5 DEF Life!TypeOK
<1>7. \A q \in Life!RelaysOf(g) : q \in Life!Task \ {t}
  BY <1>2, <1>3, TasksOfStart, RelaysAreNoLoops
<1>8. Life!Bound(g)' /\ Life!RelaysDeliver(g)' /\ Life!Live(Life!LoopOf(g))'
  BY <1>2, <1>3, <1>4, <1>5, <1>6, <1>7
     DEF Life!Bound, Life!RelaysDeliver, Life!IsRunning, Life!Live, Life!Ended, Life!wiring
<1> QED
  BY <1>4, <1>5, <1>8 DEF Life!Phases, Life!IsRunning, Life!Stopping

LEMMA TaskEndsPhase ==
  ASSUME Life!TypeOK, Life!Phases, NEW t \in Life!Task, Life!TaskEnds(t)
  PROVE  Life!Phases'
<1> DEFINE g == starts
<1>1. ~ Life!Ended(t) /\ ~ Life!Live(t)
  BY DEF Life!TaskEnds, Life!Ended, Life!Live
<1>2. Life!Bound(g) /\ g \in Life!Gen
  BY <1>1, LastStart DEF Life!IsStopped, Life!Bound
<1>3. t \in Life!RelaysOf(g) \cup {Life!LoopOf(g)}
  BY <1>1, <1>2 DEF Life!Bound
<1>4. /\ task' = [task EXCEPT ![t] = "done"]
      /\ UNCHANGED <<running, starts, handle, target, Life!wiring, caller>>
  BY DEF Life!TaskEnds
<1>5. task'[t] = "done" /\ \A u \in Life!Task \ {t} : task'[u] = task[u]
  BY <1>4 DEF Life!TypeOK
<1>6. Life!Bound(g)'
  BY <1>2, <1>3, <1>4, <1>5 DEF Life!Bound, Life!Ended, Life!wiring
<1>7. \A q \in Life!RelaysOf(g) : q \in Life!Task /\ q # Life!LoopOf(g)
  BY <1>2, TasksOfStart, RelaysAreNoLoops
<1>8. Life!LoopOf(g) \in Life!Task
  BY <1>2, TasksOfStart, RelaysAreNoLoops
<1>9. \E c \in Caller : Life!WaitsForScheduler(c, g) \/ Life!WaitsForRelay(c, g)
  BY <1>1, <1>3 DEF Life!Phases, Life!IsRunning, Life!IsStopped, Life!RelaysDeliver
<1>10. ASSUME NEW c \in Caller, Life!WaitsForScheduler(c, g)
       PROVE  Life!WaitsForScheduler(c, g)'
  <2>1. t = Life!LoopOf(g)
    BY <1>1, <1>3, <1>10 DEF Life!WaitsForScheduler, Life!RelaysDeliver
  <2>2. Life!RelaysDeliver(g)'
    BY <1>4, <1>5, <1>7, <1>10, <2>1 DEF Life!WaitsForScheduler, Life!RelaysDeliver,
         Life!Live
  <2> QED
    BY <1>4, <1>5, <1>6, <1>10, <2>1, <2>2 DEF Life!WaitsForScheduler, Life!Ending
<1>11. ASSUME NEW c \in Caller, Life!WaitsForRelay(c, g)
       PROVE  Life!WaitsForRelay(c, g)'
  <2>1. task'[Life!LoopOf(g)] = "done" /\ \A r \in Life!RelaysOf(g) : Life!Ending(r)'
    BY <1>5, <1>7, <1>8, <1>11 DEF Life!WaitsForRelay, Life!Ending
  <2>2. task[Life!RelayOf("market", g)] = "done"
        => task'[Life!RelayOf("market", g)] = "done"
    BY <1>5, <1>7 DEF Life!RelaysOf
  <2>3. relays' = relays
    BY <1>4 DEF Life!wiring
  <2> QED
    BY <1>4, <1>6, <1>11, <2>1, <2>2, <2>3 DEF Life!WaitsForRelay
<1> QED
  BY <1>4, <1>9, <1>10, <1>11 DEF Life!Phases

(* What the variables hold.                                                *)
LEMMA RelayGens == \A r \in Life!Relay : r.gen \in Life!Gen
BY DEF Life!Relay

LEMMA QueueTypes ==
  ASSUME Life!LifecycleConstants, Life!TypeOK
  PROVE  /\ handled \in Seq(Life!Event) /\ published \in Nat /\ starts \in Nat
         /\ \A g \in Life!Gen : inq[g] \in Seq(Life!Event)
         /\ \A r \in Life!Relay : subq[r] \in Seq(Life!Event) /\ r.gen \in Life!Gen
<1>1. /\ handled \in Seq(Life!Event) /\ published \in Nat /\ starts \in Nat
  BY DEF Life!TypeOK, Life!LifecycleConstants
<1>2. \A g \in Life!Gen : inq[g] \in Seq(Life!Event)
  BY DEF Life!TypeOK
<1>3. \A r \in Life!Relay : subq[r] \in Seq(Life!Event)
  BY DEF Life!TypeOK
<1> QED
  BY <1>1, <1>2, <1>3, RelayGens

(* A step that moves no event and lets process_once read no more.          *)
LEMMA QueuesStay ==
  ASSUME Life!TypeOK, Life!InOrder, UNCHANGED <<handled, inq, subq, published>>,
         starts' \in Nat, starts =< starts', consumer' =< starts',
         \A g \in Life!Gen : Life!Reads(g)' => Life!Reads(g)
  PROVE  Life!InOrder'
<1>1. \A r \in Life!Relay : r.gen \in Life!Gen
  BY DEF Life!Relay
<1>2. ASSUME NEW g \in Life!Gen
      PROVE  Life!QueueInOrder(g)'
  <2>1. Life!QueueInOrder(g) /\ (Life!Reads(g)' => Life!Reads(g))
        /\ (g > starts' => g > starts)
    BY DEF Life!InOrder, Life!TypeOK, Life!Gen
  <2> QED
    BY <2>1 DEF Life!QueueInOrder
<1>3. ASSUME NEW r \in Life!Relay
      PROVE  Life!RelayInOrder(r)'
  <2>1. Life!RelayInOrder(r) /\ (Life!Reads(r.gen)' => Life!Reads(r.gen))
        /\ (r.gen > starts' => r.gen > starts)
    BY <1>1 DEF Life!InOrder, Life!TypeOK, Life!Gen
  <2> QED
    BY <2>1 DEF Life!RelayInOrder
<1> QED
  BY <1>2, <1>3 DEF Life!InOrder

(* A relay moves its events to the queue of its own start.                 *)
LEMMA RelayKeepsOrder ==
  ASSUME Life!LifecycleConstants, Life!TypeOK, Life!InOrder, NEW r \in Life!Relay,
         r.gen = starts, Life!MoveAll(r, starts),
         UNCHANGED <<handled, published, consumer, starts, current>>
  PROVE  Life!InOrder'
<1> DEFINE n == starts
           p == inq[n]
           q == subq[r]
<1>1. /\ n \in Life!Gen /\ p \in Seq(Life!Event) /\ q \in Seq(Life!Event)
         /\ handled \in Seq(Life!Event)
      /\ \A g \in Life!Gen : inq[g] \in Seq(Life!Event)
      /\ \A s \in Life!Relay : subq[s] \in Seq(Life!Event) /\ s.gen \in Life!Gen
      /\ published \in Nat
  BY QueueTypes
<1>2. /\ inq'[n] = p \o q /\ \A g \in Life!Gen \ {n} : inq'[g] = inq[g]
      /\ subq'[r] = <<>> /\ \A s \in Life!Relay \ {r} : subq'[s] = subq[s]
      /\ starts' = n
  BY <1>1 DEF Life!MoveAll, Life!TypeOK
<1>3. \A g \in Life!Gen : Life!Reads(g)' <=> Life!Reads(g)
  BY DEF Life!Reads
<1>4. /\ Life!Rising(p) /\ Life!UpTo(p, published) /\ Life!Rising(q)
         /\ Life!UpTo(q, published) /\ Life!Precedes(p, q)
      /\ Life!Reads(n) => Life!Precedes(handled, p) /\ Life!Precedes(handled, q)
  BY <1>1 DEF Life!InOrder, Life!QueueInOrder, Life!RelayInOrder, Life!Gen
<1>5. /\ Life!Rising(p \o q) /\ Life!UpTo(p \o q, published)
      /\ Life!Reads(n) => Life!Precedes(handled, p \o q)
  BY <1>1, <1>4, Concatenation
<1>6. ASSUME NEW g \in Life!Gen, g < n
      PROVE  Life!Precedes(inq[g], p \o q)
  <2>1. Life!Precedes(inq[g], p)
    BY <1>1, <1>6 DEF Life!InOrder, Life!QueueInOrder
  <2>2. Life!Precedes(inq[g], q)
    BY <1>1, <1>6 DEF Life!InOrder, Life!RelayInOrder, Life!Gen
  <2> QED
    BY <1>1, <2>1, <2>2, Concatenation
<1>7. ASSUME NEW s \in Life!Relay, s # r, n =< s.gen
      PROVE  Life!Precedes(p \o q, subq[s])
  <2>1. Life!Precedes(p, subq[s])
    BY <1>1, <1>7 DEF Life!InOrder, Life!RelayInOrder
  <2>2. Life!Precedes(q, subq[s])
    <3>1. CASE s.gen > n
      BY <1>1, <3>1, NoEvents DEF Life!InOrder, Life!RelayInOrder
    <3>2. CASE s.gen = n
      <4>1. s.of # r.of
        BY <1>7, <3>2 DEF Life!Relay
      <4>2. /\ \A i \in 1 .. Len(q) : q[i].of = r.of
            /\ \A i \in 1 .. Len(subq[s]) : subq[s][i].of = s.of
        BY DEF Life!InOrder, Life!RelayInOrder
      <4> HIDE DEF q
      <4> QED
        BY <4>1, <4>2 DEF Life!Precedes
    <3> QED
      BY <1>1, <1>7, <3>1, <3>2 DEF Life!Gen
  <2> QED
    BY <1>1, <2>1, <2>2, Concatenation
<1> HIDE DEF n, p, q
<1>8. ASSUME NEW g \in Life!Gen
      PROVE  Life!QueueInOrder(g)'
  <2>1. Life!QueueInOrder(g) /\ starts = n
    BY DEF Life!InOrder, n
  <2>2. CASE g = n
    <3>1. ASSUME NEW h \in Life!Gen, g < h
          PROVE  Life!Precedes(inq'[g], inq'[h])
      <4>1. inq'[h] = <<>>
        BY <1>1, <1>2, <2>1, <2>2, <3>1 DEF Life!InOrder, Life!QueueInOrder, Life!Gen
      <4>2. p \o q \in Seq(Life!Event)
        BY <1>1
      <4> QED
        BY <1>2, <2>2, <4>1, <4>2, NoEvents
    <3>2. Life!Rising(inq'[g]) /\ Life!UpTo(inq'[g], published')
          /\ (Life!Reads(g)' => Life!Precedes(handled', inq'[g]))
      BY <1>2, <1>3, <1>5, <2>2
    <3>3. ~ (g > starts')
      BY <1>1, <1>2, <2>2 DEF Life!Gen
    <3> QED
      BY <3>1, <3>2, <3>3 DEF Life!QueueInOrder
  <2>3. CASE g # n
    <3>1. inq'[g] = inq[g] /\ (Life!Reads(g)' => Life!Reads(g))
      BY <1>2, <1>3, <2>3
    <3>2. ASSUME NEW h \in Life!Gen, g < h
          PROVE  Life!Precedes(inq'[g], inq'[h])
      <4>1. CASE h = n
        BY <1>2, <1>6, <3>1, <3>2, <4>1
      <4>2. CASE h # n
        BY <1>2, <2>1, <3>1, <3>2, <4>2 DEF Life!QueueInOrder
      <4> QED
        BY <4>1, <4>2
    <3> QED
      BY <1>2, <2>1, <3>1, <3>2 DEF Life!QueueInOrder
  <2> QED
    BY <2>2, <2>3
<1>9. ASSUME NEW s \in Life!Relay
      PROVE  Life!RelayInOrder(s)'
  <2>1. Life!RelayInOrder(s) /\ starts = n /\ s.gen \in Life!Gen
    BY <1>1 DEF Life!InOrder, n
  <2>2. CASE s = r
    <3>1. p \o q \in Seq(Life!Event)
      BY <1>1 DEF p, q
    <3>2. \A g \in Life!Gen : Life!Precedes(inq'[g], <<>>)
      BY <1>1, <1>2, <3>1, NoEvents
    <3>3. subq'[s] = <<>> /\ handled' = handled /\ published' = published
      BY <1>2, <2>2
    <3>4. Life!Rising(<<>>) /\ Life!UpTo(<<>>, published) /\ Life!Precedes(handled, <<>>)
          /\ Len(<<>>) = 0
      BY <1>1, NoEvents
    <3> QED
      BY <3>2, <3>3, <3>4 DEF Life!RelayInOrder
  <2>3. CASE s # r
    <3>1. subq'[s] = subq[s] /\ (Life!Reads(s.gen)' => Life!Reads(s.gen))
      BY <1>2, <1>3, <2>1, <2>3
    <3>2. ASSUME NEW g \in Life!Gen, g =< s.gen
          PROVE  Life!Precedes(inq'[g], subq'[s])
      <4>1. CASE g = n
        BY <1>2, <1>7, <2>3, <3>1, <3>2, <4>1
      <4>2. CASE g # n
        BY <1>2, <2>1, <3>1, <3>2, <4>2 DEF Life!RelayInOrder
      <4> QED
        BY <4>1, <4>2
    <3> QED
      BY <1>2, <2>1, <3>1, <3>2 DEF Life!RelayInOrder
  <2> QED
    BY <2>2, <2>3
<1> QED
  BY <1>8, <1>9 DEF Life!InOrder

(* A new event is later than every other.                                  *)
LEMMA PublicationKeepsOrder ==
  ASSUME Life!LifecycleConstants, Life!TypeOK, Life!InOrder, Life!Phases,
         NEW of \in {"market", "scheduler"},
         Life!FanOut(of)
  PROVE  Life!InOrder'
<1> DEFINE n == published + 1
           e == [of |-> of, number |-> n]
<1>1. /\ e \in Life!Event /\ published \in Nat /\ n \in Nat /\ published < n
         /\ published' = n
      /\ handled \in Seq(Life!Event) /\ \A g \in Life!Gen : inq[g] \in Seq(Life!Event)
      /\ \A r \in Life!Relay : subq[r] \in Seq(Life!Event) /\ r.gen \in Life!Gen
  <2>1. n \in 1 .. MaxEvents /\ published < n /\ published' = n
    BY DEF Life!FanOut, Life!TypeOK, Life!LifecycleConstants
  <2>2. e \in Life!Event
    BY <2>1 DEF Life!Event
  <2>3. n \in Nat
    BY QueueTypes
  <2> QED
    BY <2>1, <2>2, <2>3, QueueTypes
<1>2. /\ UNCHANGED <<handled, inq, starts, consumer, current>>
      /\ subq' = [r \in Life!Relay |-> IF r \in subscribed /\ r.of = of
                                  THEN Append(subq[r], e) ELSE subq[r]]
  BY DEF Life!FanOut, Life!wiring
<1>3. \A g \in Life!Gen : Life!Reads(g)' <=> Life!Reads(g)
  BY <1>2 DEF Life!Reads
<1>4. \A r \in subscribed : r.gen = starts
  BY LastStart, TasksOfStart DEF Life!IsStopped, Life!Bound, Life!TypeOK
<1> HIDE DEF n, e
<1>5. e.number = n /\ e.of = of
  BY DEF e
<1>6. ASSUME NEW g \in Life!Gen
      PROVE  Life!QueueInOrder(g)'
  <2>1. Life!QueueInOrder(g) /\ Life!UpTo(inq[g], published)
    BY DEF Life!InOrder, Life!QueueInOrder
  <2>2. Life!UpTo(inq[g], n)
    BY <1>1, <2>1, LaterBound
  <2> QED
    BY <1>1, <1>2, <1>3, <2>1, <2>2 DEF Life!QueueInOrder
<1>7. ASSUME NEW r \in Life!Relay
      PROVE  Life!RelayInOrder(r)'
  <2>1. Life!RelayInOrder(r) /\ Life!UpTo(subq[r], published)
        /\ subq[r] \in Seq(Life!Event) /\ r.gen \in Life!Gen
    BY <1>1 DEF Life!InOrder, Life!RelayInOrder
  <2>2. Life!UpTo(subq[r], n)
    BY <1>1, <2>1, LaterBound
  <2>3. CASE r \in subscribed /\ r.of = of
    <3>1. subq'[r] = subq[r] \o <<e>>
      BY <1>1, <1>2, <2>1, <2>3
    <3>2. \A x \in Seq(Life!Event) : Life!UpTo(x, published) => Life!Precedes(x, <<e>>)
      BY <1>1, <1>5, OneEvent
    <3>3. <<e>> \in Seq(Life!Event) /\ Life!Rising(<<e>>) /\ Life!UpTo(<<e>>, n)
      BY <1>1, <1>5, OneEvent
    <3>4. Life!Rising(subq'[r]) /\ Life!UpTo(subq'[r], n)
      BY <1>1, <2>1, <2>2, <3>1, <3>2, <3>3, Concatenation DEF Life!RelayInOrder
    <3>5. \A i \in 1 .. Len(subq'[r]) : subq'[r][i].of = r.of
      <4>1. /\ Len(subq'[r]) = Len(subq[r]) + 1 /\ subq'[r][Len(subq[r]) + 1] = e
            /\ Len(subq[r]) \in Nat
            /\ \A i \in 1 .. Len(subq[r]) : subq'[r][i] = subq[r][i]
        BY <1>1, <2>1, <3>1
      <4> QED
        BY <1>5, <2>1, <2>3, <4>1 DEF Life!RelayInOrder
    <3>6. Life!UpTo(handled, published) /\ \A g \in Life!Gen : Life!UpTo(inq[g], published)
      BY DEF Life!InOrder, Life!QueueInOrder
    <3>7. \A x \in Seq(Life!Event) :
             Life!UpTo(x, published)
             /\ Life!Precedes(x, subq[r]) => Life!Precedes(x, subq'[r])
      BY <2>1, <3>1, <3>2, <3>3, Concatenation
    <3>8. Life!Reads(r.gen)' => Life!Precedes(handled', subq'[r])
      BY <1>1, <1>2, <1>3, <2>1, <3>6, <3>7 DEF Life!RelayInOrder
    <3>9. \A g \in Life!Gen : g =< r.gen => Life!Precedes(inq'[g], subq'[r])
      BY <1>1, <1>2, <2>1, <3>6, <3>7 DEF Life!RelayInOrder
    <3>10. ~ (r.gen > starts')
      BY <1>2, <1>4, <2>1, <2>3 DEF Life!Gen
    <3> QED
      BY <1>1, <3>4, <3>5, <3>8, <3>9, <3>10 DEF Life!RelayInOrder
  <2>4. CASE ~ (r \in subscribed /\ r.of = of)
    <3>1. subq'[r] = subq[r]
      BY <1>2, <2>4
    <3> QED
      BY <1>1, <1>2, <1>3, <2>1, <2>2, <3>1 DEF Life!RelayInOrder
  <2> QED
    BY <2>3, <2>4
<1>8. Life!UpTo(handled, n)
  BY <1>1, LaterBound DEF Life!InOrder
<1> QED
  BY <1>1, <1>2, <1>6, <1>7, <1>8 DEF Life!InOrder

(* process_once takes the oldest event of the queue it reads, and reads no *)
(* older queue afterwards.                                                 *)
LEMMA TakingKeepsOrder ==
  ASSUME Life!LifecycleConstants, Life!TypeOK, Life!InOrder, NEW n \in Life!Gen,
         inq[n] # <<>>, Life!Take(n), Life!Reads(n),
         UNCHANGED <<starts, current, subq, published>>,
         \A g \in Life!Gen : Life!Reads(g)' => n =< g /\ Life!Reads(g)
  PROVE  Life!InOrder'
<1> DEFINE p == inq[n]
           e == Head(p)
           t == Tail(p)
<1>1. /\ p \in Seq(Life!Event) /\ p # <<>> /\ handled \in Seq(Life!Event)
         /\ published \in Nat /\ starts \in Nat
      /\ \A g \in Life!Gen : inq[g] \in Seq(Life!Event)
      /\ \A r \in Life!Relay : subq[r] \in Seq(Life!Event) /\ r.gen \in Life!Gen
  BY QueueTypes
<1>2. /\ e \in Life!Event /\ t \in Seq(Life!Event) /\ <<e>> \in Seq(Life!Event)
      /\ handled' = handled \o <<e>> /\ handled' \in Seq(Life!Event)
      /\ inq'[n] = t /\ \A g \in Life!Gen \ {n} : inq'[g] = inq[g]
      /\ consumer' = 0
  <2>1. e \in Life!Event /\ t \in Seq(Life!Event)
    BY <1>1, HeadAndTail
  <2>2. <<e>> \in Seq(Life!Event) /\ handled' = handled \o <<e>>
        /\ handled' \in Seq(Life!Event)
    BY <1>1, <2>1 DEF Life!Take
  <2> QED
    BY <2>1, <2>2 DEF Life!Take, Life!TypeOK
<1> HIDE DEF e, t
<1>3. /\ Life!Rising(p) /\ Life!UpTo(p, published) /\ Life!Precedes(handled, p)
      /\ Life!Rising(handled) /\ Life!UpTo(handled, published)
  BY DEF Life!InOrder, Life!QueueInOrder
<1>4. /\ Life!Rising(t) /\ Life!UpTo(t, published) /\ e.number =< published
      /\ Life!Precedes(<<e>>, t) /\ Life!Precedes(handled, t)
         /\ Life!Precedes(handled, <<e>>)
  BY <1>1, <1>3, HeadAndTail DEF e, t
<1>5. Life!Rising(<<e>>) /\ Life!UpTo(<<e>>, published)
  BY <1>1, <1>2, <1>4, OneEvent
<1>6. Life!Rising(handled') /\ Life!UpTo(handled', published')
  BY <1>1, <1>2, <1>3, <1>4, <1>5, Concatenation
<1>7. \A x \in Seq(Life!Event) :
        Life!Precedes(p, x) => Life!Precedes(t, x) /\ Life!Precedes(<<e>>, x)
  BY <1>1, HeadAndTail DEF e, t
<1>8. \A x \in Seq(Life!Event) : Life!Precedes(x, p) => Life!Precedes(x, t)
  BY <1>1, HeadAndTail DEF e, t
<1>9. \A x \in Seq(Life!Event) :
        Life!Precedes(handled, x) /\ Life!Precedes(<<e>>, x) => Life!Precedes(handled', x)
  BY <1>1, <1>2, Concatenation
<1>10. \A g \in Life!Gen : n < g => Life!Precedes(p, inq[g])
  BY DEF Life!InOrder, Life!QueueInOrder
<1>11. \A r \in Life!Relay : n =< r.gen => Life!Precedes(p, subq[r])
  BY DEF Life!InOrder, Life!RelayInOrder
<1> HIDE DEF p
<1>12. ASSUME NEW g \in Life!Gen
       PROVE  Life!QueueInOrder(g)'
  <2>1. Life!QueueInOrder(g)
    BY DEF Life!InOrder
  <2>2. CASE g = n
    <3>1. Life!Reads(g)' => Life!Precedes(handled', inq'[g])
      BY <1>2, <1>4, <1>9, <2>2
    <3>2. ASSUME NEW h \in Life!Gen, g < h
          PROVE  Life!Precedes(inq'[g], inq'[h])
      <4>1. h # n /\ Life!Precedes(p, inq[h]) /\ inq[h] \in Seq(Life!Event)
        BY <1>1, <1>10, <2>2, <3>2 DEF Life!Gen
      <4> QED
        BY <1>2, <1>7, <2>2, <4>1
    <3>3. ~ (g > starts')
      BY <2>1, <2>2 DEF Life!QueueInOrder
    <3> QED
      BY <1>2, <1>4, <2>2, <3>1, <3>2, <3>3 DEF Life!QueueInOrder
  <2>3. CASE g # n
    <3>1. inq'[g] = inq[g] /\ inq[g] \in Seq(Life!Event)
      BY <1>1, <1>2, <2>3
    <3>2. ASSUME Life!Reads(g)'
          PROVE  Life!Precedes(handled', inq'[g])
      <4>1. n < g /\ Life!Reads(g)
        BY <2>3, <3>2 DEF Life!Gen
      <4> QED
        BY <1>7, <1>9, <1>10, <2>1, <3>1, <4>1 DEF Life!QueueInOrder
    <3>3. ASSUME NEW h \in Life!Gen, g < h
          PROVE  Life!Precedes(inq'[g], inq'[h])
      <4>1. Life!Precedes(inq[g], inq[h])
        BY <2>1, <3>3 DEF Life!QueueInOrder
      <4>2. CASE h = n
        BY <1>2, <1>8, <3>1, <4>1, <4>2 DEF p
      <4>3. CASE h # n
        BY <1>2, <3>1, <4>1, <4>3
      <4> QED
        BY <4>2, <4>3
    <3> QED
      BY <2>1, <3>1, <3>2, <3>3 DEF Life!QueueInOrder
  <2> QED
    BY <2>2, <2>3
<1>13. ASSUME NEW r \in Life!Relay
       PROVE  Life!RelayInOrder(r)'
  <2>1. Life!RelayInOrder(r) /\ r.gen \in Life!Gen /\ subq[r] \in Seq(Life!Event)
    BY <1>1 DEF Life!InOrder
  <2>2. ASSUME Life!Reads(r.gen)'
        PROVE  Life!Precedes(handled', subq'[r])
    <3>1. n =< r.gen /\ Life!Reads(r.gen)
      BY <2>1, <2>2
    <3> QED
      BY <1>7, <1>9, <1>11, <2>1, <3>1 DEF Life!RelayInOrder
  <2>3. ASSUME NEW g \in Life!Gen, g =< r.gen
        PROVE  Life!Precedes(inq'[g], subq'[r])
    <3>1. Life!Precedes(inq[g], subq[r])
      BY <2>1, <2>3 DEF Life!RelayInOrder
    <3>2. CASE g = n
      BY <1>2, <1>7, <2>1, <3>1, <3>2 DEF p
    <3>3. CASE g # n
      BY <1>2, <3>1, <3>3
    <3> QED
      BY <3>2, <3>3
  <2> QED
    BY <2>1, <2>2, <2>3 DEF Life!RelayInOrder
<1> QED
  BY <1>1, <1>2, <1>6, <1>12, <1>13 DEF Life!InOrder

LEMMA IdleInit ==
  ASSUME Life!LifecycleConstants, Life!Init
  PROVE  Life!IInv
<1>1. Life!TypeOK
  <2>1. MaxStarts \in Nat /\ MaxEvents \in Nat /\ 0 \in 0 .. MaxStarts
        /\ 0 \in 0 .. MaxEvents
    BY DEF Life!LifecycleConstants
  <2>2. <<>> \in Seq(Life!Event) /\ <<>> \in Seq(Life!Relay)
    OBVIOUS
  <2>3. task \in [Life!Task -> Life!TaskState] /\ target \in [Life!Relay -> 0 .. MaxStarts]
    BY <2>1 DEF Life!Init, Life!TaskState
  <2>4. subq \in [Life!Relay -> Seq(Life!Event)] /\ inq \in [Life!Gen -> Seq(Life!Event)]
    BY <2>2 DEF Life!Init
  <2>5. caller \in [Caller -> Life!CallerState]
    BY DEF Life!Init, Life!CallerState
  <2> QED
    BY <2>1, <2>2, <2>3, <2>4, <2>5 DEF Life!Init, Life!TypeOK
<1>2. Life!Phases
  BY DEF Life!Init, Life!Phases, Life!IsStopped, Life!Stopping, Life!Ended
<1>3. ASSUME NEW g \in Life!Gen
      PROVE  Life!QueueInOrder(g)
  <2>1. handled = <<>> /\ \A h \in Life!Gen : inq[h] = <<>>
    BY DEF Life!Init
  <2>2. published = 0 /\ <<>> \in Seq(Life!Event)
    BY DEF Life!Init
  <2> QED
    BY <2>1, <2>2, NoEvents DEF Life!QueueInOrder
<1>4. ASSUME NEW r \in Life!Relay
      PROVE  Life!RelayInOrder(r)
  <2>1. handled = <<>> /\ published = 0 /\ \A g \in Life!Gen : inq[g] = <<>>
    BY DEF Life!Init
  <2>2. subq[r] = <<>>
    BY DEF Life!Init
  <2>3. <<>> \in Seq(Life!Event) /\ \A i \in 1 .. Len(<<>>) : FALSE
    OBVIOUS
  <2>4. \A i \in 1 .. Len(subq[r]) : subq[r][i].of = r.of
    BY <2>2, <2>3
  <2>5. \A g \in Life!Gen : Life!Precedes(inq[g], subq[r])
    BY <2>1, <2>2, <2>3, NoEvents
  <2>6. Life!Rising(subq[r]) /\ Life!UpTo(subq[r], published)
        /\ Life!Precedes(handled, subq[r])
    BY <2>1, <2>2, <2>3, NoEvents
  <2> QED
    BY <2>2, <2>4, <2>5, <2>6 DEF Life!RelayInOrder
<1>5. Life!InOrder
  BY <1>3, <1>4, NoEvents DEF Life!InOrder, Life!Init
<1> QED
  BY <1>1, <1>2, <1>5 DEF Life!IInv

LEMMA QueueTypesStep ==
  ASSUME Life!TypeOK, Life!LifecycleConstants, NEW r \in Life!Relay, NEW g \in Life!Gen,
         Life!MoveAll(r, g)
  PROVE  subq' \in [Life!Relay -> Seq(Life!Event)] /\ inq' \in [Life!Gen -> Seq(Life!Event)]
<1>1. inq[g] \o subq[r] \in Seq(Life!Event) /\ <<>> \in Seq(Life!Event)
  BY DEF Life!TypeOK
<1> QED
  BY <1>1 DEF Life!MoveAll, Life!TypeOK

LEMMA TakeTypesStep ==
  ASSUME Life!TypeOK, NEW g \in Life!Gen, inq[g] # <<>>, Life!Take(g)
  PROVE  handled' \in Seq(Life!Event) /\ inq' \in [Life!Gen -> Seq(Life!Event)]
         /\ consumer' = 0
<1>1. Head(inq[g]) \in Life!Event /\ Tail(inq[g]) \in Seq(Life!Event)
  BY HeadAndTail DEF Life!TypeOK
<1> QED
  BY <1>1 DEF Life!Take, Life!TypeOK

LEMMA RelayMovesHere ==
  ASSUME Life!TypeOK, Life!Phases, NEW r \in Life!Relay, Life!RelayMoves(r)
  PROVE  starts \in Life!Gen /\ r.gen = starts /\ Life!MoveAll(r, starts)
<1>1. Life!Live(r)
  BY DEF Life!RelayMoves, Life!Live
<1>2. Life!RelaysDeliver(starts) /\ r \in Life!RelaysOf(starts) /\ r.gen = starts
      /\ starts \in Life!Gen
  BY <1>1, RelayRuns
<1>3. target[r] = starts
  BY <1>2 DEF Life!RelaysDeliver, Life!RelayMoves
<1> QED
  BY <1>2, <1>3 DEF Life!RelayMoves

(* The calls of start and stop.                                            *)
LEMMA CallStep ==
  ASSUME Life!LifecycleConstants, Life!OneCaller, Life!IInv, NEW c \in Caller,
         Life!Start(c) \/ Life!Stop(c) \/ Life!SchedulerStopped(c) \/ Life!RelayStopped(c)
  PROVE  Life!IInv'
<1> USE DEF Life!IInv
<1>1. /\ UNCHANGED <<target, Life!queues, Life!data>>
      /\ consumer' = consumer /\ handled' = handled /\ published' = published
      /\ inq' = inq /\ subq' = subq
  BY DEF Life!Start, Life!Stop, Life!SchedulerStopped, Life!RelayStopped, Life!queues,
       Life!data, Life!tasks
<1>2. task' \in [Life!Task -> Life!TaskState]
  <2>1. CASE Life!Start(c)
    BY <2>1 DEF Life!Start, Life!TypeOK, Life!TaskState
  <2>2. ASSUME NEW S, task' = Life!Cancel(task, S)
        PROVE  task' \in [Life!Task -> Life!TaskState]
    BY <2>2 DEF Life!Cancel, Life!TypeOK, Life!TaskState
  <2> QED
    BY <2>1, <2>2 DEF Life!Stop, Life!SchedulerStopped, Life!RelayStopped,
         Life!StopRelays, Life!tasks, Life!TypeOK
<1>3. caller' \in [Caller -> Life!CallerState]
  <2>1. caller \in [Caller -> Life!CallerState]
    BY DEF Life!TypeOK
  <2>2. ASSUME NEW x \in Life!CallerState, caller' = [caller EXCEPT ![c] = x]
        PROVE  caller' \in [Caller -> Life!CallerState]
    BY <2>1, <2>2
  <2>3. Life!Idle \in Life!CallerState
    BY DEF Life!CallerState
  <2>4. CASE Life!Start(c)
    BY <2>1, <2>4 DEF Life!Start
  <2>5. CASE Life!Stop(c)
    <3>1. Life!WaitsForScheduler(c, starts)' /\ starts' = starts /\ starts \in Life!Gen
      BY <2>5, StopPhase DEF Life!WaitsForScheduler, Life!Bound
    <3>2. [at |-> "scheduler", on |-> Life!LoopOf(starts)] \in Life!CallerState
      BY <3>1, TasksOfStart DEF Life!CallerState
    <3>3. \E x : caller' = [caller EXCEPT ![c] = x]
      BY <2>5 DEF Life!Stop, Life!StopRelays, Life!AwaitRelays
    <3>4. caller'[c] = [at |-> "scheduler", on |-> Life!LoopOf(starts)]
      BY <3>1 DEF Life!WaitsForScheduler
    <3> QED
      BY <2>1, <3>2, <3>3, <3>4
  <2>6. ASSUME Life!SchedulerStopped(c) \/ Life!RelayStopped(c)
        PROVE  caller' \in [Caller -> Life!CallerState]
    <3>1. Life!WaitsForRelay(c, starts)' \/ Life!IsStopped'
      BY <2>6, SchedulerStoppedPhase, RelayStoppedPhase
    <3>2. \E x : caller' = [caller EXCEPT ![c] = x]
      BY <2>6 DEF Life!SchedulerStopped, Life!RelayStopped, Life!StopRelays,
           Life!AwaitRelays
    <3>3. CASE Life!IsStopped'
      <4>1. caller'[c] = Life!Idle
        BY <3>3 DEF Life!IsStopped, Life!Stopping
      <4> QED
        BY <2>1, <2>3, <3>2, <4>1
    <3>4. CASE Life!WaitsForRelay(c, starts)'
      <4>1. starts' \in Life!Gen
            /\ relays' = <<Life!RelayOf("market", starts'), Life!RelayOf("scheduler",
               starts')>>
        BY <3>4 DEF Life!WaitsForRelay, Life!Bound
      <4>2. PICK i \in {1, 2} : caller'[c] = [at |-> "relay", on |-> relays'[i],
            index |-> i]
        BY <3>4 DEF Life!WaitsForRelay
      <4>3. relays'[i] \in Life!Relay
        BY <4>1, <4>2, TasksOfStart
      <4>4. i \in 1 .. 2 * MaxStarts
        BY <4>2 DEF Life!LifecycleConstants
      <4>5. caller'[c] \in Life!CallerState
        BY <4>2, <4>3, <4>4 DEF Life!CallerState
      <4> QED
        BY <2>1, <3>2, <4>5
    <3> QED
      BY <3>1, <3>3, <3>4
  <2> QED
    BY <2>4, <2>5, <2>6
<1>4. /\ Life!Phases' /\ starts' \in Nat /\ starts =< starts' /\ starts' \in 0 .. MaxStarts
      /\ running' \in BOOLEAN /\ handle' \in 0 .. MaxStarts
      /\ \A g \in Life!Gen : Life!Reads(g)' => Life!Reads(g)
      /\ current' \in 0 .. MaxStarts /\ relays' \in Seq(Life!Relay)
         /\ subscribed' \subseteq Life!Relay
  <2>1. ASSUME NEW g \in Life!Gen
        PROVE  relays = <<Life!RelayOf("market", g), Life!RelayOf("scheduler", g)>>
               => relays \in Seq(Life!Relay)
    BY TasksOfStart
  <2>2. starts \in 0 .. MaxStarts /\ MaxStarts \in Nat
    BY DEF Life!TypeOK, Life!LifecycleConstants
  <2>3. CASE Life!Start(c)
    <3>1. PICK g \in Life!Gen : g = starts + 1
      BY <2>2, <2>3 DEF Life!Start, Life!Gen
    <3>2. Life!IsRunning(g)' /\ starts' = g
      BY <2>3, <3>1, StartPhase
    <3>3. Life!IsStopped
      BY <2>3, WhereStopIs DEF Life!Start
    <3>4. /\ current' = g /\ handle' = g /\ running' = TRUE
             /\ subscribed' = Life!RelaysOf(g)
          /\ relays' = <<Life!RelayOf("market", g), Life!RelayOf("scheduler", g)>>
      BY <3>2 DEF Life!IsRunning, Life!Bound
    <3>5. current = 0 /\ g # 0 /\ g \in 0 .. MaxStarts
      BY <3>3 DEF Life!IsStopped, Life!Gen
    <3>6. \A h \in Life!Gen : Life!Reads(h)' => Life!Reads(h)
      BY <1>1, <2>2, <3>1, <3>4, <3>5 DEF Life!Reads, Life!Gen
    <3>7. relays' \in Seq(Life!Relay) /\ Life!RelaysOf(g) \subseteq Life!Relay
      BY <3>4, TasksOfStart
    <3>8. Life!Phases'
      BY <3>2 DEF Life!Phases
    <3> QED
      BY <2>2, <3>1, <3>2, <3>4, <3>5, <3>6, <3>7, <3>8
  <2>4. CASE Life!Stop(c)
    <3>1. Life!WaitsForScheduler(c, starts)' /\ UNCHANGED <<Life!wiring, starts>>
      BY <2>4, StopPhase
    <3>2. Life!Phases' /\ running' = FALSE /\ handle' = starts
      BY <3>1 DEF Life!Phases, Life!WaitsForScheduler
    <3>3. current' = current /\ relays' = relays /\ subscribed' = subscribed
          /\ starts' = starts
      BY <3>1 DEF Life!wiring
    <3>4. \A h \in Life!Gen : Life!Reads(h)' => Life!Reads(h)
      BY <1>1, <3>3 DEF Life!Reads
    <3>5. /\ running' \in BOOLEAN /\ handle' \in 0 .. MaxStarts
          /\ current' \in 0 .. MaxStarts /\ relays' \in Seq(Life!Relay)
             /\ subscribed' \subseteq Life!Relay
      <4>1. handle' \in 0 .. MaxStarts
        BY <2>2, <3>2
      <4> QED
        BY <3>2, <3>3, <4>1 DEF Life!TypeOK
    <3> QED
      BY <2>2, <3>2, <3>3, <3>4, <3>5
  <2>5. CASE Life!SchedulerStopped(c)
    <3>1. Life!WaitsForRelay(c, starts)' /\ UNCHANGED <<Life!wiring, starts>>
      BY <2>5, SchedulerStoppedPhase
    <3>2. Life!Phases' /\ running' = FALSE /\ handle' = 0
      BY <3>1 DEF Life!Phases, Life!WaitsForRelay
    <3>3. current' = current /\ relays' = relays /\ subscribed' = subscribed
          /\ starts' = starts
      BY <3>1 DEF Life!wiring
    <3>4. \A h \in Life!Gen : Life!Reads(h)' => Life!Reads(h)
      BY <1>1, <3>3 DEF Life!Reads
    <3>5. /\ running' \in BOOLEAN /\ handle' \in 0 .. MaxStarts
          /\ current' \in 0 .. MaxStarts /\ relays' \in Seq(Life!Relay)
             /\ subscribed' \subseteq Life!Relay
      <4>1. handle' \in 0 .. MaxStarts
        BY <2>2, <3>2
      <4> QED
        BY <3>2, <3>3, <4>1 DEF Life!TypeOK
    <3> QED
      BY <2>2, <3>2, <3>3, <3>4, <3>5
  <2>6. CASE Life!RelayStopped(c)
    <3>1. /\ UNCHANGED <<starts, handle, running>>
          /\ \/ Life!WaitsForRelay(c, starts)' /\ UNCHANGED Life!wiring
             \/ Life!IsStopped'
      BY <2>6, RelayStoppedPhase
    <3>2. Life!Phases'
      BY <3>1 DEF Life!Phases
    <3>3. CASE UNCHANGED Life!wiring
      <4>1. current' = current /\ relays' = relays /\ subscribed' = subscribed
        BY <3>3 DEF Life!wiring
      <4> QED
        BY <1>1, <2>2, <3>1, <3>2, <4>1 DEF Life!TypeOK, Life!Reads
    <3>4. CASE Life!IsStopped'
      <4>1. current' = 0 /\ relays' = <<>> /\ subscribed' = {}
        BY <3>4 DEF Life!IsStopped
      <4>2. current = starts
        BY <2>6, WhereStopIs DEF Life!RelayStopped, Life!WaitsForRelay, Life!Bound
      <4>3. \A h \in Life!Gen : Life!Reads(h)' => Life!Reads(h)
        BY <1>1, <2>2, <3>1, <4>1, <4>2 DEF Life!Reads, Life!Gen
      <4>4. running' \in BOOLEAN /\ handle' \in 0 .. MaxStarts
        BY <3>1 DEF Life!TypeOK
      <4> QED
        BY <2>2, <3>1, <3>2, <4>1, <4>3, <4>4
    <3> QED
      BY <3>1, <3>3, <3>4
  <2> QED
    BY <2>3, <2>4, <2>5, <2>6
<1>5. Life!TypeOK'
  BY <1>1, <1>2, <1>3, <1>4 DEF Life!TypeOK
<1>6. consumer' =< starts'
  BY <1>1, <1>4 DEF Life!InOrder, Life!TypeOK, Life!LifecycleConstants
<1>7. Life!InOrder'
  BY <1>1, <1>4, <1>6, QueuesStay
<1> QED
  BY <1>4, <1>5, <1>7

(* The tasks.                                                              *)
LEMMA TaskStep ==
  ASSUME Life!LifecycleConstants, Life!IInv, NEW t \in Life!Task, Life!RunTask(t)
  PROVE  Life!IInv'
<1> USE DEF Life!IInv
<1>1. ASSUME NEW u \in Life!Task, NEW x \in Life!TaskState, task' = [task EXCEPT ![u] = x]
      PROVE  task' \in [Life!Task -> Life!TaskState]
  BY <1>1 DEF Life!TypeOK
<1>2. "parked" \in Life!TaskState /\ "done" \in Life!TaskState
  BY DEF Life!TaskState
<1>3. ASSUME t \in Life!Relay, Life!RelayBegins(t)
      PROVE  Life!IInv'
  <2>1. Life!Phases' /\ Life!MoveAll(t, starts)
        /\ UNCHANGED <<running, starts, Life!wiring>>
    BY <1>3, RelayBeginsPhase
  <2>2. starts \in Life!Gen /\ t.gen = starts /\ current = starts
    BY <1>3, RelayRuns DEF Life!RelayBegins, Life!Live
  <2>3. UNCHANGED <<handled, published, consumer, starts, current, running, relays,
                    subscribed, handle, caller>>
    BY <1>3, <2>1 DEF Life!RelayBegins, Life!data, Life!wiring
  <2>4. Life!InOrder'
    BY <1>3, <2>1, <2>2, <2>3, RelayKeepsOrder
  <2>5. task' \in [Life!Task -> Life!TaskState]
    BY <1>1, <1>2, <1>3 DEF Life!RelayBegins
  <2>6. target' \in [Life!Relay -> 0 .. MaxStarts]
    BY <1>3 DEF Life!RelayBegins, Life!TypeOK
  <2>7. subq' \in [Life!Relay -> Seq(Life!Event)] /\ inq' \in [Life!Gen -> Seq(Life!Event)]
    BY <1>3, <2>1, <2>2, QueueTypesStep
  <2> QED
    BY <2>1, <2>3, <2>4, <2>5, <2>6, <2>7 DEF Life!TypeOK
<1>4. ASSUME t \in Life!Relay, Life!RelayMoves(t)
      PROVE  Life!IInv'
  <2>1. starts \in Life!Gen /\ t.gen = starts /\ Life!MoveAll(t, starts)
    BY <1>4, RelayMovesHere
  <2>2. UNCHANGED <<handled, published, consumer, starts, current, running, relays,
                    subscribed, handle, caller,
                    task, target>> /\ UNCHANGED Life!wiring
    BY <1>4 DEF Life!RelayMoves, Life!data, Life!wiring, Life!tasks
  <2>3. Life!InOrder'
    BY <1>4, <2>1, <2>2, RelayKeepsOrder
  <2>4. Life!Phases'
    BY <2>2, PhaseFrame
  <2>5. subq' \in [Life!Relay -> Seq(Life!Event)] /\ inq' \in [Life!Gen -> Seq(Life!Event)]
    BY <1>4, <2>1, QueueTypesStep
  <2> QED
    BY <2>2, <2>3, <2>4, <2>5 DEF Life!TypeOK
<1>5. ASSUME (t \in Life!Loop /\ Life!LoopBegins(t)) \/ Life!TaskEnds(t)
      PROVE  Life!IInv'
  <2>1. Life!Phases'
    BY <1>5, LoopBeginsPhase, TaskEndsPhase
  <2>2. /\ UNCHANGED <<running, starts, handle, target, caller, current, relays,
                       subscribed>>
        /\ UNCHANGED <<inq, subq, consumer, published, handled>>
    BY <1>5 DEF Life!LoopBegins, Life!TaskEnds, Life!wiring, Life!queues, Life!data
  <2>3. task' \in [Life!Task -> Life!TaskState]
    BY <1>1, <1>2, <1>5 DEF Life!LoopBegins, Life!TaskEnds
  <2>4. \A g \in Life!Gen : Life!Reads(g)' => Life!Reads(g)
    BY <2>2 DEF Life!Reads
  <2>5. starts' \in Nat /\ starts =< starts' /\ consumer' =< starts'
    BY <2>2, QueueTypes DEF Life!InOrder
  <2>6. Life!InOrder'
    BY <2>2, <2>4, <2>5, QueuesStay
  <2> QED
    BY <2>1, <2>2, <2>3, <2>6 DEF Life!TypeOK
<1> QED
  BY <1>3, <1>4, <1>5 DEF Life!RunTask

LEMMA EventStep ==
  ASSUME Life!LifecycleConstants, Life!IInv, NEW of \in {"market", "scheduler"},
         Life!FanOut(of)
  PROVE  Life!IInv'
<1> USE DEF Life!IInv
<1>1. /\ UNCHANGED <<running, starts, handle, task, target, inq, caller, consumer,
                     handled, Life!wiring>>
      /\ UNCHANGED <<current, relays, subscribed>>
  BY DEF Life!FanOut, Life!tasks, Life!wiring
<1>2. Life!Phases'
  BY <1>1, PhaseFrame
<1>3. Life!InOrder'
  BY PublicationKeepsOrder
<1>4. published' \in 0 .. MaxEvents /\ [of |-> of, number |-> published + 1] \in Life!Event
  BY DEF Life!FanOut, Life!TypeOK, Life!LifecycleConstants, Life!Event
<1>5. subq' \in [Life!Relay -> Seq(Life!Event)]
  BY <1>4 DEF Life!FanOut, Life!TypeOK
<1> QED
  BY <1>1, <1>2, <1>3, <1>4, <1>5 DEF Life!TypeOK

LEMMA ConsumeStep ==
  ASSUME Life!LifecycleConstants, Life!IInv, Life!Consume
  PROVE  Life!IInv'
<1> USE DEF Life!IInv
<1>1. /\ UNCHANGED <<running, starts, handle, task, target, caller, subq, published,
                     Life!wiring>>
      /\ UNCHANGED <<current, relays, subscribed>>
  BY DEF Life!Consume, Life!ProcessOnce, Life!ProcessResumes, Life!ProcessTimesOut,
       Life!engine, Life!tasks, Life!wiring, Life!queues
<1>2. Life!Phases'
  BY <1>1, PhaseFrame
<1>3. /\ starts \in 0 .. MaxStarts /\ consumer \in 0 .. MaxStarts /\ MaxStarts \in Nat
      /\ consumer =< starts /\ current \in 0 .. MaxStarts
  BY DEF Life!TypeOK, Life!InOrder, Life!LifecycleConstants
<1>4. current # 0 => current = starts
  BY LastStart DEF Life!Bound
<1>5. ASSUME NEW g \in Life!Gen, inq[g] # <<>>, Life!Take(g), Life!Reads(g),
             \A h \in Life!Gen : Life!Reads(h)' => g =< h /\ Life!Reads(h)
      PROVE  Life!IInv'
  <2>1. Life!InOrder'
    BY <1>1, <1>5, TakingKeepsOrder
  <2>2. handled' \in Seq(Life!Event) /\ inq' \in [Life!Gen -> Seq(Life!Event)]
        /\ consumer' \in 0 .. MaxStarts
    BY <1>3, <1>5, TakeTypesStep
  <2> QED
    BY <1>1, <1>2, <2>1, <2>2 DEF Life!TypeOK
<1>6. ASSUME UNCHANGED <<handled, inq>>, consumer' \in 0 .. MaxStarts, consumer' =< starts,
             \A h \in Life!Gen : Life!Reads(h)' => Life!Reads(h)
      PROVE  Life!IInv'
  <2>1. Life!InOrder'
    BY <1>1, <1>3, <1>6, QueuesStay
  <2> QED
    BY <1>1, <1>2, <1>6, <2>1 DEF Life!TypeOK
<1>7. CASE Life!ProcessOnce /\ inq[current] # <<>> /\ Life!Take(current)
  <2>1. current \in Life!Gen /\ consumer = 0 /\ consumer' = 0
    BY <1>3, <1>7 DEF Life!ProcessOnce, Life!Gen, Life!Take
  <2>2. Life!Reads(current) /\ \A h \in Life!Gen : Life!Reads(h)' => current =< h
        /\ Life!Reads(h)
    BY <1>1, <1>3, <2>1 DEF Life!Reads, Life!Gen
  <2> QED
    BY <1>5, <1>7, <2>1, <2>2
<1>8. CASE Life!ProcessOnce /\ consumer' = current /\ UNCHANGED <<handled, inq>>
  <2>1. current # 0 /\ consumer = 0
    BY <1>8 DEF Life!ProcessOnce
  <2>2. \A h \in Life!Gen : Life!Reads(h)' => Life!Reads(h)
    BY <1>1, <1>8, <2>1 DEF Life!Reads
  <2> QED
    BY <1>3, <1>4, <1>6, <1>8, <2>1, <2>2
<1>9. CASE Life!ProcessResumes
  <2>1. consumer \in Life!Gen /\ inq[consumer] # <<>> /\ Life!Take(consumer)
        /\ consumer' = 0
    BY <1>3, <1>9 DEF Life!ProcessResumes, Life!Gen, Life!Take
  <2>2. Life!Reads(consumer) /\ \A h \in Life!Gen : Life!Reads(h)' => consumer =< h
        /\ Life!Reads(h)
    BY <1>1, <1>3, <1>4, <2>1 DEF Life!Reads, Life!Gen
  <2> QED
    BY <1>5, <2>1, <2>2
<1>10. CASE Life!ProcessTimesOut
  <2>1. consumer # 0 /\ consumer' = 0 /\ UNCHANGED <<handled, inq>>
    BY <1>10 DEF Life!ProcessTimesOut, Life!queues
  <2>2. \A h \in Life!Gen : Life!Reads(h)' => Life!Reads(h)
    BY <1>1, <1>3, <1>4, <2>1 DEF Life!Reads, Life!Gen
  <2> QED
    BY <1>3, <1>6, <2>1, <2>2
<1> QED
  BY <1>7, <1>8, <1>9, <1>10 DEF Life!Consume, Life!ProcessOnce

LEMMA LifecycleStep ==
  ASSUME Life!LifecycleConstants, Life!OneCaller, Life!IInv, [Life!Next]_Life!vars
  PROVE  Life!IInv'
<1>1. CASE Life!Calls
  BY <1>1, CallStep DEF Life!Calls
<1>2. ASSUME NEW c \in Caller, Life!Resume(c)
      PROVE  Life!IInv'
  BY <1>2, CallStep DEF Life!Resume
<1>3. ASSUME NEW t \in Life!Task, Life!RunTask(t)
      PROVE  Life!IInv'
  BY <1>3, TaskStep
<1>4. CASE Life!Events
  BY <1>4, EventStep DEF Life!Events, Life!PublishMarketDataUpdate, Life!LoopTicks
<1>5. CASE Life!Consume
  BY <1>5, ConsumeStep
<1>6. CASE UNCHANGED Life!vars
  <2>1. UNCHANGED <<running, starts, handle, task, target, subq, inq, current, relays,
                    subscribed, caller, consumer, published, handled>>
    BY <1>6 DEF Life!vars, Life!tasks, Life!queues, Life!wiring, Life!data
  <2>2. Life!TypeOK'
    BY <2>1 DEF Life!IInv, Life!TypeOK
  <2>3. Life!Phases'
    BY <2>1, PhaseFrame DEF Life!IInv, Life!wiring
  <2>4. Life!InOrder'
    BY <2>1, QueuesStay, QueueTypes DEF Life!IInv, Life!Reads, Life!InOrder
  <2> QED
    BY <2>2, <2>3, <2>4 DEF Life!IInv
<1> QED
  BY <1>1, <1>2, <1>3, <1>4, <1>5, <1>6 DEF Life!Next

LEMMA CleanLifecycle ==
  ASSUME Life!LifecycleConstants, Life!OneCaller, Life!IInv
  PROVE  Life!WiredWhenRunning /\ Life!QuietWhenStopped
<1> USE DEF Life!IInv
<1>1. ASSUME running
      PROVE  Life!WiredWhenRunning
  <2>1. Life!IsRunning(starts)
    BY <1>1 DEF Life!Phases, Life!IsStopped, Life!WaitsForScheduler, Life!WaitsForRelay
  <2>2. /\ starts \in Life!Gen /\ current = starts /\ handle = starts
           /\ subscribed = Life!RelaysOf(starts)
        /\ relays = <<Life!RelayOf("market", starts), Life!RelayOf("scheduler", starts)>>
        /\ Life!RelaysDeliver(starts) /\ Life!Live(Life!LoopOf(starts))
    BY <2>1 DEF Life!IsRunning, Life!Bound
  <2>3. Len(relays) = 2 /\ Life!Member(relays) = Life!RelaysOf(starts)
    BY <2>2, RelayList
  <2>4. \A r \in Life!RelaysOf(starts) : r.gen = starts
    BY <2>2, TasksOfStart
  <2>5. ASSUME NEW t \in Life!Loop, Life!Live(t)
        PROVE  t = Life!LoopOf(starts)
    <3>1. t \in Life!Task /\ t \notin Life!RelaysOf(starts) /\ ~ Life!Ended(t)
      BY <2>2, <2>5, TasksOfStart, RelaysAreNoLoops DEF Life!Live, Life!Ended
    <3> QED
      BY <2>1, <3>1 DEF Life!IsRunning, Life!Bound
  <2>6. {t \in Life!Loop : Life!Live(t)} = {Life!LoopOf(starts)}
    BY <2>2, <2>5, TasksOfStart
  <2>7. starts # 0
    BY <2>2 DEF Life!Gen
  <2> QED
    BY <2>2, <2>3, <2>4, <2>6, <2>7 DEF Life!WiredWhenRunning, Life!RelaysDeliver
<1>2. ASSUME ~ running, ~ Life!Stopping
      PROVE  Life!QuietWhenStopped
  <2>1. Life!IsStopped
    BY <1>2 DEF Life!Phases, Life!IsRunning, Life!WaitsForScheduler, Life!WaitsForRelay,
         Life!Stopping, Life!Idle
  <2> QED
    BY <2>1 DEF Life!IsStopped, Life!QuietWhenStopped, Life!Ended
<1> QED
  BY <1>1, <1>2 DEF Life!WiredWhenRunning, Life!QuietWhenStopped

LEMMA OrderedLifecycle ==
  ASSUME Life!IInv
  PROVE  Life!HandledInOrder
BY DEF Life!IInv, Life!InOrder, Life!Rising, Life!HandledInOrder

-----------------------------------------------------------------------------
(* Of a behaviour of both, the lifecycle takes its steps or stutters.      *)
LEMMA LifecycleOfBoth ==
  ASSUME [PartNext]_all
  PROVE  [Life!Next]_Life!vars
<1>1. ASSUME UNCHANGED lifecycle
      PROVE  UNCHANGED Life!vars
  BY <1>1 DEF lifecycle, Life!vars, Life!tasks, Life!queues, Life!wiring,
              Life!data
<1> QED
  BY <1>1 DEF PartNext, OfMarkDirty, OfLifecycle, all

(* The phases of start and stop, and the order of the events in every      *)
(* queue, hold in every state.                                             *)
THEOREM LifecycleInvariantHolds == PartSpec => []Life!IInv
<1>1. PartInit => Life!IInv
  BY PartsAssumption, IdleInit DEF PartInit
<1>2. Life!IInv /\ [PartNext]_all => Life!IInv'
  BY PartsAssumption, LifecycleOfBoth, LifecycleStep
<1> QED
  BY <1>1, <1>2, PTL DEF PartSpec

(* A started engine is wired to its newest queue by live relays, and to    *)
(* one scheduler loop; a stopped engine leaves no task, no subscription    *)
(* and no queue behind.                                                    *)
THEOREM CleanStartsAndStopsHolds == PartSpec => []CleanStartsAndStops
<1>1. Life!IInv => CleanStartsAndStops
  BY PartsAssumption, CleanLifecycle DEF CleanStartsAndStops, Life!IInv
<1> QED
  BY <1>1, LifecycleInvariantHolds, PTL

(* Across restarts no event is handled twice or before an earlier one of   *)
(* its source, also by a process_once that a restart left waiting on the   *)
(* queue of an earlier start.                                              *)
THEOREM HandledInOrderHolds == PartSpec => []HandledInOrder
<1>1. Life!IInv => HandledInOrder
  BY OrderedLifecycle DEF HandledInOrder
<1> QED
  BY <1>1, LifecycleInvariantHolds, PTL
=============================================================================
