-------------------------- MODULE AgentLoopProofs --------------------------
(***************************************************************************)
(* Proofs about AgentLoop, for any sessions, tasks, queue sizes and number *)
(* of messages.  What an interceptor, the event loop or the operator may   *)
(* not do for a theorem to hold is a hypothesis of that theorem.           *)
(*                                                                         *)
(* In order: what a sequence becomes when it is cut; the lists and the     *)
(* lock of a session; whose queues its follow-ups join; the effect of each *)
(* step on the tasks; and then, on those, that a session has one turn,     *)
(* that what waits is kept, that a message is in one place, that it is     *)
(* answered once, and that the loop keeps its ledger.                      *)
(***************************************************************************)
EXTENDS AgentLoop, SequenceTheorems, FiniteSetTheorems, TLAPS

---------------------------------------------------------------------------
(* Removing an element from a sequence that holds it at most once          *)

LEMMA RemovedAt ==
    ASSUME NEW S, NEW s \in Seq(S), NEW n \in 1..Len(s)
    PROVE  LET r == RemoveAt(s, n) IN
           /\ r \in Seq(S) /\ Len(r) = Len(s) - 1
           /\ \A i \in 1..Len(r) : r[i] = IF i < n THEN s[i] ELSE s[i + 1]
<1> DEFINE a == SubSeq(s, 1, n - 1)
           b == SubSeq(s, n + 1, Len(s))
<1>1. a \in Seq(S) /\ Len(a) = n - 1 /\ \A i \in 1..(n - 1) : a[i] = s[i]
    OBVIOUS
<1>2. b \in Seq(S) /\ Len(b) = Len(s) - n /\ \A i \in 1..(Len(s) - n) : b[i] = s[n + i]
    OBVIOUS
<1> HIDE DEF a, b
<1>3. /\ a \o b \in Seq(S) /\ Len(a \o b) = Len(a) + Len(b)
      /\ \A i \in 1..(Len(a) + Len(b)) :
            (a \o b)[i] = IF i <= Len(a) THEN a[i] ELSE b[i - Len(a)]
    BY <1>1, <1>2, ConcatProperties
<1>4. Len(s) \in Nat /\ n \in Nat /\ Len(a) + Len(b) = Len(s) - 1
    BY <1>1, <1>2
<1>5. ASSUME NEW i \in 1..(Len(s) - 1)
      PROVE  (a \o b)[i] = IF i < n THEN s[i] ELSE s[i + 1]
    <2>1. CASE i < n
        BY <2>1, <1>1, <1>3, <1>4
    <2>2. CASE ~(i < n)
        <3>1. i - (n - 1) \in 1..(Len(s) - n) /\ n + (i - (n - 1)) = i + 1
            BY <2>2, <1>4
        <3>2. b[i - (n - 1)] = s[i + 1]
            BY <3>1, <1>2
        <3>3. QED
            BY <2>2, <3>2, <1>1, <1>3, <1>4
    <2>3. QED
        BY <2>1, <2>2
<1>6. QED
    BY <1>3, <1>4, <1>5 DEF RemoveAt, a, b

LEMMA RemovedFirst ==
    ASSUME NEW S, NEW s \in Seq(S), NEW e, Unique(s)
    PROVE  LET r == RemoveFirst(s, e) IN
           /\ r \in Seq(S) /\ Unique(r)
           /\ \A x \in ToSet(r) : x \in ToSet(s) /\ x # e
           /\ s # <<>> /\ Head(s) # e => r # <<>> /\ Head(r) = Head(s)
<1>1. CASE \A i \in 1..Len(s) : s[i] # e
    <2>1. RemoveFirst(s, e) = s
        BY <1>1 DEF RemoveFirst
    <2>2. \A x \in ToSet(s) : x # e
        BY <1>1 DEF ToSet
    <2>3. QED
        BY <2>1, <2>2
<1>2. ASSUME NEW n \in 1..Len(s), s[n] = e
      PROVE  LET r == RemoveAt(s, n) IN
             /\ r \in Seq(S) /\ Unique(r)
             /\ \A x \in ToSet(r) : x \in ToSet(s) /\ x # e
             /\ s # <<>> /\ Head(s) # e => r # <<>> /\ Head(r) = Head(s)
    <2> DEFINE r == RemoveAt(s, n)
    <2>1. /\ r \in Seq(S) /\ Len(r) = Len(s) - 1
          /\ \A i \in 1..Len(r) : r[i] = IF i < n THEN s[i] ELSE s[i + 1]
        BY RemovedAt
    <2> HIDE DEF r
    <2>2. Unique(r)
        BY <2>1 DEF Unique
    <2>3. \A x \in ToSet(r) : x \in ToSet(s) /\ x # e
        <3>1. ASSUME NEW i \in 1..Len(r)
              PROVE  \E j \in 1..Len(s) : j # n /\ r[i] = s[j]
            <4>1. CASE i < n
                BY <2>1, <4>1, SMTT(30)
            <4>2. CASE ~(i < n)
                <5>1. i + 1 \in 1..Len(s) /\ i + 1 # n /\ r[i] = s[i + 1]
                    BY <2>1, <4>2
                <5>2. QED
                    BY <5>1
            <4>3. QED
                BY <4>1, <4>2
        <3>2. ASSUME NEW j \in 1..Len(s), j # n
              PROVE  s[j] \in ToSet(s) /\ s[j] # e
            BY <3>2, <1>2 DEF Unique, ToSet
        <3>3. DOMAIN r = 1..Len(r)
            BY <2>1
        <3>4. QED
            BY <3>1, <3>2, <3>3 DEF ToSet
    <2>4. s # <<>> /\ Head(s) # e => r # <<>> /\ Head(r) = Head(s)
        BY <2>1, <1>2
    <2>5. QED
        BY <2>1, <2>2, <2>3, <2>4 DEF r
<1>3. ASSUME NEW n \in 1..Len(s), s[n] = e
      PROVE  RemoveFirst(s, e) = RemoveAt(s, n)
    <2>1. {i \in 1..Len(s) : s[i] = e} = {n}
        BY <1>3 DEF Unique
    <2>2. Min({n}) = n
        BY DEF Min
    <2>3. SelectInSeq(s, LAMBDA v : v = e) = n
        BY <2>1, <2>2 DEF SelectInSeq
    <2>4. QED
        BY <1>3, <2>3 DEF RemoveFirst
<1>4. QED
    BY <1>1, <1>2, <1>3

LEMMA AppendUnique ==
    ASSUME NEW S, NEW s \in Seq(S), NEW e \in S, Unique(s), e \notin ToSet(s)
    PROVE  /\ Append(s, e) \in Seq(S) /\ Unique(Append(s, e))
           /\ ToSet(Append(s, e)) = ToSet(s) \cup {e}
           /\ s # <<>> => Append(s, e) # <<>> /\ Head(Append(s, e)) = Head(s)
<1> DEFINE r == Append(s, e)
<1>1. /\ r \in Seq(S) /\ Len(r) = Len(s) + 1 /\ r[Len(s) + 1] = e
      /\ \A i \in 1..Len(s) : r[i] = s[i]
    BY AppendProperties
<1> HIDE DEF r
<1>2. \A i \in 1..Len(s) : s[i] # e
    BY DEF ToSet
<1>3. Unique(r)
    BY <1>1, <1>2 DEF Unique
<1>4. ToSet(r) = ToSet(s) \cup {e}
    <2>1. DOMAIN r = 1..(Len(s) + 1) /\ DOMAIN s = 1..Len(s) /\ Len(s) \in Nat
        BY <1>1
    <2>2. 1..(Len(s) + 1) = 1..Len(s) \cup {Len(s) + 1}
        BY <2>1
    <2>3. QED
        BY <2>1, <2>2, <1>1 DEF ToSet
<1>5. s # <<>> => r # <<>> /\ Head(r) = Head(s)
    BY <1>1
<1>6. QED
    BY <1>1, <1>3, <1>4, <1>5 DEF r

---------------------------------------------------------------------------
(* Types                                                                   *)

LEMMA EmptyQueue ==
    /\ <<>> \in Seq(Message) /\ <<>> \in Seq(Turns)
    /\ Len(<<>>) = 0 /\ Len(<<>>) <= QueueCap
BY SizesAssumption

LEMMA IdleIsTask == Idle \in TurnType /\ Idle \in Task
<1>1. Idle \in TurnType
    BY EmptyQueue, SizesAssumption DEF Idle, TurnType
<1>2. QED
    BY <1>1, EmptyQueue DEF Idle, Task

\* What the steps make of the record of one task.
LEMMA TaskFields ==
    ASSUME NEW x \in TurnType
    PROVE  /\ \A pc \in {"free", "created", "waiting", "running", "ending", "handback"} :
                [x EXCEPT !.pc = pc] \in TurnType
           /\ \A m \in Message : [x EXCEPT !.opener = m] \in TurnType
           /\ \A q \in Seq(Message) :
                /\ [x EXCEPT !.inject = q] \in TurnType
                /\ [x EXCEPT !.deferred = q] \in TurnType
                /\ [x EXCEPT !.pulled = q] \in TurnType
                /\ [x EXCEPT !.hand = q] \in TurnType
           /\ \A n \in 0..MaxCycles : [x EXCEPT !.cycles = n] \in TurnType
           /\ [x EXCEPT !.doomed = TRUE] \in TurnType
           /\ [x EXCEPT !.doomed = FALSE] \in TurnType
BY DEF TurnType

LEMMA TaskGoes ==
    ASSUME NEW x \in Task, x.pc # "free",
           NEW pc \in {"created", "waiting", "running", "ending"}
    PROVE  [x EXCEPT !.pc = pc] \in Task
BY DEF Task, TurnType

LEMMA TaskDoomed ==
    ASSUME NEW x \in Task
    PROVE  [x EXCEPT !.doomed = TRUE] \in Task
<1>1. [x EXCEPT !.doomed = TRUE] \in TurnType
    BY TaskFields DEF Task
<1>2. QED
    BY <1>1 DEF Task, TurnType

LEMMA TaskEmptied ==
    ASSUME NEW x \in Task
    PROVE  [x EXCEPT !.inject = <<>>, !.deferred = <<>>] \in Task
<1> DEFINE y == [x EXCEPT !.inject = <<>>, !.deferred = <<>>]
<1>1. y \in TurnType
    BY EmptyQueue, TaskFields DEF Task
<1>2. y.pc = x.pc /\ y.opener = x.opener /\ y.hand = x.hand /\ y.inject = <<>> /\ y.deferred = <<>>
    BY DEF Task, TurnType
<1> HIDE DEF y
<1>3. y \in Task
    BY <1>1, <1>2, EmptyQueue DEF Task
<1>4. QED
    BY <1>3 DEF y

LEMMA TaskDoomedEmptied ==
    ASSUME NEW x \in Task
    PROVE  [x EXCEPT !.doomed = TRUE, !.inject = <<>>, !.deferred = <<>>] \in Task
BY TaskDoomed, TaskEmptied

LEMMA TaskDropped ==
    ASSUME NEW x \in Task
    PROVE  [Idle EXCEPT !.inject = x.inject, !.deferred = x.deferred] \in Task
<1> DEFINE y == [Idle EXCEPT !.inject = x.inject, !.deferred = x.deferred]
<1>1. x.inject \in Seq(Message) /\ x.deferred \in Seq(Message)
    BY DEF Task, TurnType
<1>2. y \in TurnType
    BY <1>1, IdleIsTask, TaskFields
<1>3. y.pc = "free" /\ y.inject = x.inject /\ y.deferred = x.deferred
    BY DEF Idle
<1> HIDE DEF y
<1>4. y \in Task
    BY <1>2, <1>3 DEF Task
<1>5. QED
    BY <1>4 DEF y

LEMMA TaskOpens ==
    ASSUME NEW m \in Message
    PROVE  [Idle EXCEPT !.pc = "created", !.opener = m] \in Task
<1> DEFINE y == [Idle EXCEPT !.pc = "created", !.opener = m]
<1>1. y \in TurnType
    BY IdleIsTask, TaskFields
<1>2. y.pc = "created" /\ y.opener = m /\ y.inject = <<>> /\ y.deferred = <<>>
    BY DEF Idle
<1> HIDE DEF y
<1>3. y \in Task
    BY <1>1, <1>2, EmptyQueue DEF Task
<1>4. QED
    BY <1>3 DEF y

LEMMA TaskPulls ==
    ASSUME NEW x \in Task, x.pc = "running",
           NEW pulled \in Seq(Message), NEW cycles \in 0..MaxCycles,
           NEW inject \in Seq(Message), Len(inject) <= QueueCap,
           NEW deferred \in Seq(Message), Len(deferred) <= QueueCap
    PROVE  /\ [x EXCEPT !.pulled = pulled, !.inject = inject, !.cycles = cycles] \in Task
           /\ [x EXCEPT !.pulled = pulled, !.inject = inject, !.deferred = deferred,
                        !.cycles = cycles] \in Task
<1> DEFINE y == [x EXCEPT !.pulled = pulled, !.inject = inject, !.cycles = cycles]
           z == [x EXCEPT !.pulled = pulled, !.inject = inject, !.deferred = deferred,
                          !.cycles = cycles]
<1>1. y \in TurnType /\ z \in TurnType
    BY TaskFields DEF Task
<1>2. /\ y.pc = "running" /\ y.opener = x.opener /\ y.inject = inject /\ y.deferred = x.deferred
      /\ z.pc = "running" /\ z.opener = x.opener /\ z.inject = inject /\ z.deferred = deferred
    BY DEF Task, TurnType
<1> HIDE DEF y, z
<1>3. y \in Task /\ z \in Task
    BY <1>1, <1>2 DEF Task
<1>4. QED
    BY <1>3 DEF y, z

LEMMA TaskHandsBack ==
    ASSUME NEW x \in Task, x.pc # "free", NEW q \in Seq(Message), q # <<>>
    PROVE  /\ [x EXCEPT !.pc = "handback", !.hand = q, !.doomed = FALSE] \in Task
           /\ x.pc = "handback" => [x EXCEPT !.hand = q] \in Task
<1> DEFINE y == [x EXCEPT !.pc = "handback", !.hand = q, !.doomed = FALSE]
           z == [x EXCEPT !.hand = q]
<1>1. y \in TurnType /\ z \in TurnType
    BY TaskFields DEF Task
<1>2. /\ y.pc = "handback" /\ y.opener = x.opener /\ y.inject = x.inject
      /\ y.deferred = x.deferred /\ y.hand = q
      /\ z.pc = x.pc /\ z.opener = x.opener /\ z.inject = x.inject
      /\ z.deferred = x.deferred /\ z.hand = q
    BY DEF Task, TurnType
<1> HIDE DEF y, z
<1>3. y \in Task /\ z \in Task
    BY <1>1, <1>2 DEF Task
<1>4. QED
    BY <1>3 DEF y, z

LEMMA TaskQueues ==
    ASSUME NEW x \in Task, NEW m \in Message, Len(x[Target(m)]) < QueueCap
    PROVE  [x EXCEPT ![Target(m)] = Append(@, m)] \in Task
<1>1. x.inject \in Seq(Message) /\ x.deferred \in Seq(Message)
    BY DEF Task, TurnType
<1>2. CASE Target(m) = "inject"
    <2>1. /\ Append(x.inject, m) \in Seq(Message)
          /\ Len(Append(x.inject, m)) <= QueueCap
        BY <1>1, <1>2, SizesAssumption
    <2>2. QED
        BY <1>2, <2>1 DEF Task, TurnType
<1>3. CASE Target(m) = "deferred"
    <2>1. /\ Append(x.deferred, m) \in Seq(Message)
          /\ Len(Append(x.deferred, m)) <= QueueCap
        BY <1>1, <1>3, SizesAssumption
    <2>2. QED
        BY <1>3, <2>1 DEF Task, TurnType
<1>4. QED
    BY <1>2, <1>3 DEF Target

LEMMA TakeType ==
    ASSUME NEW q \in Seq(Message), NEW n \in Nat
    PROVE  /\ Take(q, n) \in Seq(Message) /\ Len(Take(q, n)) <= n
           /\ Rest(q, n) \in Seq(Message) /\ Len(Rest(q, n)) <= Len(q)
BY DEF Take, Rest

LEMMA SettledType ==
    ASSUME NEW f \in [Ids -> Fates], NEW msgs, NEW value \in Fates
    PROVE  Settled(msgs, value, f) \in [Ids -> Fates]
BY DEF Settled

LEMMA TypeInit == Init => TypeOK
<1>1. Nothing \in Messages /\ Nothing \in [Keys -> Seq(Turns)]
    BY DEF Nothing, Messages
<1>2. QED
    BY <1>1, IdleIsTask, SizesAssumption DEF Init, TypeOK, Phases, Fates

LEMMA NextMessage ==
    ASSUME TypeOK, NEW k \in Keys, Consuming(k)
    PROVE  /\ Head(bus[k]) \in Message /\ Head(bus[k]).key \in Keys
           /\ [bus EXCEPT ![k] = Tail(@)] \in Messages
<1>1. bus[k] \in Seq(Message) /\ bus[k] # <<>>
    BY DEF TypeOK, Messages, Consuming
<1>2. Head(bus[k]) \in Message /\ Tail(bus[k]) \in Seq(Message)
    BY <1>1, HeadTailProperties
<1>3. Head(bus[k]).key \in Keys
    BY <1>2 DEF Message
<1>4. QED
    BY <1>2, <1>3 DEF TypeOK, Messages

LEMMA QueuedType ==
    ASSUME TypeOK, NEW t \in Turns
    PROVE  Queued(t) \in Seq(Message)
<1>1. turn[t].inject \in Seq(Message) /\ turn[t].deferred \in Seq(Message)
    BY DEF TypeOK, Task, TurnType
<1>2. QED
    BY <1>1, ConcatProperties DEF Queued

\* The drain reads the message of every listed task: they all have one.
LEMMA OpenersType ==
    ASSUME TypeOK, ListedOK, NEW k \in Keys
    PROVE  Openers(k) \in Seq(Message)
<1>1. active[k] \in Seq(Turns)
    BY DEF TypeOK
<1>2. ASSUME NEW i \in 1..Len(active[k])
      PROVE  turn[active[k][i]].opener \in Message
    <2>1. active[k][i] \in Turns /\ active[k][i] \in ToSet(active[k])
        BY <1>1 DEF ToSet
    <2>2. QED
        BY <2>1 DEF ListedOK, TypeOK, Task
<1>3. QED
    BY <1>1, <1>2 DEF Openers

LEMMA LeftoverType ==
    ASSUME TypeOK, NEW t \in Turns, turn[t].pc # "free"
    PROVE  /\ Key(t) \in Keys /\ Leftover(t) \in Seq(Message)
           /\ Emptied(Key(t)) \in [Turns -> Task]
           /\ Emptied(Key(t))[t].pc = turn[t].pc
<1>1. Key(t) \in Keys
    BY DEF TypeOK, Task, TurnType, Message, Key
<1>2. \A u \in Turns : Queued(u) \in Seq(Message)
    BY QueuedType
<1>3. Leftover(t) \in Seq(Message)
    BY <1>1, <1>2, EmptyQueue DEF Leftover, TypeOK
<1>4. Emptied(Key(t)) \in [Turns -> Task]
    BY TaskEmptied DEF Emptied, TypeOK
<1>5. Emptied(Key(t))[t].pc = turn[t].pc
    BY DEF Emptied, TypeOK, Task, TurnType
<1>6. QED
    BY <1>1, <1>3, <1>4, <1>5

LEMMA SentCounted == Cardinality(Sent) \in Nat
<1>1. IsFiniteSet(Ids) /\ Sent \subseteq Ids
    BY FS_Interval, SizesAssumption DEF Ids, Sent
<1>2. QED
    BY <1>1, FS_Subset, FS_CardinalityType

LEMMA GiveBackType ==
    ASSUME TypeOK, NoneOutlives, NEW t \in Turns, turn[t].pc # "free", GiveBack(t)
    PROVE  /\ bus' \in Messages
           /\ registered' \in [Keys -> Turns \cup {None}]
           /\ turn' \in [Turns -> Task]
           /\ active' \in [Keys -> Seq(Turns)] /\ lock' \in [Keys -> Seq(Turns)]
<1>1. /\ Key(t) \in Keys /\ Leftover(t) \in Seq(Message)
      /\ Emptied(Key(t)) \in [Turns -> Task] /\ Emptied(Key(t))[t].pc # "free"
    BY LeftoverType
<1>2. /\ Released(t) \in [Keys -> Seq(Turns)] /\ Delisted(t) \in [Keys -> Seq(Turns)]
    BY <1>1, RemovedFirst DEF Released, Delisted, TypeOK, NoneOutlives, ListedOK, LockOK
<1>3. registered' \in [Keys -> Turns \cup {None}]
    BY DEF GiveBack, Unregistered, TypeOK
<1>4. CASE Leftover(t) # <<>>
    <2>1. [Emptied(Key(t)) EXCEPT ![t] =
              [@ EXCEPT !.pc = "handback", !.hand = Leftover(t), !.doomed = FALSE]]
            \in [Turns -> Task]
        BY <1>1, <1>4, TaskHandsBack
    <2>2. QED
        BY <2>1, <1>2, <1>3, <1>4 DEF GiveBack, TypeOK
<1>5. CASE Leftover(t) = <<>>
    <2>1. [Emptied(Key(t)) EXCEPT ![t] = Idle] \in [Turns -> Task]
        BY <1>1, IdleIsTask
    <2>2. QED
        BY <2>1, <1>2, <1>3, <1>5 DEF GiveBack, TypeOK
<1>6. QED
    BY <1>4, <1>5

LEMMA TypeStep ==
    ASSUME TypeOK, NoneOutlives, [Next]_vars
    PROVE  TypeOK'
<1> USE DEF TypeOK
<1>1. ASSUME NEW k \in Keys, NEW kind \in Kinds, Publish(k, kind) PROVE TypeOK'
    <2> DEFINE i == Cardinality(Sent) + 1
               m == [id |-> i, key |-> k, kind |-> kind]
    <2>1. i \in Ids
        BY <1>1, SentCounted, SizesAssumption DEF Publish, Ids
    <2>2. m \in Message
        BY <2>1, KindsAssumption DEF Message
    <2>3. bus' \in Messages
        <3> HIDE DEF m
        <3>1. bus' = [bus EXCEPT ![k] = Append(@, m)]
            BY <1>1 DEF Publish, m
        <3>2. QED
            BY <2>2, <3>1 DEF Messages
    <2>4. fate' \in [Ids -> Fates]
        BY <1>1 DEF Publish, Fates
    <2>5. QED
        BY <1>1, <2>3, <2>4 DEF Publish
<1>2. ASSUME NEW k \in Keys, ConsumeStop(k) PROVE TypeOK'
    <2>1. bus' \in Messages
        BY <1>2, NextMessage DEF ConsumeStop
    <2>2. turn' \in [Turns -> Task]
        BY <1>2, TaskDoomed DEF ConsumeStop
    <2>3. active' \in [Keys -> Seq(Turns)]
        BY <1>2, EmptyQueue DEF ConsumeStop
    <2>4. awaited' \subseteq Turns
        BY <1>2 DEF ConsumeStop, ToSet
    <2>5. fate' \in [Ids -> Fates]
        BY <1>2, SettledType DEF ConsumeStop, Fates, Outcomes
    <2>6. QED
        BY <1>2, <2>1, <2>2, <2>3, <2>4, <2>5 DEF ConsumeStop
<1>3. ASSUME NEW k \in Keys, ConsumeFollowUp(k) PROVE TypeOK'
    <2>1. bus' \in Messages /\ Head(bus[k]) \in Message
        BY <1>3, NextMessage DEF ConsumeFollowUp
    <2>2. turn' \in [Turns -> Task]
        BY <1>3, <2>1, TaskQueues DEF ConsumeFollowUp, HasRoom
    <2>3. QED
        BY <1>3, <2>1, <2>2 DEF ConsumeFollowUp
<1>4. ASSUME NEW k \in Keys, ConsumeOpener(k) PROVE TypeOK'
    <2>1. bus' \in Messages /\ Head(bus[k]) \in Message /\ Head(bus[k]).key \in Keys
        BY <1>4, NextMessage DEF ConsumeOpener
    <2>2. PICK t \in Turns : StartTurn(t, Head(bus[k]))
        BY <1>4 DEF ConsumeOpener
    <2>3. turn' \in [Turns -> Task]
        BY <2>1, <2>2, TaskOpens DEF StartTurn
    <2>4. active' \in [Keys -> Seq(Turns)] /\ registered' \in [Keys -> Turns \cup {None}]
        BY <2>1, <2>2, AppendProperties DEF StartTurn
    <2>5. QED
        BY <1>4, <2>1, <2>3, <2>4 DEF ConsumeOpener
<1>21. ASSUME NEW k \in Keys, ConsumeCommand(k) PROVE TypeOK'
    <2>1. bus' \in Messages
        BY <1>21, NextMessage DEF ConsumeCommand
    <2>2. fate' \in [Ids -> Fates]
        BY <1>21, SettledType DEF ConsumeCommand, Fates, Outcomes
    <2>3. QED
        BY <1>21, <2>1, <2>2 DEF ConsumeCommand
<1>5. CASE StopDone
    BY <1>5 DEF StopDone
<1>6. ASSUME NEW t \in Turns, Begin(t) PROVE TypeOK'
    <2>1. turn' \in [Turns -> Task] /\ Key(t) \in Keys
        BY <1>6, TaskGoes, LeftoverType DEF Begin, Undisturbed
    <2>2. lock' \in [Keys -> Seq(Turns)]
        BY <1>6, <2>1, AppendProperties DEF Begin
    <2>3. QED
        BY <1>6, <2>1, <2>2 DEF Begin
<1>7. ASSUME NEW t \in Turns, Run(t) PROVE TypeOK'
    BY <1>7, TaskGoes DEF Run, Undisturbed
<1>8. ASSUME NEW t \in Turns, PullSteers(t) \/ PullAll(t) PROVE TypeOK'
    <2>1. /\ turn[t] \in Task /\ turn[t].pulled \in Seq(Message)
          /\ turn[t].inject \in Seq(Message) /\ Len(turn[t].inject) <= QueueCap
          /\ turn[t].deferred \in Seq(Message) /\ Len(turn[t].deferred) <= QueueCap
          /\ Queued(t) \in Seq(Message)
        BY ConcatProperties DEF Task, TurnType, Queued
    <2>2. turn[t].cycles + 1 \in 0..MaxCycles
        BY <1>8, SizesAssumption DEF PullSteers, PullAll, Undisturbed, Task, TurnType
    <2>3. /\ turn[t].pulled \o Take(turn[t].inject, Batch) \in Seq(Message)
          /\ turn[t].pulled \o Take(Queued(t), Batch) \in Seq(Message)
        BY <2>1, TakeType, ConcatProperties, SizesAssumption
    <2>4. /\ Rest(turn[t].inject, Batch) \in Seq(Message)
          /\ Len(Rest(turn[t].inject, Batch)) <= QueueCap
        BY <2>1, TakeType, SizesAssumption
    <2>5. /\ Rest(turn[t].deferred, Batch - Len(Take(turn[t].inject, Batch))) \in Seq(Message)
          /\ Len(Rest(turn[t].deferred, Batch - Len(Take(turn[t].inject, Batch)))) <= QueueCap
        <3>1. Batch - Len(Take(turn[t].inject, Batch)) \in Nat
            BY <2>1, TakeType, SizesAssumption
        <3>2. QED
            BY <3>1, <2>1, TakeType, SizesAssumption
    <2>6. turn' \in [Turns -> Task]
        <3>1. CASE PullSteers(t)
            <4>1. [turn[t] EXCEPT !.pulled = turn[t].pulled \o Take(turn[t].inject, Batch),
                                  !.inject = Rest(turn[t].inject, Batch),
                                  !.cycles = turn[t].cycles + 1] \in Task
                BY <3>1, <2>1, <2>2, <2>3, <2>4, TaskPulls DEF PullSteers, Undisturbed
            <4>2. QED
                BY <3>1, <4>1 DEF PullSteers
        <3>2. CASE PullAll(t)
            <4> DEFINE n == Len(Take(turn[t].inject, Batch))
            <4>1. [turn[t] EXCEPT !.pulled = turn[t].pulled \o Take(Queued(t), Batch),
                                  !.inject = Rest(turn[t].inject, Batch),
                                  !.deferred = Rest(turn[t].deferred, Batch - n),
                                  !.cycles = turn[t].cycles + 1] \in Task
                BY <3>2, <2>1, <2>2, <2>3, <2>4, <2>5, TaskPulls DEF PullAll, Undisturbed
            <4>2. QED
                BY <3>2, <4>1 DEF PullAll
        <3>3. QED
            BY <1>8, <3>1, <3>2
    <2>7. QED
        BY <1>8, <2>6 DEF PullSteers, PullAll
<1>9. ASSUME NEW t \in Turns, Finish(t) \/ UnwindBody(t) PROVE TypeOK'
    <2>1. turn' \in [Turns -> Task]
        <3>1. turn[t].pc = "running" /\ turn' = [turn EXCEPT ![t].pc = "ending"]
            BY <1>9 DEF Finish, UnwindBody, Undisturbed
        <3>2. QED
            BY <3>1, TaskGoes
    <2>2. fate' \in [Ids -> Fates]
        <3>1. Settled(Taken(t), "answered", fate) \in [Ids -> Fates]
            BY SettledType DEF Fates, Outcomes
        <3>2. QED
            BY <1>9, <3>1 DEF Finish, UnwindBody
    <2>3. QED
        BY <1>9, <2>1, <2>2 DEF Finish, UnwindBody
<1>10. ASSUME NEW t \in Turns, Leave(t) \/ Refuse(t) PROVE TypeOK'
    <2>1. turn[t].pc # "free" /\ GiveBack(t)
        BY <1>10 DEF Leave, Refuse, Undisturbed
    <2>2. fate' \in [Ids -> Fates]
        BY <1>10, SettledType, SMTT(30) DEF Leave, Refuse, Fates, Outcomes
    <2>3. QED
        BY <2>1, <2>2, GiveBackType DEF GiveBack
<1>11. ASSUME NEW t \in Turns, HandBack(t) PROVE TypeOK'
    <2>1. turn[t].pc = "handback" /\ turn[t] \in Task /\ Key(t) \in Keys
        BY <1>11, LeftoverType DEF HandBack, Undisturbed
    <2>2. turn[t].hand \in Seq(Message) /\ turn[t].hand # <<>>
        BY <2>1 DEF Task, TurnType
    <2>3. bus' \in Messages /\ fate' \in [Ids -> Fates]
        <3>1. Head(turn[t].hand) \in Message
            BY <2>2, HeadTailProperties
        <3>2. [bus EXCEPT ![Key(t)] = Append(@, Head(turn[t].hand))] \in Messages
            BY <2>1, <3>1, AppendProperties DEF Messages
        <3>3. Settled({Head(turn[t].hand)}, "claimed", fate) \in [Ids -> Fates]
            BY SettledType DEF Fates, Outcomes
        <3>4. QED
            BY <1>11, <3>2, <3>3 DEF HandBack
    <2>4. CASE Len(turn[t].hand) = 1
        <3>1. active' \in [Keys -> Seq(Turns)]
            <4>1. Unique(active[Key(t)]) /\ active[Key(t)] \in Seq(Turns)
                BY <2>1 DEF NoneOutlives, ListedOK
            <4>2. RemoveFirst(active[Key(t)], t) \in Seq(Turns)
                BY <4>1, RemovedFirst
            <4>3. QED
                BY <1>11, <2>4, <4>2 DEF HandBack, Delisted
        <3>2. turn' \in [Turns -> Task]
            BY <1>11, <2>4, IdleIsTask DEF HandBack
        <3>3. QED
            BY <1>11, <2>3, <3>1, <3>2 DEF HandBack
    <2>5. CASE Len(turn[t].hand) # 1
        <3>1. Tail(turn[t].hand) \in Seq(Message) /\ Tail(turn[t].hand) # <<>>
            <4>1. /\ Tail(turn[t].hand) \in Seq(Message)
                  /\ Len(Tail(turn[t].hand)) = Len(turn[t].hand) - 1
                BY <2>2, HeadTailProperties
            <4>2. Len(turn[t].hand) \in Nat /\ Len(Tail(turn[t].hand)) # 0
                BY <4>1, <2>2, <2>5, LenProperties
            <4>3. QED
                BY <4>1, <4>2, EmptyQueue
        <3>2. turn' \in [Turns -> Task]
            <4>1. turn' = [turn EXCEPT ![t].hand = Tail(@)]
                BY <1>11, <2>5 DEF HandBack
            <4>2. QED
                BY <4>1, <2>1, <3>1, TaskHandsBack
        <3>3. QED
            BY <1>11, <2>3, <2>5, <3>2 DEF HandBack
    <2>6. QED
        BY <2>4, <2>5
<1>12. ASSUME NEW t \in Turns, UnwindHandBack(t) PROVE TypeOK'
    <2>1. fate' \in [Ids -> Fates]
        BY <1>12, SettledType DEF UnwindHandBack, Fates, Failures
    <2>2. QED
        BY <1>12, <2>1, IdleIsTask DEF UnwindHandBack
<1>13. ASSUME NEW t \in Turns, DropUnstarted(t) PROVE TypeOK'
    BY <1>13, TaskDropped DEF DropUnstarted
<1>14. CASE StopIntake
    BY <1>14 DEF StopIntake, Phases
<1>15. CASE BeginDrain
    <2>1. owed' \in Messages
        <3>1. ASSUME NEW k \in Keys PROVE TakenFrom(k) \in Seq(Message)
            <4>1. Openers(k) \in Seq(Message)
                BY OpenersType DEF NoneOutlives
            <4>2. registered[k] # None => Queued(registered[k]) \in Seq(Message)
                BY QueuedType
            <4>3. QED
                BY <4>1, <4>2, EmptyQueue, ConcatProperties DEF TakenFrom
        <3>2. QED
            BY <1>15, <3>1 DEF BeginDrain, Messages
    <2>2. turn' \in [Turns -> Task]
        BY <1>15, TaskEmptied, TaskDoomedEmptied DEF BeginDrain
    <2>3. awaited' \subseteq Turns
        <3>1. awaited' = UNION {ToSet(active[k]) : k \in Keys}
            BY <1>15 DEF BeginDrain
        <3>2. ASSUME NEW k \in Keys PROVE ToSet(active[k]) \subseteq Turns
            BY DEF ToSet
        <3>3. QED
            BY <3>1, <3>2
    <2>4. active' \in [Keys -> Seq(Turns)] /\ registered' \in [Keys -> Turns \cup {None}]
        BY <1>15, EmptyQueue DEF BeginDrain, Nothing
    <2>5. fate' \in [Ids -> Fates]
        BY <1>15, SettledType DEF BeginDrain, Fates, Outcomes, Failures
    <2>6. QED
        BY <1>15, <2>1, <2>2, <2>3, <2>4, <2>5 DEF BeginDrain, Phases
<1>16. CASE EndDrain
    <2>1. journal' \in Messages
        <3>1. ASSUME NEW k \in Keys
              PROVE  journal[k] \o owed[k] \o bus[k] \o
                        (IF registered[k] = None THEN <<>> ELSE Queued(registered[k]))
                        \in Seq(Message)
            <4>1. journal[k] \in Seq(Message) /\ owed[k] \in Seq(Message) /\ bus[k] \in Seq(Message)
                BY DEF Messages
            <4>2. (IF registered[k] = None THEN <<>> ELSE Queued(registered[k])) \in Seq(Message)
                BY QueuedType, EmptyQueue
            <4>3. QED
                BY <4>1, <4>2, ConcatProperties
        <3>2. QED
            BY <1>16, <3>1 DEF EndDrain, Messages
    <2>2. turn' \in [Turns -> Task]
        BY <1>16, TaskEmptied DEF EndDrain
    <2>3. bus' \in Messages /\ owed' \in Messages
        BY <1>16, EmptyQueue DEF EndDrain, Nothing, Messages
    <2>4. QED
        BY <1>16, <2>1, <2>2, <2>3 DEF EndDrain, Phases
<1>17. CASE Restart
    <2>1. bus' \in Messages /\ active' \in [Keys -> Seq(Turns)] /\ lock' \in [Keys -> Seq(Turns)]
        BY <1>17, EmptyQueue DEF Restart, Nothing, Messages
    <2>2. turn' \in [Turns -> Task]
        BY <1>17, IdleIsTask DEF Restart
    <2>3. fate' \in [Ids -> Fates]
        <3>1. \A msgs : \A f \in [Ids -> Fates] : /\ Settled(msgs, "missed", f) \in [Ids -> Fates]
                                                 /\ Settled(msgs, "dropped", f) \in [Ids -> Fates]
            BY SettledType DEF Fates, Failures
        <3>2. QED
            BY <1>17, <3>1 DEF Restart
    <2>4. QED
        <3>1. /\ gateway' = "starting" /\ restarts' = restarts + 1 /\ awaited' = {}
              /\ UNCHANGED <<registered, owed, journal>>
            BY <1>17 DEF Restart
        <3>2. restarts' \in Nat
            BY <3>1
        <3>3. QED
            BY <2>1, <2>2, <2>3, <3>1, <3>2 DEF Phases
<1>18. CASE Replay
    <2>1. bus' \in Messages
        BY <1>18, ConcatProperties DEF Replay, Messages
    <2>2. journal' \in Messages
        BY <1>18, EmptyQueue DEF Replay, Nothing, Messages
    <2>3. QED
        BY <1>18, <2>1, <2>2 DEF Replay, Phases
<1>19. CASE UNCHANGED vars
    BY <1>19 DEF vars
<1>20. QED
    BY <1>1, <1>2, <1>21, <1>3, <1>4, <1>5, <1>6, <1>7, <1>8, <1>9, <1>10, <1>11, <1>12,
       <1>13, <1>14, <1>15, <1>16, <1>17, <1>18, <1>19
       DEF Next, Consume, TurnStep

---------------------------------------------------------------------------
(* Who is listed, who is in the lock, who is inside                        *)

\* Whoever is in the body of its turn is the head of its session's lock.
HeadInside == \A t \in Turns : InBody(t) => Holds(t)

\* A step leaves alone what these invariants say of t.
Kept(t) ==
    /\ turn'[t].pc = turn[t].pc
    /\ turn'[t].opener = turn[t].opener
    /\ turn[t].doomed = turn'[t].doomed

LEMMA AllKept ==
    ASSUME NoneOutlives, HeadInside, TypeOK, UNCHANGED <<active, lock>>,
           \A t \in Turns : Kept(t)
    PROVE  NoneOutlives' /\ HeadInside'
<1>1. \A k \in Keys : ToSet(active[k]) \subseteq Turns /\ ToSet(lock[k]) \subseteq Turns
    BY DEF ToSet, TypeOK
<1>2. ListedOK'
    BY <1>1 DEF NoneOutlives, ListedOK, Kept, Key
<1>3. LockOK'
    BY <1>1 DEF NoneOutlives, LockOK, Kept, Key
<1>4. HeadInside'
    BY DEF HeadInside, InBody, Holds, Kept, Key
<1>5. QED
    BY <1>2, <1>3, <1>4 DEF NoneOutlives

\* A task goes to another stage of its turn.
LEMMA TaskMoves ==
    ASSUME TypeOK, NEW t \in Turns, NEW pc, turn' = [turn EXCEPT ![t].pc = pc]
    PROVE  /\ \A u \in Turns \ {t} : Kept(u)
           /\ turn'[t].pc = pc /\ turn'[t].opener = turn[t].opener
           /\ turn'[t].doomed = turn[t].doomed
BY DEF TypeOK, Task, TurnType, Kept

LEMMA RouteInit == Init => NoneOutlives /\ HeadInside
BY EmptyQueue DEF Init, NoneOutlives, ListedOK, LockOK, HeadInside, InBody, Idle, Nothing,
                  ToSet, Unique

\* The end of a turn: t leaves the lock and, unless it still hands messages back,
\* the list.
LEMMA GiveBackKeeps ==
    ASSUME TypeOK, NoneOutlives, HeadInside, NEW t \in Turns, turn[t].pc # "free",
           GiveBack(t)
    PROVE  NoneOutlives' /\ HeadInside'
<1>1. Key(t) \in Keys
    BY LeftoverType
<1>2. /\ \A u \in Turns \ {t} : Kept(u)
      /\ \/ /\ turn'[t].pc = "handback" /\ ~turn'[t].doomed
            /\ turn'[t].opener = turn[t].opener /\ UNCHANGED active
         \/ turn'[t].pc = "free" /\ active' = Delisted(t)
    <2>1. \A u \in Turns : /\ Emptied(Key(t))[u].pc = turn[u].pc
                           /\ Emptied(Key(t))[u].opener = turn[u].opener
                           /\ Emptied(Key(t))[u].doomed = turn[u].doomed
        BY DEF Emptied, TypeOK, Task, TurnType
    <2>2. Emptied(Key(t)) \in [Turns -> Task]
        BY LeftoverType
    <2>3. CASE Leftover(t) # <<>>
        <3> DEFINE x == Emptied(Key(t))[t]
                   y == [x EXCEPT !.pc = "handback", !.hand = Leftover(t), !.doomed = FALSE]
        <3>1. y.pc = "handback" /\ ~y.doomed /\ y.opener = turn[t].opener
            BY <2>1, <2>2 DEF Task, TurnType
        <3>2. turn' = [Emptied(Key(t)) EXCEPT ![t] = y] /\ UNCHANGED active
            BY <2>3 DEF GiveBack
        <3> HIDE DEF y
        <3>3. QED
            BY <2>1, <2>2, <3>1, <3>2 DEF Kept
    <2>4. CASE Leftover(t) = <<>>
        BY <2>1, <2>2, <2>4 DEF GiveBack, Kept, Idle
    <2>5. QED
        BY <2>3, <2>4
<1>3. \A k \in Keys : ToSet(active[k]) \subseteq Turns /\ ToSet(lock[k]) \subseteq Turns
    BY DEF ToSet, TypeOK
<1>4. /\ Unique(active'[Key(t)])
      /\ \A u \in ToSet(active'[Key(t)]) : u \in ToSet(active[Key(t)])
      /\ turn'[t].pc = "free" => t \notin ToSet(active'[Key(t)])
      /\ \A k \in Keys \ {Key(t)} : active'[k] = active[k]
    BY <1>1, <1>2, RemovedFirst DEF Delisted, NoneOutlives, ListedOK, TypeOK
<1>5. /\ Unique(lock'[Key(t)])
      /\ \A u \in ToSet(lock'[Key(t)]) : u \in ToSet(lock[Key(t)]) /\ u # t
      /\ lock[Key(t)] # <<>> /\ Head(lock[Key(t)]) # t =>
            lock'[Key(t)] # <<>> /\ Head(lock'[Key(t)]) = Head(lock[Key(t)])
      /\ \A k \in Keys \ {Key(t)} : lock'[k] = lock[k]
    BY <1>1, RemovedFirst DEF GiveBack, Released, NoneOutlives, LockOK, TypeOK
<1>6. ListedOK'
    BY <1>1, <1>2, <1>3, <1>4 DEF NoneOutlives, ListedOK, Kept, Key
<1>7. LockOK'
    BY <1>1, <1>2, <1>3, <1>5 DEF NoneOutlives, LockOK, Kept, Key
<1>8. HeadInside'
    <2>1. ASSUME NEW u \in Turns, InBody(u)' PROVE Holds(u)'
        <3>1. u # t /\ Kept(u) /\ InBody(u) /\ Key(u)' = Key(u) /\ Key(u) \in Keys
            BY <1>2, <2>1, LeftoverType DEF InBody, Kept, Key
        <3>2. lock[Key(u)] # <<>> /\ Head(lock[Key(u)]) = u
            BY <3>1 DEF HeadInside, Holds
        <3>3. QED
            BY <1>5, <3>1, <3>2 DEF Holds
    <2>2. QED
        BY <2>1 DEF HeadInside
<1>9. QED
    BY <1>6, <1>7, <1>8 DEF NoneOutlives

\* A task that is neither listed nor in a lock is over.
LEMMA GoneKeeps ==
    ASSUME TypeOK, NoneOutlives, HeadInside, NEW t \in Turns,
           \A k \in Keys : t \notin ToSet(active'[k]) \cup ToSet(lock[k]),
           UNCHANGED lock, \A u \in Turns \ {t} : Kept(u), turn'[t].pc = "free",
           \A k \in Keys : Unique(active'[k]) /\ ToSet(active'[k]) \subseteq ToSet(active[k])
    PROVE  NoneOutlives' /\ HeadInside'
<1>1. \A k \in Keys : ToSet(active[k]) \subseteq Turns /\ ToSet(lock[k]) \subseteq Turns
    BY DEF ToSet, TypeOK
<1>2. ListedOK'
    BY <1>1 DEF NoneOutlives, ListedOK, Kept, Key
<1>3. LockOK'
    BY <1>1 DEF NoneOutlives, LockOK, Kept, Key
<1>4. HeadInside'
    BY DEF HeadInside, InBody, Holds, Kept, Key
<1>5. QED
    BY <1>2, <1>3, <1>4 DEF NoneOutlives

LEMMA RouteStep ==
    ASSUME TypeOK, NoneOutlives, HeadInside, [Next]_vars
    PROVE  NoneOutlives' /\ HeadInside'
<1> DEFINE Goal == NoneOutlives /\ HeadInside
<1>0. \A k \in Keys : ToSet(active[k]) \subseteq Turns /\ ToSet(lock[k]) \subseteq Turns
    BY DEF ToSet, TypeOK
<1>1. ASSUME UNCHANGED <<turn, active, lock>> PROVE Goal'
    BY <1>1, AllKept DEF Kept
<1>2. ASSUME NEW k \in Keys, ConsumeStop(k) PROVE Goal'
    <2>1. \A t \in Turns :
            /\ turn'[t].pc = turn[t].pc /\ turn'[t].opener = turn[t].opener
            /\ t \notin ToSet(active[k]) => turn'[t].doomed = turn[t].doomed
        BY <1>2 DEF ConsumeStop, TypeOK, Task, TurnType
    <2>2. lock' = lock /\ active' = [active EXCEPT ![k] = <<>>]
        BY <1>2 DEF ConsumeStop
    <2>3. ListedOK'
        <3>1. ASSUME NEW j \in Keys \ {k}, NEW t \in ToSet(active[j])
              PROVE  t \in Turns /\ t \notin ToSet(active[k]) /\ turn[t].pc # "free"
                     /\ ~turn[t].doomed /\ Key(t) = j
            BY <1>0 DEF NoneOutlives, ListedOK
        <3>2. \A j \in Keys \ {k} : Unique(active'[j]) /\ active'[j] = active[j]
            BY <2>2 DEF TypeOK, NoneOutlives, ListedOK
        <3>3. Unique(active'[k]) /\ ToSet(active'[k]) = {}
            BY <2>2, EmptyQueue DEF TypeOK, Unique, ToSet
        <3>4. QED
            BY <2>1, <3>1, <3>2, <3>3 DEF ListedOK, Key
    <2>4. LockOK'
        BY <1>0, <2>1, <2>2 DEF NoneOutlives, LockOK, Key
    <2>5. HeadInside'
        BY <2>1, <2>2 DEF HeadInside, InBody, Holds, Key
    <2>6. QED
        BY <2>3, <2>4, <2>5 DEF NoneOutlives
<1>3. ASSUME NEW k \in Keys, ConsumeFollowUp(k) PROVE Goal'
    <2>1. \A t \in Turns : Kept(t)
        BY <1>3 DEF ConsumeFollowUp, Target, Kept, TypeOK, Task, TurnType
    <2>2. QED
        BY <1>3, <2>1, AllKept DEF ConsumeFollowUp
<1>4. ASSUME NEW k \in Keys, ConsumeOpener(k) PROVE Goal'
    <2> DEFINE m == Head(bus[k])
    <2>1. m \in Message /\ m.key \in Keys
        BY <1>4, NextMessage DEF ConsumeOpener
    <2>2. PICK t \in Turns : StartTurn(t, m)
        BY <1>4 DEF ConsumeOpener
    <2> HIDE DEF m
    <2>3. /\ \A u \in Turns \ {t} : Kept(u)
          /\ turn[t].pc = "free" /\ turn'[t].pc = "created"
          /\ turn'[t].opener = m /\ ~turn'[t].doomed
        BY <2>2 DEF StartTurn, Kept, TypeOK, Idle
    <2>4. lock' = lock /\ active' = [active EXCEPT ![m.key] = Append(@, t)]
        BY <1>4, <2>2 DEF ConsumeOpener, StartTurn
    <2>5. \A j \in Keys : t \notin ToSet(active[j]) /\ t \notin ToSet(lock[j])
        BY <2>3 DEF NoneOutlives, ListedOK, LockOK
    <2>6. /\ Unique(active'[m.key]) /\ ToSet(active'[m.key]) = ToSet(active[m.key]) \cup {t}
          /\ \A j \in Keys \ {m.key} : active'[j] = active[j]
        BY <2>1, <2>4, <2>5, AppendUnique DEF TypeOK, NoneOutlives, ListedOK
    <2>7. ListedOK'
        BY <1>0, <2>1, <2>3, <2>6 DEF NoneOutlives, ListedOK, Kept, Key
    <2>8. LockOK'
        BY <1>0, <2>3, <2>4, <2>5 DEF NoneOutlives, LockOK, Kept, Key
    <2>9. HeadInside'
        BY <2>3, <2>4 DEF HeadInside, InBody, Holds, Kept, Key
    <2>10. QED
        BY <2>7, <2>8, <2>9 DEF NoneOutlives
<1>5. ASSUME NEW t \in Turns, Begin(t) PROVE Goal'
    <2>1. /\ \A u \in Turns \ {t} : Kept(u)
          /\ turn[t].pc = "created" /\ turn'[t].pc = "waiting"
          /\ turn'[t].opener = turn[t].opener /\ turn'[t].doomed = turn[t].doomed
        BY <1>5, TaskMoves DEF Begin, Undisturbed
    <2>2. Key(t) \in Keys /\ t \notin ToSet(lock[Key(t)])
        BY <2>1, LeftoverType DEF NoneOutlives, LockOK
    <2>3. active' = active /\ lock' = [lock EXCEPT ![Key(t)] = Append(@, t)]
        BY <1>5 DEF Begin
    <2>4. /\ Unique(lock'[Key(t)]) /\ ToSet(lock'[Key(t)]) = ToSet(lock[Key(t)]) \cup {t}
          /\ lock[Key(t)] # <<>> =>
                lock'[Key(t)] # <<>> /\ Head(lock'[Key(t)]) = Head(lock[Key(t)])
          /\ \A j \in Keys \ {Key(t)} : lock'[j] = lock[j]
        BY <2>2, <2>3, AppendUnique, SMTT(30) DEF TypeOK, NoneOutlives, LockOK
    <2>5. ListedOK'
        BY <1>0, <2>1, <2>3 DEF NoneOutlives, ListedOK, Kept, Key
    <2>6. LockOK'
        BY <1>0, <2>1, <2>2, <2>4 DEF NoneOutlives, LockOK, Kept, Key
    <2>7. HeadInside'
        <3>1. ASSUME NEW u \in Turns, InBody(u)' PROVE Holds(u)'
            <4>1. u # t /\ InBody(u) /\ Key(u)' = Key(u) /\ Key(u) \in Keys
                BY <2>1, <3>1, LeftoverType DEF InBody, Kept, Key
            <4>2. lock[Key(u)] # <<>> /\ Head(lock[Key(u)]) = u
                BY <4>1 DEF HeadInside, Holds
            <4>3. QED
                BY <2>4, <4>1, <4>2 DEF Holds
        <3>2. QED
            BY <3>1 DEF HeadInside
    <2>8. QED
        BY <2>5, <2>6, <2>7 DEF NoneOutlives
<1>6. ASSUME NEW t \in Turns, NEW pc \in {"running", "ending"}, Holds(t),
             turn[t].pc \in {"waiting", "running"},
             turn' = [turn EXCEPT ![t].pc = pc], UNCHANGED <<active, lock>>
      PROVE  Goal'
    <2>1. /\ \A u \in Turns \ {t} : Kept(u)
          /\ turn'[t].pc = pc /\ turn'[t].opener = turn[t].opener
          /\ turn'[t].doomed = turn[t].doomed
        BY <1>6, TaskMoves
    <2>2. ListedOK'
        BY <1>0, <1>6, <2>1 DEF NoneOutlives, ListedOK, Kept, Key
    <2>3. LockOK'
        BY <1>0, <1>6, <2>1 DEF NoneOutlives, LockOK, Kept, Key
    <2>4. HeadInside'
        BY <1>6, <2>1 DEF HeadInside, InBody, Holds, Kept, Key
    <2>5. QED
        BY <2>2, <2>3, <2>4 DEF NoneOutlives
<1>7. ASSUME NEW t \in Turns, Run(t) PROVE Goal'
    BY <1>6, <1>7 DEF Run, Undisturbed
<1>8. ASSUME NEW t \in Turns, Finish(t) \/ UnwindBody(t) PROVE Goal'
    <2>1. turn[t].pc = "running" /\ turn' = [turn EXCEPT ![t].pc = "ending"]
          /\ UNCHANGED <<active, lock>>
        BY <1>8 DEF Finish, UnwindBody, Undisturbed
    <2>2. Holds(t)
        BY <2>1 DEF HeadInside, InBody
    <2>3. QED
        BY <1>6, <2>1, <2>2
<1>9. ASSUME NEW t \in Turns, PullSteers(t) \/ PullAll(t) PROVE Goal'
    <2>1. \A u \in Turns : Kept(u)
        <3>1. CASE PullSteers(t)
            BY <3>1 DEF PullSteers, Kept, TypeOK, Task, TurnType
        <3>2. CASE PullAll(t)
            BY <3>2 DEF PullAll, Kept, TypeOK, Task, TurnType
        <3>3. QED
            BY <1>9, <3>1, <3>2
    <2>2. QED
        BY <1>9, <2>1, AllKept DEF PullSteers, PullAll
<1>10. ASSUME NEW t \in Turns, Leave(t) \/ Refuse(t) PROVE Goal'
    BY <1>10, GiveBackKeeps DEF Leave, Refuse, Undisturbed
<1>11. ASSUME NEW t \in Turns, HandBack(t) PROVE Goal'
    <2>1. turn[t].pc = "handback" /\ Key(t) \in Keys /\ lock' = lock
        BY <1>11, LeftoverType DEF HandBack, Undisturbed
    <2>2. CASE Len(turn[t].hand) = 1
        <3>1. turn'[t].pc = "free" /\ \A u \in Turns \ {t} : Kept(u)
            BY <1>11, <2>2 DEF HandBack, Kept, Idle, TypeOK
        <3>2. active' = Delisted(t)
            BY <1>11, <2>2 DEF HandBack
        <3>3. /\ Unique(active'[Key(t)]) /\ t \notin ToSet(active'[Key(t)])
              /\ ToSet(active'[Key(t)]) \subseteq ToSet(active[Key(t)])
              /\ \A k \in Keys \ {Key(t)} : active'[k] = active[k]
            BY <2>1, <3>2, RemovedFirst DEF Delisted, TypeOK, NoneOutlives, ListedOK
        <3>4. \A k \in Keys : t \notin ToSet(active'[k]) \cup ToSet(lock[k])
            BY <2>1, <3>3 DEF NoneOutlives, ListedOK, LockOK
        <3>5. \A k \in Keys : Unique(active'[k]) /\ ToSet(active'[k]) \subseteq ToSet(active[k])
            BY <3>3 DEF NoneOutlives, ListedOK
        <3>6. QED
            BY <2>1, <3>1, <3>4, <3>5, GoneKeeps
    <2>3. CASE Len(turn[t].hand) # 1
        <3>1. \A u \in Turns : Kept(u)
            <4>1. turn' = [turn EXCEPT ![t].hand = Tail(@)]
                BY <1>11, <2>3 DEF HandBack
            <4>2. QED
                BY <4>1 DEF Kept, TypeOK, Task, TurnType
        <3>2. QED
            BY <1>11, <2>3, <3>1, AllKept DEF HandBack
    <2>4. QED
        BY <2>2, <2>3
<1>12. ASSUME NEW t \in Turns, UnwindHandBack(t) \/ DropUnstarted(t) PROVE Goal'
    <2>1. /\ turn'[t].pc = "free" /\ \A u \in Turns \ {t} : Kept(u)
          /\ turn[t].pc \in {"handback", "created"} /\ turn[t].doomed
          /\ UNCHANGED <<active, lock>>
        <3>1. CASE UnwindHandBack(t)
            BY <3>1 DEF UnwindHandBack, Kept, Idle, TypeOK
        <3>2. CASE DropUnstarted(t)
            <4> DEFINE y == [Idle EXCEPT !.inject = turn[t].inject, !.deferred = turn[t].deferred]
            <4>1. y.pc = "free"
                BY DEF Idle
            <4>2. turn' = [turn EXCEPT ![t] = y]
                BY <3>2 DEF DropUnstarted
            <4> HIDE DEF y
            <4>3. QED
                BY <3>2, <4>1, <4>2 DEF DropUnstarted, Kept, TypeOK
        <3>3. QED
            BY <1>12, <3>1, <3>2
    <2>2. \A k \in Keys : t \notin ToSet(active'[k]) \cup ToSet(lock[k])
        BY <2>1 DEF NoneOutlives, ListedOK, LockOK
    <2>3. \A k \in Keys : Unique(active'[k])
        BY <2>1 DEF NoneOutlives, ListedOK
    <2>4. QED
        BY <2>1, <2>2, <2>3, GoneKeeps
<1>13. CASE BeginDrain
    <2>1. \A t \in Turns : turn'[t].pc = turn[t].pc /\ turn'[t].opener = turn[t].opener
        BY <1>13 DEF BeginDrain, TypeOK, Task, TurnType
    <2>2. lock' = lock /\ active' = Nothing
        BY <1>13 DEF BeginDrain
    <2>3. ListedOK'
        BY <2>2, EmptyQueue DEF ListedOK, Nothing, Unique, ToSet
    <2>4. LockOK'
        BY <1>0, <2>1, <2>2 DEF NoneOutlives, LockOK, Key
    <2>5. HeadInside'
        BY <2>1, <2>2 DEF HeadInside, InBody, Holds, Key
    <2>6. QED
        BY <2>3, <2>4, <2>5 DEF NoneOutlives
<1>14. CASE EndDrain
    <2>1. \A t \in Turns : Kept(t)
        BY <1>14 DEF EndDrain, Kept, TypeOK, Task, TurnType
    <2>2. QED
        BY <1>14, <2>1, AllKept DEF EndDrain
<1>15. CASE Restart
    BY <1>15, EmptyQueue DEF Restart, NoneOutlives, ListedOK, LockOK, HeadInside, InBody,
                             Idle, Nothing, ToSet, Unique
<1>16. QED
    <2>1. ASSUME Replay \/ StopIntake \/ StopDone \/ UNCHANGED vars
                 \/ (\E k \in Keys, kind \in Kinds : Publish(k, kind))
                 \/ (\E k \in Keys : ConsumeCommand(k))
          PROVE  UNCHANGED <<turn, active, lock>>
        BY <2>1 DEF Replay, StopIntake, StopDone, vars, Publish, ConsumeCommand
    <2>2. QED
        BY <1>1, <1>2, <1>3, <1>4, <1>5, <1>7, <1>8, <1>9, <1>10, <1>11, <1>12, <1>13,
           <1>14, <1>15, <2>1 DEF Next, Consume, TurnStep

---------------------------------------------------------------------------
(* The theorems                                                            *)

LEMMA LoopInvariant == Spec => [](TypeOK /\ NoneOutlives /\ HeadInside)
<1>1. Init => TypeOK /\ NoneOutlives /\ HeadInside
    BY TypeInit, RouteInit
<1>2. TypeOK /\ NoneOutlives /\ HeadInside /\ [Next]_vars
        => TypeOK' /\ NoneOutlives' /\ HeadInside'
    BY TypeStep, RouteStep
<1>3. QED
    BY <1>1, <1>2, PTL DEF Spec

\* The types: the queues keep to their cap, and every task at work has a message.
THEOREM LoopTypeOK == Spec => []TypeOK
BY LoopInvariant, PTL

\* What /stop and the drain find listed for a session (_active_tasks) are its own
\* tasks, each once and none of them over, and so are those in its lock.
THEOREM ListedAreAlive == Spec => []NoneOutlives
BY LoopInvariant, PTL

\* Both together, as the run loop_lock checks them.
THEOREM LoopIsConsistent == Spec => []LoopConsistent
<1>1. TypeOK /\ NoneOutlives => LoopConsistent
    BY DEF LoopConsistent
<1>2. QED
    BY <1>1, LoopInvariant, PTL

\* However many tasks a full queue or an orphaned one made compete for a session,
\* one at a time is inside a turn: `async with lock` in _dispatch.
THEOREM SessionsSerialised == Spec => []OneTurnInside
<1>1. HeadInside => OneTurnInside
    BY DEF HeadInside, OneTurnInside, Holds
<1>2. QED
    BY <1>1, LoopInvariant, PTL

---------------------------------------------------------------------------
(* What the messages of a sequence become when it is cut or extended       *)

\* Who is in it, and whether some message is in it twice.
NoTwins(s) == \A i, j \in 1..Len(s) : s[i].id = s[j].id => i = j
Ours(s, r) == IdsOf(s) \cap IdsOf(r) = {}

LEMMA InSeq ==
    ASSUME NEW s \in Seq(Message)
    PROVE  /\ \A i \in 1..Len(s) : s[i] \in ToSet(s)
           /\ \A m \in ToSet(s) : \E i \in 1..Len(s) : m = s[i]
BY DEF ToSet

LEMMA IdsOfSet ==
    ASSUME NEW s \in Seq(Message)
    PROVE  IdsOf(s) = {m.id : m \in ToSet(s)} /\ ToSet(s) \subseteq Message
BY DEF IdsOf, ToSet

LEMMA NoMessages == IdsOf(<<>>) = {} /\ ToSet(<<>>) = {} /\ NoTwins(<<>>)
<1>1. Len(<<>>) = 0 /\ DOMAIN <<>> = {}
    OBVIOUS
<1>2. QED
    BY <1>1 DEF IdsOf, ToSet, NoTwins

LEMMA OneMessage ==
    ASSUME NEW m \in Message
    PROVE  <<m>> \in Seq(Message) /\ IdsOf(<<m>>) = {m.id} /\ ToSet(<<m>>) = {m} /\ NoTwins(<<m>>)
<1>1. <<m>> \in Seq(Message) /\ Len(<<m>>) = 1 /\ DOMAIN <<m>> = 1..1 /\ <<m>>[1] = m
    OBVIOUS
<1>2. QED
    BY <1>1 DEF IdsOf, ToSet, NoTwins

LEMMA Joined ==
    ASSUME NEW s \in Seq(Message), NEW r \in Seq(Message)
    PROVE  /\ s \o r \in Seq(Message)
           /\ ToSet(s \o r) = ToSet(s) \cup ToSet(r)
           /\ IdsOf(s \o r) = IdsOf(s) \cup IdsOf(r)
           /\ NoTwins(s) /\ NoTwins(r) /\ Ours(s, r) => NoTwins(s \o r)
<1> DEFINE q == s \o r
           m == Len(s)
           n == Len(r)
<1>1. /\ q \in Seq(Message) /\ Len(q) = m + n /\ m \in Nat /\ n \in Nat
      /\ \A i \in 1..m : q[i] = s[i]
      /\ \A i \in 1..(m + n) : i > m => q[i] = r[i - m]
    BY ConcatProperties
<1> HIDE DEF q
<1>2. \A i \in 1..n : m + i \in 1..(m + n) /\ m + i > m /\ (m + i) - m = i
    BY <1>1
<1>3. \A i \in 1..n : q[m + i] = r[i]
    BY <1>1, <1>2
<1>4. \A i \in 1..(m + n) : i \in 1..m \/ i - m \in 1..n
    BY <1>1
<1>5. 1..m \subseteq 1..(m + n)
    BY <1>1
<1>6. ToSet(q) = ToSet(s) \cup ToSet(r)
    <2>1. ToSet(s) \cup ToSet(r) \subseteq ToSet(q)
        <3>1. \A i \in 1..m : q[i] = s[i] /\ i \in 1..Len(q)
            BY <1>1, <1>5
        <3>2. \A i \in 1..n : q[m + i] = r[i] /\ m + i \in 1..Len(q)
            BY <1>1, <1>2, <1>3
        <3>3. ToSet(s) \subseteq ToSet(q)
            BY <1>1, <3>1, InSeq
        <3>4. ASSUME NEW x \in ToSet(r) PROVE x \in ToSet(q)
            <4>1. PICK i \in 1..n : x = r[i]
                BY InSeq
            <4>2. q[m + i] \in ToSet(q) /\ q[m + i] = x
                BY <1>1, <3>2, <4>1, InSeq
            <4>3. QED
                BY <4>2
        <3>5. QED
            BY <3>3, <3>4
    <2>2. ASSUME NEW i \in 1..(m + n) PROVE q[i] \in ToSet(s) \cup ToSet(r)
        <3>1. CASE i \in 1..m
            BY <1>1, <3>1, InSeq
        <3>2. CASE i \notin 1..m
            <4>1. i > m /\ i - m \in 1..n
                BY <1>1, <3>2
            <4>2. QED
                BY <1>1, <4>1, InSeq
        <3>3. QED
            BY <3>1, <3>2
    <2>3. ToSet(q) \subseteq ToSet(s) \cup ToSet(r)
        BY <1>1, <2>2, InSeq
    <2>4. QED
        BY <2>1, <2>3
<1>7. IdsOf(q) = IdsOf(s) \cup IdsOf(r)
    <2>1. IdsOf(q) = {x.id : x \in ToSet(s) \cup ToSet(r)}
        BY <1>1, <1>6, IdsOfSet
    <2>2. IdsOf(s) = {x.id : x \in ToSet(s)} /\ IdsOf(r) = {x.id : x \in ToSet(r)}
        BY IdsOfSet
    <2>3. QED
        BY <2>1, <2>2
<1>8. ASSUME NoTwins(s), NoTwins(r), Ours(s, r) PROVE NoTwins(q)
    <2>1. \A i \in 1..m : \A j \in 1..n : s[i].id # r[j].id
        BY <1>8 DEF Ours, IdsOf
    <2>2. SUFFICES ASSUME NEW i \in 1..(m + n), NEW j \in 1..(m + n), q[i].id = q[j].id
                   PROVE  i = j
        BY <1>1 DEF NoTwins
    <2>3. CASE i \in 1..m /\ j \in 1..m
        BY <1>1, <1>8, <2>2, <2>3 DEF NoTwins
    <2>4. CASE i \notin 1..m /\ j \notin 1..m
        <3>1. i > m /\ j > m /\ i - m \in 1..n /\ j - m \in 1..n
            BY <1>1, <2>4
        <3>2. r[i - m].id = r[j - m].id
            BY <1>1, <2>2, <3>1
        <3>3. i - m = j - m
            BY <1>8, <3>1, <3>2 DEF NoTwins
        <3>4. QED
            BY <1>1, <3>3
    <2>5. CASE i \in 1..m /\ j \notin 1..m
        <3>1. j > m /\ j - m \in 1..n
            BY <1>1, <2>5
        <3>2. QED
            BY <1>1, <2>1, <2>2, <2>5, <3>1
    <2>6. CASE i \notin 1..m /\ j \in 1..m
        <3>1. i > m /\ i - m \in 1..n
            BY <1>1, <2>6
        <3>2. QED
            BY <1>1, <2>1, <2>2, <2>6, <3>1
    <2>7. QED
        BY <2>3, <2>4, <2>5, <2>6
<1>9. QED
    BY <1>1, <1>6, <1>7, <1>8 DEF q

LEMMA Appended ==
    ASSUME NEW s \in Seq(Message), NEW m \in Message
    PROVE  /\ Append(s, m) \in Seq(Message)
           /\ ToSet(Append(s, m)) = ToSet(s) \cup {m}
           /\ IdsOf(Append(s, m)) = IdsOf(s) \cup {m.id}
           /\ NoTwins(s) /\ m.id \notin IdsOf(s) => NoTwins(Append(s, m))
<1>1. Append(s, m) = s \o <<m>>
    BY AppendIsConcat
<1>2. m.id \notin IdsOf(s) => Ours(s, <<m>>)
    BY OneMessage DEF Ours
<1> DEFINE r == <<m>>
<1>3. r \in Seq(Message) /\ IdsOf(r) = {m.id} /\ ToSet(r) = {m} /\ NoTwins(r) /\ Append(s, m) = s \o r
    BY <1>1, OneMessage
<1>4. m.id \notin IdsOf(s) => Ours(s, r)
    BY <1>2
<1> HIDE DEF r
<1>5. /\ s \o r \in Seq(Message)
      /\ ToSet(s \o r) = ToSet(s) \cup ToSet(r)
      /\ IdsOf(s \o r) = IdsOf(s) \cup IdsOf(r)
      /\ NoTwins(s) /\ NoTwins(r) /\ Ours(s, r) => NoTwins(s \o r)
    BY <1>3, Joined
<1>6. QED
    BY <1>3, <1>4, <1>5

\* Cut in two: the parts hold the whole, and share nothing if it has no twins.
LEMMA Cut ==
    ASSUME NEW s \in Seq(Message), NEW n \in 0..Len(s)
    PROVE  LET a == SubSeq(s, 1, n)
               b == SubSeq(s, n + 1, Len(s))
           IN  /\ a \in Seq(Message) /\ b \in Seq(Message) /\ Len(a) = n /\ Len(b) = Len(s) - n
               /\ ToSet(s) = ToSet(a) \cup ToSet(b)
               /\ IdsOf(s) = IdsOf(a) \cup IdsOf(b)
               /\ NoTwins(s) => NoTwins(a) /\ NoTwins(b) /\ Ours(a, b)
<1> DEFINE a == SubSeq(s, 1, n)
           b == SubSeq(s, n + 1, Len(s))
<1>1. a \in Seq(Message) /\ Len(a) = n /\ \A i \in 1..n : a[i] = s[i]
    OBVIOUS
<1>2. b \in Seq(Message) /\ Len(b) = Len(s) - n /\ \A i \in 1..(Len(s) - n) : b[i] = s[n + i]
    OBVIOUS
<1>3. Len(s) \in Nat /\ n \in Nat /\ n <= Len(s)
    OBVIOUS
<1> HIDE DEF a, b
<1>4. \A i \in 1..Len(s) : i \in 1..n \/ (i - n \in 1..(Len(s) - n) /\ n + (i - n) = i)
    BY <1>3
<1>5. /\ \A i \in 1..n : i \in 1..Len(s)
      /\ \A i \in 1..(Len(s) - n) : n + i \in 1..Len(s) /\ n + i \notin 1..n
    BY <1>3
<1>6. ToSet(s) = ToSet(a) \cup ToSet(b)
    <2>1. ToSet(a) \cup ToSet(b) \subseteq ToSet(s)
        <3>1. ToSet(a) \subseteq ToSet(s)
            BY <1>1, <1>5, InSeq
        <3>2. ToSet(b) \subseteq ToSet(s)
            BY <1>2, <1>5, InSeq
        <3>3. QED
            BY <3>1, <3>2
    <2>2. ASSUME NEW i \in 1..Len(s) PROVE s[i] \in ToSet(a) \cup ToSet(b)
        <3>1. CASE i \in 1..n
            BY <1>1, <3>1, InSeq
        <3>2. CASE i - n \in 1..(Len(s) - n) /\ n + (i - n) = i
            <4>1. b[i - n] = s[i]
                BY <1>2, <3>2
            <4>2. QED
                BY <1>2, <3>2, <4>1, InSeq
        <3>3. QED
            BY <1>4, <3>1, <3>2
    <2>3. ToSet(s) \subseteq ToSet(a) \cup ToSet(b)
        BY <2>2, InSeq
    <2>4. QED
        BY <2>1, <2>3
<1>7. IdsOf(s) = IdsOf(a) \cup IdsOf(b)
    <2>1. IdsOf(s) = {x.id : x \in ToSet(a) \cup ToSet(b)}
        BY <1>6, IdsOfSet
    <2>2. IdsOf(a) = {x.id : x \in ToSet(a)} /\ IdsOf(b) = {x.id : x \in ToSet(b)}
        BY <1>1, <1>2, IdsOfSet
    <2>3. QED
        BY <2>1, <2>2
<1>8. ASSUME NoTwins(s) PROVE NoTwins(a) /\ NoTwins(b) /\ Ours(a, b)
    <2>1. NoTwins(a)
        BY <1>1, <1>5, <1>8 DEF NoTwins
    <2>2. NoTwins(b)
        <3>1. SUFFICES ASSUME NEW i \in 1..(Len(s) - n), NEW j \in 1..(Len(s) - n), b[i].id = b[j].id
                       PROVE  i = j
            BY <1>2 DEF NoTwins
        <3>2. s[n + i].id = s[n + j].id /\ n + i \in 1..Len(s) /\ n + j \in 1..Len(s)
            BY <1>2, <1>5, <3>1
        <3>3. n + i = n + j
            BY <1>8, <3>2 DEF NoTwins
        <3>4. QED
            BY <1>3, <3>3
    <2>3. ASSUME NEW i \in 1..n, NEW j \in 1..(Len(s) - n) PROVE a[i].id # b[j].id
        <3>1. a[i] = s[i] /\ b[j] = s[n + j] /\ i \in 1..Len(s) /\ n + j \in 1..Len(s) /\ i # n + j
            BY <1>1, <1>2, <1>5
        <3>2. QED
            BY <1>8, <3>1 DEF NoTwins
    <2>4. Ours(a, b)
        BY <1>1, <1>2, <2>3 DEF Ours, IdsOf
    <2>5. QED
        BY <2>1, <2>2, <2>4
<1>9. QED
    BY <1>1, <1>2, <1>6, <1>7, <1>8 DEF a, b

LEMMA TakeRest ==
    ASSUME NEW s \in Seq(Message), NEW n \in Nat
    PROVE  /\ Take(s, n) \in Seq(Message) /\ Rest(s, n) \in Seq(Message)
           /\ Len(Take(s, n)) = IF n < Len(s) THEN n ELSE Len(s)
           /\ ToSet(s) = ToSet(Take(s, n)) \cup ToSet(Rest(s, n))
           /\ IdsOf(s) = IdsOf(Take(s, n)) \cup IdsOf(Rest(s, n))
           /\ NoTwins(s) => NoTwins(Take(s, n)) /\ NoTwins(Rest(s, n)) /\ Ours(Take(s, n), Rest(s, n))
<1> DEFINE c == IF n < Len(s) THEN n ELSE Len(s)
           b == SubSeq(s, c + 1, Len(s))
<1>1. c \in 0..Len(s) /\ Take(s, n) = SubSeq(s, 1, c) /\ Len(s) \in Nat
    BY DEF Take
<1>2. Rest(s, n) = b
    <2>1. CASE n < Len(s)
        BY <2>1 DEF Rest
    <2>2. CASE ~(n < Len(s))
        BY <2>2 DEF Rest
    <2>3. QED
        BY <2>1, <2>2
<1> HIDE DEF c
<1>3. QED
    BY <1>1, <1>2, Cut DEF c

LEMMA HeadTail ==
    ASSUME NEW s \in Seq(Message), s # <<>>
    PROVE  /\ Head(s) \in Message /\ Tail(s) \in Seq(Message)
           /\ ToSet(s) = {Head(s)} \cup ToSet(Tail(s))
           /\ IdsOf(s) = {Head(s).id} \cup IdsOf(Tail(s))
           /\ NoTwins(s) => NoTwins(Tail(s)) /\ Head(s).id \notin IdsOf(Tail(s))
<1> DEFINE a == SubSeq(s, 1, 1)
           b == SubSeq(s, 2, Len(s))
<1>1. 1 \in 0..Len(s) /\ Head(s) \in Message /\ 1 + 1 = 2
    OBVIOUS
<1>2. a = <<Head(s)>> /\ Tail(s) = b
    <2>1. a \in Seq(Message) /\ Len(a) = 1 /\ a[1] = s[1] /\ s[1] = Head(s)
        OBVIOUS
    <2> DEFINE c == <<Head(s)>>
    <2>5. c \in Seq(Message) /\ Len(c) = 1 /\ c[1] = Head(s)
        BY <1>1
    <2> HIDE DEF a, c
    <2>6. a = c
        <3>1. \A i \in 1..Len(a) : a[i] = c[i]
            BY <2>1, <2>5
        <3>2. QED
            BY <2>1, <2>5, <3>1, SeqEqual
    <2>2. a = <<Head(s)>>
        BY <2>6 DEF c
    <2>3. Tail(s) = b
        BY TailIsSubSeq
    <2>4. QED
        BY <2>2, <2>3
<1>3. /\ a \in Seq(Message) /\ b \in Seq(Message)
      /\ ToSet(s) = ToSet(a) \cup ToSet(b) /\ IdsOf(s) = IdsOf(a) \cup IdsOf(b)
      /\ NoTwins(s) => NoTwins(a) /\ NoTwins(b) /\ Ours(a, b)
    BY <1>1, Cut
<1> HIDE DEF a, b
<1>4. ToSet(a) = {Head(s)} /\ IdsOf(a) = {Head(s).id}
    BY <1>1, <1>2, OneMessage
<1>5. QED
    BY <1>1, <1>2, <1>3, <1>4 DEF Ours

\* What a turn takes at its final response comes out of its two queues.
LEMMA TakenFromBoth ==
    ASSUME NEW a \in Seq(Message), NEW b \in Seq(Message), NEW n \in Nat
    PROVE  LET t == Take(a \o b, n)
               ra == Rest(a, n)
               rb == Rest(b, n - Len(Take(a, n)))
           IN  /\ t \in Seq(Message) /\ ra \in Seq(Message) /\ rb \in Seq(Message)
               /\ ToSet(a) \cup ToSet(b) = ToSet(t) \cup ToSet(ra) \cup ToSet(rb)
               /\ IdsOf(a) \cup IdsOf(b) = IdsOf(t) \cup IdsOf(ra) \cup IdsOf(rb)
               /\ IdsOf(ra) \subseteq IdsOf(a) /\ IdsOf(rb) \subseteq IdsOf(b)
               /\ NoTwins(a) /\ NoTwins(b) /\ Ours(a, b) =>
                    NoTwins(t) /\ NoTwins(ra) /\ NoTwins(rb) /\ Ours(t, ra) /\ Ours(t, rb)
<1> DEFINE ta == Take(a, n)
           ra == Rest(a, n)
           m  == n - Len(ta)
           tb == Take(b, m)
           rb == Rest(b, m)
           t  == Take(a \o b, n)
<1>1. /\ ta \in Seq(Message) /\ ra \in Seq(Message)
      /\ Len(ta) = IF n < Len(a) THEN n ELSE Len(a)
      /\ ToSet(a) = ToSet(ta) \cup ToSet(ra)
      /\ IdsOf(a) = IdsOf(ta) \cup IdsOf(ra)
      /\ NoTwins(a) => NoTwins(ta) /\ NoTwins(ra) /\ Ours(ta, ra)
    BY TakeRest
<1>2. m \in Nat
    BY <1>1
<1>3. /\ tb \in Seq(Message) /\ rb \in Seq(Message)
      /\ Len(tb) = IF m < Len(b) THEN m ELSE Len(b)
      /\ ToSet(b) = ToSet(tb) \cup ToSet(rb)
      /\ IdsOf(b) = IdsOf(tb) \cup IdsOf(rb)
      /\ NoTwins(b) => NoTwins(tb) /\ NoTwins(rb) /\ Ours(tb, rb)
    BY <1>2, TakeRest
<1>4. t = ta \o tb
    <2> DEFINE q == a \o b
               w == ta \o tb
               x == Len(a)
               y == Len(b)
    <2>1. /\ q \in Seq(Message) /\ Len(q) = x + y /\ x \in Nat /\ y \in Nat
          /\ \A i \in 1..(x + y) : q[i] = IF i <= x THEN a[i] ELSE b[i - x]
        BY ConcatProperties
    <2>2. /\ w \in Seq(Message) /\ Len(w) = Len(ta) + Len(tb)
          /\ \A i \in 1..(Len(ta) + Len(tb)) : w[i] = IF i <= Len(ta) THEN ta[i] ELSE tb[i - Len(ta)]
        BY <1>1, <1>3, ConcatProperties
    <2> HIDE DEF q, w
    <2>3. /\ t \in Seq(Message) /\ Len(t) = (IF n < x + y THEN n ELSE x + y)
          /\ \A i \in 1..Len(t) : t[i] = q[i]
        BY <2>1 DEF Take, q
    <2>4. \A i \in 1..Len(ta) : ta[i] = a[i]
        BY DEF Take
    <2>5. \A i \in 1..Len(tb) : tb[i] = b[i]
        BY <1>2 DEF Take
    <2> HIDE DEF ta, tb, t
    <2>6. /\ Len(ta) = IF n < x THEN n ELSE x
          /\ Len(tb) = IF n - Len(ta) < y THEN n - Len(ta) ELSE y
          /\ Len(t) = Len(ta) + Len(tb)
        <3>1. Len(ta) = IF n < x THEN n ELSE x
            BY <1>1
        <3>2. Len(tb) = IF m < y THEN m ELSE y
            BY <1>3
        <3>3. m = n - Len(ta) /\ n \in Nat /\ Len(ta) \in Nat
            BY <1>1, <2>1, <3>1
        <3> HIDE DEF x, y, m
        <3>4. CASE n < x
            <4>1. Len(ta) = n /\ m = 0 /\ Len(tb) = 0
                BY <2>1, <3>1, <3>2, <3>3, <3>4
            <4>2. QED
                BY <2>1, <2>3, <3>1, <3>2, <3>3, <3>4, <4>1
        <3>5. CASE ~(n < x)
            <4>1. Len(ta) = x /\ m = n - x
                BY <2>1, <3>1, <3>3, <3>5
            <4>2. QED
                BY <2>1, <2>3, <3>1, <3>2, <3>3, <3>5, <4>1
        <3>6. QED
            BY <3>4, <3>5
    <2> HIDE DEF x, y, m
    <2>7. ASSUME NEW i \in 1..Len(t) PROVE t[i] = w[i]
        <3>1. CASE i <= Len(ta)
            <4>1. i \in 1..Len(ta) /\ i <= x /\ i \in 1..(x + y)
                BY <2>1, <2>6, <3>1
            <4>2. QED
                BY <2>1, <2>2, <2>3, <2>4, <2>6, <4>1, <3>1
        <3>2. CASE ~(i <= Len(ta))
            <4>1. Len(ta) = x /\ i - x \in 1..Len(tb) /\ ~(i <= x) /\ i \in 1..(x + y)
                BY <2>1, <2>6, <3>2
            <4>2. QED
                BY <2>1, <2>2, <2>3, <2>5, <2>6, <4>1
        <3>3. QED
            BY <3>1, <3>2
    <2>8. t = w
        BY <2>2, <2>3, <2>6, <2>7, SeqEqual
    <2>9. QED
        BY <2>8 DEF w
<1> HIDE DEF ta, ra, m, tb, rb, t
<1>5. /\ t \in Seq(Message) /\ ToSet(t) = ToSet(ta) \cup ToSet(tb) /\ IdsOf(t) = IdsOf(ta) \cup IdsOf(tb)
      /\ NoTwins(ta) /\ NoTwins(tb) /\ Ours(ta, tb) => NoTwins(t)
    BY <1>1, <1>3, <1>4, Joined
<1>6. ASSUME NoTwins(a), NoTwins(b), Ours(a, b)
      PROVE  NoTwins(t) /\ NoTwins(ra) /\ NoTwins(rb) /\ Ours(t, ra) /\ Ours(t, rb)
    BY <1>1, <1>3, <1>5, <1>6 DEF Ours
<1>7. /\ ToSet(a) \cup ToSet(b) = ToSet(t) \cup ToSet(ra) \cup ToSet(rb)
      /\ IdsOf(a) \cup IdsOf(b) = IdsOf(t) \cup IdsOf(ra) \cup IdsOf(rb)
      /\ IdsOf(ra) \subseteq IdsOf(a) /\ IdsOf(rb) \subseteq IdsOf(b)
    BY <1>1, <1>3, <1>5
<1>8. QED
    BY <1>1, <1>3, <1>5, <1>6, <1>7 DEF ta, ra, m, rb, t

---------------------------------------------------------------------------
(* Whose queues a session's follow-ups join                                *)

Early == gateway \in {"starting", "serving", "closing"}

\* A session's queues belong to its task, or to one dropped before its first step.
RoutedOK ==
    \A k \in Keys : registered[k] # None =>
        /\ turn[registered[k]].pc = "free" \/ (Live(registered[k]) /\ Key(registered[k]) = k)
        /\ \A j \in Keys : registered[j] = registered[k] => j = k
\* Until the drain begins a task at work is listed, unless it was cancelled; from
\* then on they all are.
ListedUntilDrain ==
    \A t \in Turns : Live(t) /\ ~turn[t].doomed => Early /\ t \in ToSet(active[Key(t)])
\* What the phases of a shutdown leave behind.
PhaseOK ==
    /\ gateway \in {"drained", "starting"} => \A k \in Keys : registered[k] = None
    /\ gateway = "starting" => \A t \in Turns : turn[t].pc = "free"
    /\ gateway # "draining" => owed = Nothing
Routing == RoutedOK /\ ListedUntilDrain /\ PhaseOK

\* A step that neither starts nor ends a turn.
Steady ==
    /\ UNCHANGED <<registered, active>>
    /\ \A t \in Turns : /\ Live(t)' <=> Live(t)
                        /\ turn'[t].pc = "free" <=> turn[t].pc = "free"
                        /\ turn'[t].opener = turn[t].opener /\ turn'[t].doomed = turn[t].doomed

\* What a task still registered may do: end, or stay at work for its session.
Stays(t) ==
    \/ turn'[t].pc = "free"
    \/ /\ turn[t].pc # "free" /\ turn'[t].opener = turn[t].opener
       /\ Live(t) => turn'[t].pc \in {"created", "waiting", "running", "ending"}

LEMMA RoutedKept ==
    ASSUME TypeOK, RoutedOK,
           \A k \in Keys : \/ registered'[k] = None
                           \/ registered'[k] = registered[k] /\ Stays(registered[k])
    PROVE  RoutedOK'
<1> SUFFICES ASSUME NEW k \in Keys, registered'[k] # None
             PROVE  /\ turn'[registered'[k]].pc = "free"
                       \/ (Live(registered[k])' /\ Key(registered[k])' = k)
                    /\ \A j \in Keys : registered'[j] = registered'[k] => j = k
    BY DEF RoutedOK
<1> DEFINE t == registered[k]
<1>1. t # None /\ registered'[k] = t /\ Stays(t)
    OBVIOUS
<1>2. /\ turn[t].pc = "free" \/ (Live(t) /\ Key(t) = k)
      /\ \A j \in Keys : registered[j] = t => j = k
    BY <1>1 DEF RoutedOK
<1>3. \A j \in Keys : registered'[j] = t => registered[j] = t
    BY <1>1
<1>4. turn'[t].pc = "free" \/ (turn'[t].pc \in {"created", "waiting", "running", "ending"} /\ Key(t)' = k)
    BY <1>1, <1>2 DEF Stays, Key
<1> HIDE DEF t
<1>5. QED
    BY <1>1, <1>2, <1>3, <1>4 DEF t, Live, Key

LEMMA SteadyKeeps ==
    ASSUME TypeOK, Routing, Steady, UNCHANGED <<gateway, owed>>
    PROVE  Routing'
<1>1. RoutedOK'
    <2>1. \A k \in Keys : registered[k] = None \/ Stays(registered[k])
        BY DEF TypeOK, Steady, Stays, Live
    <2>2. QED
        BY <2>1, RoutedKept DEF Routing, Steady
<1>2. ListedUntilDrain'
    BY DEF Routing, ListedUntilDrain, Steady, Key, Early
<1>3. PhaseOK'
    BY DEF Routing, PhaseOK, Steady
<1>4. QED
    BY <1>1, <1>2, <1>3 DEF Routing

\* Removing one element leaves the others.
LEMMA OthersStay ==
    ASSUME NEW S, NEW s \in Seq(S), NEW e, Unique(s), NEW x \in ToSet(s), x # e
    PROVE  x \in ToSet(RemoveFirst(s, e))
<1>1. CASE \A i \in 1..Len(s) : s[i] # e
    BY <1>1 DEF RemoveFirst
<1>2. ASSUME NEW n \in 1..Len(s), s[n] = e
      PROVE  x \in ToSet(RemoveFirst(s, e))
    <2> DEFINE r == RemoveAt(s, n)
    <2>1. /\ r \in Seq(S) /\ Len(r) = Len(s) - 1
          /\ \A i \in 1..Len(r) : r[i] = IF i < n THEN s[i] ELSE s[i + 1]
        BY RemovedAt
    <2>2. RemoveFirst(s, e) = r
        <3>1. {i \in 1..Len(s) : s[i] = e} = {n}
            BY <1>2 DEF Unique
        <3>2. Min({n}) = n
            BY DEF Min
        <3>3. SelectInSeq(s, LAMBDA v : v = e) = n
            BY <3>1, <3>2 DEF SelectInSeq
        <3>4. QED
            BY <1>2, <3>3 DEF RemoveFirst
    <2> HIDE DEF r
    <2>3. PICK j \in 1..Len(s) : x = s[j]
        BY DEF ToSet
    <2>4. j # n
        BY <1>2, <2>3
    <2>5. \E i \in 1..Len(r) : r[i] = x
        <3>1. CASE j < n
            <4>1. j \in 1..Len(r) /\ r[j] = x
                BY <2>1, <2>3, <3>1
            <4>2. QED
                BY <4>1
        <3>2. CASE j > n
            <4>1. j - 1 \in 1..Len(r) /\ ~(j - 1 < n) /\ (j - 1) + 1 = j
                BY <2>1, <3>2
            <4>2. r[j - 1] = x
                BY <2>1, <2>3, <4>1
            <4>3. QED
                BY <4>1, <4>2
        <3>3. QED
            BY <2>4, <3>1, <3>2
    <2>6. QED
        BY <2>1, <2>2, <2>5 DEF ToSet
<1>3. QED
    BY <1>1, <1>2

\* The end of a turn, for the sender's queues and everybody's tasks.
LEMMA GiveBackIs ==
    ASSUME TypeOK, NoneOutlives, NEW t \in Turns, turn[t].pc # "free", GiveBack(t)
    PROVE  /\ Key(t) \in Keys /\ Leftover(t) \in Seq(Message)
           /\ registered' = [registered EXCEPT ![Key(t)] = None]
           /\ \A u \in Turns \ {t} :
                 /\ turn'[u].pc = turn[u].pc /\ turn'[u].opener = turn[u].opener
                 /\ turn'[u].doomed = turn[u].doomed /\ turn'[u].pulled = turn[u].pulled
                 /\ turn'[u].hand = turn[u].hand
           /\ \A u \in Turns : registered[Key(t)] = u =>
                 turn'[u].inject = <<>> /\ turn'[u].deferred = <<>>
           /\ \A u \in Turns \ {t} : registered[Key(t)] # u =>
                 turn'[u].inject = turn[u].inject /\ turn'[u].deferred = turn[u].deferred
           /\ UNCHANGED bus
           /\ \/ /\ Leftover(t) # <<>> /\ UNCHANGED active
                 /\ turn'[t].pc = "handback" /\ ~turn'[t].doomed
                 /\ turn'[t].opener = turn[t].opener /\ turn'[t].pulled = turn[t].pulled
                 /\ turn'[t].hand = Leftover(t)
                 /\ registered[Key(t)] # t =>
                       turn'[t].inject = turn[t].inject /\ turn'[t].deferred = turn[t].deferred
              \/ /\ turn'[t] = Idle /\ Leftover(t) = <<>>
                 /\ \A k \in Keys : \A u \in ToSet(active[k]) \ {t} : u \in ToSet(active'[k])
<1>1. Key(t) \in Keys /\ Leftover(t) \in Seq(Message)
    BY LeftoverType
<1>2. registered' = [registered EXCEPT ![Key(t)] = None]
    BY DEF GiveBack, Unregistered
<1> DEFINE E == Emptied(Key(t))
<1>3. /\ E \in [Turns -> Task]
      /\ \A u \in Turns :
            /\ E[u].pc = turn[u].pc /\ E[u].opener = turn[u].opener
            /\ E[u].doomed = turn[u].doomed /\ E[u].pulled = turn[u].pulled
            /\ E[u].hand = turn[u].hand
            /\ registered[Key(t)] = u => E[u].inject = <<>> /\ E[u].deferred = <<>>
            /\ registered[Key(t)] # u => E[u].inject = turn[u].inject /\ E[u].deferred = turn[u].deferred
    <2>1. E \in [Turns -> Task]
        BY LeftoverType
    <2>2. \A u \in Turns : E[u] = IF registered[Key(t)] = u
                                  THEN [turn[u] EXCEPT !.inject = <<>>, !.deferred = <<>>] ELSE turn[u]
        BY DEF Emptied
    <2>3. \A u \in Turns : turn[u] \in TurnType
        BY DEF TypeOK, Task
    <2> HIDE DEF E
    <2>4. QED
        BY <2>1, <2>2, <2>3 DEF TurnType
<1> HIDE DEF E
<1>4. CASE Leftover(t) # <<>>
    <2> DEFINE y == [E[t] EXCEPT !.pc = "handback", !.hand = Leftover(t), !.doomed = FALSE]
    <2>1. /\ y.pc = "handback" /\ ~y.doomed /\ y.opener = turn[t].opener /\ y.hand = Leftover(t)
          /\ y.pulled = turn[t].pulled /\ y.inject = E[t].inject /\ y.deferred = E[t].deferred
        BY <1>3 DEF Task, TurnType
    <2>2. turn' = [E EXCEPT ![t] = y] /\ UNCHANGED <<bus, active>>
        BY <1>4 DEF GiveBack, E
    <2> HIDE DEF y
    <2>3. turn'[t] = y /\ \A u \in Turns \ {t} : turn'[u] = E[u]
        BY <1>3, <2>2
    <2>4. QED
        BY <1>1, <1>2, <1>3, <1>4, <2>1, <2>2, <2>3
<1>5. CASE Leftover(t) = <<>>
    <2>1. /\ turn' = [E EXCEPT ![t] = Idle] /\ UNCHANGED bus
          /\ active' = Delisted(t)
        BY <1>5 DEF GiveBack, E
    <2>2. turn'[t] = Idle /\ \A u \in Turns \ {t} : turn'[u] = E[u]
        BY <1>3, <2>1
    <2>3. \A k \in Keys : \A u \in ToSet(active[k]) \ {t} : u \in ToSet(active'[k])
        BY <1>1, <2>1, OthersStay DEF Delisted, TypeOK, NoneOutlives, ListedOK
    <2>4. turn'[t].inject = <<>> /\ turn'[t].deferred = <<>>
        BY <2>2 DEF Idle
    <2>5. QED
        BY <1>1, <1>2, <1>3, <1>5, <2>1, <2>2, <2>3, <2>4
<1>6. QED
    BY <1>4, <1>5

LEMMA RoutingInit == Init => Routing
BY DEF Init, Routing, RoutedOK, ListedUntilDrain, PhaseOK, Idle, Live, Early

LEMMA RoutingStep ==
    ASSUME TypeOK, NoneOutlives, Routing, [Next]_vars
    PROVE  Routing'
<1>t. \A t \in Turns : turn[t] \in TurnType
    BY DEF TypeOK, Task
<1>1. ASSUME UNCHANGED <<turn, registered, active, gateway, owed>> PROVE Routing'
    BY <1>1, SteadyKeeps DEF Steady, Live
<1>2. CASE StopIntake
    BY <1>2 DEF StopIntake, Routing, RoutedOK, ListedUntilDrain, PhaseOK, Early, Live, Key
<1>3. CASE Replay
    BY <1>3 DEF Replay, Routing, RoutedOK, ListedUntilDrain, PhaseOK, Early, Live, Key
<1>4. ASSUME NEW k \in Keys, ConsumeStop(k) PROVE Routing'
    <2>1. /\ \A t \in Turns : /\ turn'[t].pc = turn[t].pc /\ turn'[t].opener = turn[t].opener
                              /\ turn'[t].doomed = (turn[t].doomed \/ t \in ToSet(active[k]))
          /\ gateway = "serving" /\ UNCHANGED <<registered, gateway, owed>>
          /\ active' = [active EXCEPT ![k] = <<>>]
        BY <1>4, <1>t DEF ConsumeStop, Consuming, TurnType
    <2>2. RoutedOK'
        <3>1. \A j \in Keys : registered[j] = None \/ Stays(registered[j])
            BY <2>1 DEF TypeOK, Stays, Live
        <3>2. QED
            BY <2>1, <3>1, RoutedKept DEF Routing
    <2>3. ListedUntilDrain'
        <3>1. ASSUME NEW t \in Turns, Live(t)', ~turn'[t].doomed
              PROVE  Early' /\ t \in ToSet(active'[Key(t)'])
            <4>1. Live(t) /\ ~turn[t].doomed /\ Key(t)' = Key(t) /\ t \notin ToSet(active[k])
                BY <2>1, <3>1 DEF Live, Key
            <4>2. Key(t) \in Keys /\ t \in ToSet(active[Key(t)]) /\ Early
                BY <4>1, LeftoverType DEF Live, Routing, ListedUntilDrain
            <4>3. active'[Key(t)] = active[Key(t)]
                BY <2>1, <4>1, <4>2 DEF TypeOK
            <4>4. QED
                BY <2>1, <4>1, <4>2, <4>3 DEF Early
        <3>2. QED
            BY <3>1 DEF ListedUntilDrain
    <2>4. QED
        BY <2>1, <2>2, <2>3 DEF Routing, PhaseOK
<1>5. ASSUME NEW k \in Keys, ConsumeFollowUp(k) PROVE Routing'
    <2>1. \A t \in Turns : Kept(t)
        BY <1>5 DEF ConsumeFollowUp, Target, Kept, TypeOK, Task, TurnType
    <2>2. QED
        BY <1>5, <2>1, SteadyKeeps DEF ConsumeFollowUp, Kept, Steady, Live
<1>6. ASSUME NEW k \in Keys, ConsumeOpener(k) PROVE Routing'
    <2> DEFINE m == Head(bus[k])
    <2>1. m \in Message /\ m.key \in Keys /\ gateway = "serving" /\ UNCHANGED <<gateway, owed>>
        BY <1>6, NextMessage DEF ConsumeOpener, Consuming
    <2>2. PICK t \in Turns : StartTurn(t, m)
        BY <1>6 DEF ConsumeOpener
    <2> HIDE DEF m
    <2>3. /\ \A u \in Turns \ {t} : turn'[u] = turn[u]
          /\ turn[t].pc = "free" /\ ~IsRegistered(t) /\ turn'[t].pc = "created"
          /\ turn'[t].opener = m /\ ~turn'[t].doomed
          /\ registered' = [registered EXCEPT ![m.key] = t]
          /\ active' = [active EXCEPT ![m.key] = Append(@, t)]
        BY <2>2 DEF StartTurn, TypeOK, Idle
    <2>4. RoutedOK'
        BY <2>1, <2>3, NoneAssumption DEF Routing, RoutedOK, IsRegistered, TypeOK, Live, Key
    <2>5. \A j \in Keys : \A u \in ToSet(active[j]) : u \in ToSet(active'[j])
        <3>1. ToSet(Append(active[m.key], t)) = ToSet(active[m.key]) \cup {t}
            BY <2>1, <2>3, AppendUnique DEF TypeOK, NoneOutlives, ListedOK
        <3>2. QED
            BY <2>1, <2>3, <3>1 DEF TypeOK
    <2>6. t \in ToSet(active'[m.key])
        BY <2>1, <2>3, AppendUnique DEF TypeOK, NoneOutlives, ListedOK
    <2>7. ListedUntilDrain'
        <3>1. ASSUME NEW u \in Turns \ {t}, Live(u)', ~turn'[u].doomed
              PROVE  Early' /\ u \in ToSet(active'[Key(u)'])
            <4>1. Live(u) /\ ~turn[u].doomed /\ Key(u)' = Key(u) /\ Key(u) \in Keys
                BY <2>3, <3>1, LeftoverType DEF Live, Key
            <4>2. QED
                BY <2>1, <2>5, <4>1 DEF Routing, ListedUntilDrain, Early
        <3>2. QED
            BY <2>1, <2>3, <2>6, <3>1 DEF ListedUntilDrain, Early, Key
    <2>8. QED
        BY <2>1, <2>4, <2>7 DEF Routing, PhaseOK
<1>7. ASSUME NEW t \in Turns, Begin(t) \/ Run(t) \/ Finish(t) \/ UnwindBody(t) PROVE Routing'
    <2>1. PICK pc \in {"waiting", "running", "ending"} :
             turn' = [turn EXCEPT ![t].pc = pc] /\ Live(t) /\ UNCHANGED <<registered, active, gateway, owed>>
        BY <1>7 DEF Begin, Run, Finish, UnwindBody, Undisturbed, Live
    <2>2. /\ \A u \in Turns \ {t} : Kept(u)
          /\ turn'[t].pc = pc /\ turn'[t].opener = turn[t].opener /\ turn'[t].doomed = turn[t].doomed
        BY <2>1, TaskMoves
    <2>3. Steady
        BY <2>1, <2>2 DEF Steady, Kept, Live
    <2>4. QED
        BY <2>1, <2>3, SteadyKeeps
<1>8. ASSUME NEW t \in Turns, PullSteers(t) \/ PullAll(t) PROVE Routing'
    <2>1. \A u \in Turns : Kept(u)
        <3>1. CASE PullSteers(t)
            BY <3>1 DEF PullSteers, Kept, TypeOK, Task, TurnType
        <3>2. CASE PullAll(t)
            BY <3>2 DEF PullAll, Kept, TypeOK, Task, TurnType
        <3>3. QED
            BY <1>8, <3>1, <3>2
    <2>2. UNCHANGED <<registered, active, gateway, owed>>
        BY <1>8 DEF PullSteers, PullAll
    <2>3. QED
        BY <2>1, <2>2, SteadyKeeps DEF Kept, Steady, Live
<1>9. ASSUME NEW t \in Turns, turn[t].pc # "free", UNCHANGED <<gateway, owed>>,
             \A u \in Turns \ {t} : Kept(u),
             \A k \in Keys : registered'[k] \in {None, registered[k]} /\ registered'[k] # t,
             turn'[t].pc = "free" \/ turn'[t].pc = "handback",
             \A k \in Keys : \A u \in ToSet(active[k]) \ {t} : u \in ToSet(active'[k])
      PROVE  Routing'
    <2>1. \A u \in Turns \ {t} : turn[u].pc = "free" \/ Live(u) => Stays(u)
        BY <1>9 DEF Kept, Stays, Live
    <2>2. \A k \in Keys : registered'[k] = None \/ (registered'[k] = registered[k] /\ Stays(registered[k]))
        BY <1>9, <2>1 DEF Routing, RoutedOK, TypeOK
    <2>3. RoutedOK'
        BY <2>2, RoutedKept DEF Routing
    <2>4. ListedUntilDrain'
        <3>1. ASSUME NEW u \in Turns, Live(u)', ~turn'[u].doomed
              PROVE  Early' /\ u \in ToSet(active'[Key(u)'])
            <4>1. u # t /\ Live(u) /\ ~turn[u].doomed /\ Key(u)' = Key(u) /\ Key(u) \in Keys
                BY <1>9, <3>1, LeftoverType DEF Live, Key, Kept
            <4>2. QED
                BY <1>9, <4>1 DEF Routing, ListedUntilDrain, Early
        <3>2. QED
            BY <3>1 DEF ListedUntilDrain
    <2>5. PhaseOK'
        BY <1>9 DEF Routing, PhaseOK, Kept
    <2>6. QED
        BY <2>3, <2>4, <2>5 DEF Routing
<1>10. ASSUME NEW t \in Turns, Leave(t) \/ Refuse(t) PROVE Routing'
    <2>1. turn[t].pc # "free" /\ Live(t) /\ GiveBack(t) /\ UNCHANGED <<gateway, owed>>
        BY <1>10 DEF Leave, Refuse, Undisturbed, GiveBack, Live
    <2>2. /\ Key(t) \in Keys
          /\ registered' = [registered EXCEPT ![Key(t)] = None]
          /\ \A u \in Turns \ {t} : Kept(u)
          /\ turn'[t].pc = "free" \/ turn'[t].pc = "handback"
          /\ \A k \in Keys : \A u \in ToSet(active[k]) \ {t} : u \in ToSet(active'[k])
        <3>1. /\ Key(t) \in Keys
              /\ registered' = [registered EXCEPT ![Key(t)] = None]
              /\ \A u \in Turns \ {t} : /\ turn'[u].pc = turn[u].pc
                                        /\ turn'[u].opener = turn[u].opener
                                        /\ turn'[u].doomed = turn[u].doomed
              /\ \/ turn'[t].pc = "handback" /\ UNCHANGED active
                 \/ /\ turn'[t] = Idle
                    /\ \A k \in Keys : \A u \in ToSet(active[k]) \ {t} : u \in ToSet(active'[k])
            BY <2>1, GiveBackIs
        <3>2. QED
            BY <3>1 DEF Kept, Idle
    <2>3. \A k \in Keys : registered[k] = t => k = Key(t)
        BY <2>1, NoneAssumption DEF Routing, RoutedOK
    <2>4. \A k \in Keys : registered'[k] \in {None, registered[k]} /\ registered'[k] # t
        BY <2>2, <2>3, NoneAssumption DEF TypeOK
    <2>5. QED
        BY <1>9, <2>1, <2>2, <2>4
<1>11. ASSUME NEW t \in Turns, UnwindHandBack(t) \/ HandBack(t) PROVE Routing'
    <2>1. turn[t].pc = "handback" /\ ~Live(t) /\ UNCHANGED <<registered, gateway, owed>>
        BY <1>11 DEF UnwindHandBack, HandBack, Undisturbed, Live
    <2>2. Key(t) \in Keys /\ \A k \in Keys : registered[k] # t
        BY <2>1, LeftoverType, NoneAssumption DEF Routing, RoutedOK
    <2>3. /\ \A u \in Turns \ {t} : Kept(u)
          /\ turn'[t].pc = "free" \/ turn'[t].pc = "handback"
          /\ \A k \in Keys : \A u \in ToSet(active[k]) \ {t} : u \in ToSet(active'[k])
        <3>1. CASE UnwindHandBack(t)
            BY <3>1, <1>t DEF UnwindHandBack, Kept, Idle, TypeOK
        <3>2. CASE HandBack(t) /\ Len(turn[t].hand) = 1
            <4>1. turn' = [turn EXCEPT ![t] = Idle] /\ active' = Delisted(t)
                BY <3>2 DEF HandBack
            <4>2. \A k \in Keys : \A u \in ToSet(active[k]) \ {t} : u \in ToSet(active'[k])
                BY <2>2, <4>1, OthersStay DEF Delisted, TypeOK, NoneOutlives, ListedOK
            <4>3. QED
                BY <4>1, <4>2 DEF Kept, Idle, TypeOK
        <3>3. CASE HandBack(t) /\ Len(turn[t].hand) # 1
            <4>1. turn' = [turn EXCEPT ![t].hand = Tail(@)] /\ active' = active
                BY <3>3 DEF HandBack
            <4>2. QED
                BY <2>1, <4>1, <1>t DEF Kept, TurnType, TypeOK
        <3>4. QED
            BY <1>11, <3>1, <3>2, <3>3
    <2>4. QED
        BY <1>9, <2>1, <2>2, <2>3
<1>12. ASSUME NEW t \in Turns, DropUnstarted(t) PROVE Routing'
    <2> DEFINE y == [Idle EXCEPT !.inject = turn[t].inject, !.deferred = turn[t].deferred]
    <2>1. y.pc = "free"
        BY DEF Idle
    <2>2. turn' = [turn EXCEPT ![t] = y] /\ UNCHANGED <<registered, active, gateway, owed>>
        BY <1>12 DEF DropUnstarted
    <2> HIDE DEF y
    <2>3. turn'[t].pc = "free" /\ \A u \in Turns \ {t} : turn'[u] = turn[u]
        BY <2>1, <2>2 DEF TypeOK
    <2>4. \A k \in Keys : registered[k] = None \/ Stays(registered[k])
        BY <2>3 DEF Routing, RoutedOK, TypeOK, Stays, Live
    <2>5. RoutedOK'
        BY <2>2, <2>4, RoutedKept DEF Routing
    <2>6. ListedUntilDrain'
        BY <2>2, <2>3 DEF Routing, ListedUntilDrain, Early, Live, Key
    <2>7. QED
        BY <2>2, <2>3, <2>5, <2>6 DEF Routing, PhaseOK
<1>13. CASE BeginDrain
    <2>1. /\ \A t \in Turns : /\ turn'[t].pc = turn[t].pc /\ turn'[t].opener = turn[t].opener
                              /\ turn'[t].doomed = (turn[t].doomed \/ \E k \in Keys : t \in ToSet(active[k]))
          /\ gateway = "closing" /\ gateway' = "draining" /\ active' = Nothing
          /\ registered' = [k \in Keys |-> IF active[k] # <<>> THEN None ELSE registered[k]]
        BY <1>13, <1>t DEF BeginDrain, TurnType
    <2>2. \A k \in Keys : registered'[k] = None \/ (registered'[k] = registered[k] /\ Stays(registered[k]))
        BY <2>1 DEF Stays, Routing, RoutedOK, TypeOK, Live
    <2>3. RoutedOK'
        BY <2>2, RoutedKept DEF Routing
    <2>4. ListedUntilDrain'
        <3>1. ASSUME NEW t \in Turns, Live(t)' PROVE turn'[t].doomed
            <4>1. Live(t) /\ Key(t) \in Keys
                BY <2>1, <3>1, LeftoverType DEF Live
            <4>2. QED
                BY <2>1, <4>1 DEF Routing, ListedUntilDrain
        <3>2. QED
            BY <3>1 DEF ListedUntilDrain
    <2>5. QED
        BY <2>1, <2>3, <2>4 DEF Routing, PhaseOK
<1>14. CASE EndDrain
    <2>1. /\ \A t \in Turns : Kept(t)
          /\ gateway = "draining" /\ gateway' = "drained" /\ owed' = Nothing
          /\ registered' = [k \in Keys |-> None]
        BY <1>14, <1>t DEF EndDrain, Kept, TurnType
    <2>2. ListedUntilDrain'
        BY <2>1 DEF Routing, ListedUntilDrain, Kept, Live, Early
    <2>3. QED
        BY <2>1, <2>2 DEF Routing, RoutedOK, PhaseOK
<1>15. CASE Restart
    <2>1. /\ gateway = "drained" /\ gateway' = "starting"
          /\ turn' = [t \in Turns |-> Idle] /\ UNCHANGED <<registered, owed>>
        BY <1>15 DEF Restart
    <2>2. QED
        BY <2>1 DEF Routing, RoutedOK, ListedUntilDrain, PhaseOK, Idle, Live
<1>16. QED
    <2>1. ASSUME \/ StopDone \/ UNCHANGED vars \/ (\E k \in Keys : ConsumeCommand(k))
                 \/ \E k \in Keys, kind \in Kinds : Publish(k, kind)
          PROVE  UNCHANGED <<turn, registered, active, gateway, owed>>
        BY <2>1 DEF StopDone, vars, Publish, ConsumeCommand
    <2>2. QED
        BY <1>1, <1>2, <1>3, <1>4, <1>5, <1>6, <1>7, <1>8, <1>10, <1>11, <1>12, <1>13,
           <1>14, <1>15, <2>1 DEF Next, Consume, TurnStep

---------------------------------------------------------------------------
(* What each step does to the tasks and what they hold                     *)

Untouched(t) == turn'[t] = turn[t]
\* t keeps its messages; its stage and its cancellation may change.
Holding(t) ==
    /\ turn'[t].opener = turn[t].opener /\ turn'[t].pulled = turn[t].pulled
    /\ turn'[t].inject = turn[t].inject /\ turn'[t].deferred = turn[t].deferred
    /\ turn'[t].hand = turn[t].hand

LEMMA MessagesOf ==
    ASSUME TypeOK, NEW t \in Turns
    PROVE  /\ turn[t].inject \in Seq(Message) /\ turn[t].deferred \in Seq(Message)
           /\ turn[t].pulled \in Seq(Message) /\ turn[t].hand \in Seq(Message)
           /\ turn[t].pc # "free" => turn[t].opener \in Message /\ Key(t) \in Keys
           /\ turn[t].pc = "handback" => turn[t].hand # <<>>
BY LeftoverType DEF TypeOK, Task, TurnType

LEMMA StopIs ==
    ASSUME TypeOK, NEW k \in Keys, ConsumeStop(k)
    PROVE  /\ gateway = "serving" /\ bus[k] # <<>> /\ bus' = [bus EXCEPT ![k] = Tail(@)]
           /\ active' = [active EXCEPT ![k] = <<>>]
           /\ \A t \in Turns : Holding(t) /\ turn'[t].pc = turn[t].pc
           /\ \A t \in Turns : turn'[t].doomed = (turn[t].doomed \/ t \in ToSet(active[k]))
           /\ UNCHANGED <<registered, gateway, owed, journal>>
<1>1. \A t \in Turns : turn[t] \in TurnType
    BY DEF TypeOK, Task
<1>2. /\ \A t \in Turns : Holding(t) /\ turn'[t].pc = turn[t].pc
      /\ \A t \in Turns : turn'[t].doomed = (turn[t].doomed \/ t \in ToSet(active[k]))
    BY <1>1 DEF ConsumeStop, Holding, TurnType
<1>3. QED
    BY <1>2 DEF ConsumeStop, Consuming

LEMMA CommandIs ==
    ASSUME NEW k \in Keys, ConsumeCommand(k)
    PROVE  /\ gateway = "serving" /\ bus[k] # <<>> /\ bus' = [bus EXCEPT ![k] = Tail(@)]
           /\ fate' = Settled({Head(bus[k])}, "answered", fate)
           /\ UNCHANGED <<registered, turn, active, gateway, owed, journal, restarts>>
BY DEF ConsumeCommand, Consuming

LEMMA FollowUpIs ==
    ASSUME TypeOK, NEW k \in Keys, ConsumeFollowUp(k)
    PROVE  LET r == registered[k]
               m == Head(bus[k])
           IN  /\ gateway = "serving" /\ bus[k] # <<>> /\ bus' = [bus EXCEPT ![k] = Tail(@)]
               /\ r \in Turns /\ r # None
               /\ \A t \in Turns \ {r} : Untouched(t)
               /\ turn'[r].pc = turn[r].pc /\ turn'[r].doomed = turn[r].doomed
               /\ turn'[r].opener = turn[r].opener /\ turn'[r].pulled = turn[r].pulled
               /\ turn'[r].hand = turn[r].hand
               /\ \/ /\ turn'[r].inject = Append(turn[r].inject, m)
                     /\ turn'[r].deferred = turn[r].deferred
                  \/ /\ turn'[r].deferred = Append(turn[r].deferred, m)
                     /\ turn'[r].inject = turn[r].inject
               /\ UNCHANGED <<registered, active, gateway, owed, journal, fate>>
<1> DEFINE r == registered[k]
           m == Head(bus[k])
<1>1. r \in Turns /\ r # None /\ turn[r] \in TurnType
    BY DEF ConsumeFollowUp, HasRoom, TypeOK, Task
<1>2. turn' = [turn EXCEPT ![r] = [turn[r] EXCEPT ![Target(m)] = Append(@, m)]]
    BY DEF ConsumeFollowUp
<1> DEFINE x == turn[r]
           y == [x EXCEPT ![Target(m)] = Append(@, m)]
<1>3. /\ y.pc = x.pc /\ y.doomed = x.doomed /\ y.opener = x.opener /\ y.pulled = x.pulled
      /\ y.hand = x.hand
      /\ \/ y.inject = Append(x.inject, m) /\ y.deferred = x.deferred
         \/ y.deferred = Append(x.deferred, m) /\ y.inject = x.inject
    <2>1. Target(m) = "inject" \/ Target(m) = "deferred"
        BY DEF Target
    <2> HIDE DEF m
    <2>2. CASE Target(m) = "inject"
        BY <1>1, <2>2 DEF TurnType
    <2>3. CASE Target(m) = "deferred"
        BY <1>1, <2>3 DEF TurnType
    <2>4. QED
        BY <2>1, <2>2, <2>3
<1> HIDE DEF y, m, r
<1>4. turn'[r] = y /\ \A t \in Turns \ {r} : turn'[t] = turn[t]
    BY <1>1, <1>2 DEF TypeOK, y
<1>5. QED
    BY <1>1, <1>3, <1>4 DEF ConsumeFollowUp, Consuming, Untouched, r, m

LEMMA OpenerIs ==
    ASSUME TypeOK, NoneOutlives, NEW k \in Keys, ConsumeOpener(k)
    PROVE  LET m == Head(bus[k]) IN
           /\ gateway = "serving" /\ bus[k] # <<>> /\ bus' = [bus EXCEPT ![k] = Tail(@)]
           /\ m \in Message /\ m.key \in Keys /\ ~HasRoom(k, m)
           /\ UNCHANGED <<gateway, owed, journal, fate>>
           /\ \E t \in Turns :
                 /\ turn[t].pc = "free" /\ ~IsRegistered(t)
                 /\ turn'[t] = [Idle EXCEPT !.pc = "created", !.opener = m]
                 /\ turn'[t].pc = "created" /\ turn'[t].opener = m /\ ~turn'[t].doomed
                 /\ turn'[t].pulled = <<>> /\ turn'[t].inject = <<>> /\ turn'[t].deferred = <<>>
                 /\ turn'[t].hand = <<>>
                 /\ \A u \in Turns \ {t} : Untouched(u)
                 /\ registered' = [registered EXCEPT ![m.key] = t]
                 /\ t \in ToSet(active'[m.key])
                 /\ \A j \in Keys : \A u \in ToSet(active[j]) : u \in ToSet(active'[j])
<1> DEFINE m == Head(bus[k])
<1>1. /\ gateway = "serving" /\ bus[k] # <<>> /\ bus' = [bus EXCEPT ![k] = Tail(@)]
      /\ m \in Message /\ m.key \in Keys /\ ~HasRoom(k, m)
      /\ UNCHANGED <<gateway, owed, journal, fate>>
    BY NextMessage DEF ConsumeOpener, Consuming
<1>2. PICK t \in Turns : StartTurn(t, m)
    BY DEF ConsumeOpener
<1> HIDE DEF m
<1>3. /\ turn[t].pc = "free" /\ ~IsRegistered(t)
      /\ turn' = [turn EXCEPT ![t] = [Idle EXCEPT !.pc = "created", !.opener = m]]
      /\ registered' = [registered EXCEPT ![m.key] = t]
      /\ active' = [active EXCEPT ![m.key] = Append(@, t)]
    BY <1>2 DEF StartTurn
<1>4. turn'[t] = [Idle EXCEPT !.pc = "created", !.opener = m] /\ \A u \in Turns \ {t} : Untouched(u)
    BY <1>3 DEF TypeOK, Untouched
<1>5. /\ turn'[t].pc = "created" /\ turn'[t].opener = m /\ ~turn'[t].doomed
      /\ turn'[t].pulled = <<>> /\ turn'[t].inject = <<>> /\ turn'[t].deferred = <<>>
      /\ turn'[t].hand = <<>>
    BY <1>4 DEF Idle
<1>6. ToSet(Append(active[m.key], t)) = ToSet(active[m.key]) \cup {t}
    <2>1. t \notin ToSet(active[m.key]) /\ Unique(active[m.key]) /\ active[m.key] \in Seq(Turns)
        BY <1>1, <1>3 DEF TypeOK, NoneOutlives, ListedOK
    <2>2. QED
        BY <2>1, AppendUnique
<1>7. /\ t \in ToSet(active'[m.key])
      /\ \A j \in Keys : \A u \in ToSet(active[j]) : u \in ToSet(active'[j])
    BY <1>1, <1>3, <1>6 DEF TypeOK
<1>8. QED
    BY <1>1, <1>3, <1>4, <1>5, <1>7 DEF m

\* A turn goes on to its next stage with all its messages.
LEMMA AdvanceIs ==
    ASSUME TypeOK, NEW t \in Turns, Begin(t) \/ Run(t) \/ Finish(t) \/ UnwindBody(t)
    PROVE  /\ \A u \in Turns \ {t} : Untouched(u)
           /\ Holding(t) /\ turn'[t].doomed = turn[t].doomed
           /\ \/ Begin(t) /\ turn[t].pc = "created" /\ turn'[t].pc = "waiting"
              \/ Run(t) /\ turn[t].pc = "waiting" /\ turn'[t].pc = "running" /\ ~turn[t].doomed
              \/ Finish(t) /\ turn[t].pc = "running" /\ turn'[t].pc = "ending" /\ ~turn[t].doomed
              \/ UnwindBody(t) /\ turn[t].pc = "running" /\ turn'[t].pc = "ending" /\ turn[t].doomed
           /\ UNCHANGED <<bus, registered, active, gateway, owed, journal>>
<1>1. PICK pc : turn' = [turn EXCEPT ![t].pc = pc]
                /\ \/ Begin(t) /\ turn[t].pc = "created" /\ pc = "waiting"
                   \/ Run(t) /\ turn[t].pc = "waiting" /\ pc = "running" /\ ~turn[t].doomed
                   \/ Finish(t) /\ turn[t].pc = "running" /\ pc = "ending" /\ ~turn[t].doomed
                   \/ UnwindBody(t) /\ turn[t].pc = "running" /\ pc = "ending" /\ turn[t].doomed
    BY DEF Begin, Run, Finish, UnwindBody, Undisturbed
<1>2. turn[t] \in TurnType
    BY DEF TypeOK, Task
<1>3. /\ \A u \in Turns \ {t} : Untouched(u)
      /\ Holding(t) /\ turn'[t].doomed = turn[t].doomed /\ turn'[t].pc = pc
    BY <1>1, <1>2 DEF TypeOK, TurnType, Untouched, Holding
<1>4. UNCHANGED <<bus, registered, active, gateway, owed, journal>>
    BY DEF Begin, Run, Finish, UnwindBody
<1>5. QED
    BY <1>1, <1>3, <1>4

LEMMA PullIs ==
    ASSUME TypeOK, NEW t \in Turns, PullSteers(t) \/ PullAll(t)
    PROVE  /\ \A u \in Turns \ {t} : Untouched(u)
           /\ turn[t].pc = "running" /\ ~turn[t].doomed
           /\ turn'[t].pc = "running" /\ ~turn'[t].doomed
           /\ turn'[t].opener = turn[t].opener /\ turn'[t].hand = turn[t].hand
           /\ \/ /\ turn'[t].pulled = turn[t].pulled \o Take(turn[t].inject, Batch)
                 /\ turn'[t].inject = Rest(turn[t].inject, Batch)
                 /\ turn'[t].deferred = turn[t].deferred
              \/ /\ turn'[t].pulled = turn[t].pulled \o Take(turn[t].inject \o turn[t].deferred, Batch)
                 /\ turn'[t].inject = Rest(turn[t].inject, Batch)
                 /\ turn'[t].deferred = Rest(turn[t].deferred, Batch - Len(Take(turn[t].inject, Batch)))
           /\ UNCHANGED <<bus, registered, active, gateway, owed, journal, fate>>
<1>1. turn[t] \in TurnType
    BY DEF TypeOK, Task
<1>2. CASE PullSteers(t)
    <2> DEFINE p == turn[t].pulled \o Take(turn[t].inject, Batch)
               i == Rest(turn[t].inject, Batch)
               c == turn[t].cycles + 1
    <2>1. /\ turn' = [turn EXCEPT ![t] = [@ EXCEPT !.pulled = p, !.inject = i, !.cycles = c]]
          /\ turn[t].pc = "running" /\ ~turn[t].doomed
          /\ UNCHANGED <<bus, registered, active, gateway, owed, journal, fate>>
        BY <1>2 DEF PullSteers, Undisturbed
    <2> HIDE DEF p, i, c
    <2>2. turn'[t] = [turn[t] EXCEPT !.pulled = p, !.inject = i, !.cycles = c]
          /\ \A u \in Turns \ {t} : Untouched(u)
        BY <2>1 DEF TypeOK, Untouched
    <2> DEFINE x == turn[t]
               y == [x EXCEPT !.pulled = p, !.inject = i, !.cycles = c]
    <2> HIDE DEF x
    <2>3. x \in TurnType
        BY <1>1 DEF x
    <2>4. y.pc = x.pc /\ y.doomed = x.doomed /\ y.opener = x.opener /\ y.hand = x.hand
        BY <2>3 DEF TurnType
    <2>5. y.pulled = p /\ y.inject = i /\ y.deferred = x.deferred
        BY <2>3 DEF TurnType
    <2>6. turn'[t] = y
        BY <2>2 DEF x
    <2> HIDE DEF y
    <2>7. QED
        BY <2>1, <2>2, <2>4, <2>5, <2>6 DEF p, i, x
<1>3. CASE PullAll(t)
    <2> DEFINE p == turn[t].pulled \o Take(turn[t].inject \o turn[t].deferred, Batch)
               i == Rest(turn[t].inject, Batch)
               d == Rest(turn[t].deferred, Batch - Len(Take(turn[t].inject, Batch)))
               c == turn[t].cycles + 1
    <2>1. /\ turn' = [turn EXCEPT ![t] = [@ EXCEPT !.pulled = p, !.inject = i, !.deferred = d, !.cycles = c]]
          /\ turn[t].pc = "running" /\ ~turn[t].doomed
          /\ UNCHANGED <<bus, registered, active, gateway, owed, journal, fate>>
        BY <1>3 DEF PullAll, Undisturbed, Queued
    <2> HIDE DEF p, i, d, c
    <2>2. turn'[t] = [turn[t] EXCEPT !.pulled = p, !.inject = i, !.deferred = d, !.cycles = c]
          /\ \A u \in Turns \ {t} : Untouched(u)
        BY <2>1 DEF TypeOK, Untouched
    <2> DEFINE x == turn[t]
               y == [x EXCEPT !.pulled = p, !.inject = i, !.deferred = d, !.cycles = c]
    <2> HIDE DEF x
    <2>3. x \in TurnType
        BY <1>1 DEF x
    <2>4. y.pc = x.pc /\ y.doomed = x.doomed /\ y.opener = x.opener /\ y.hand = x.hand
        BY <2>3 DEF TurnType
    <2>5. y.pulled = p /\ y.inject = i /\ y.deferred = d
        BY <2>3 DEF TurnType
    <2>6. turn'[t] = y
        BY <2>2 DEF x
    <2> HIDE DEF y
    <2>7. QED
        BY <2>1, <2>2, <2>4, <2>5, <2>6 DEF p, i, d, x
<1>4. QED
    BY <1>2, <1>3

LEMMA HandBackIs ==
    ASSUME TypeOK, NoneOutlives, NEW t \in Turns, HandBack(t)
    PROVE  /\ \A u \in Turns \ {t} : Untouched(u)
           /\ turn[t].pc = "handback" /\ Key(t) \in Keys
           /\ turn[t].hand \in Seq(Message) /\ turn[t].hand # <<>>
           /\ \/ bus' = [bus EXCEPT ![Key(t)] = Append(@, Head(turn[t].hand))] /\ UNCHANGED fate
              \/ fate' = Settled({Head(turn[t].hand)}, "claimed", fate) /\ UNCHANGED bus
           /\ \/ /\ turn'[t] = Idle /\ Tail(turn[t].hand) = <<>>
                 /\ \A k \in Keys : \A u \in ToSet(active[k]) \ {t} : u \in ToSet(active'[k])
              \/ /\ turn'[t].pc = "handback" /\ turn'[t].doomed = turn[t].doomed
                 /\ turn'[t].opener = turn[t].opener /\ turn'[t].pulled = turn[t].pulled
                 /\ turn'[t].inject = turn[t].inject /\ turn'[t].deferred = turn[t].deferred
                 /\ turn'[t].hand = Tail(turn[t].hand)
                 /\ UNCHANGED active
           /\ UNCHANGED <<registered, gateway, owed, journal>>
<1>1. /\ turn[t].pc = "handback" /\ turn[t] \in TurnType
      /\ \/ bus' = [bus EXCEPT ![Key(t)] = Append(@, Head(turn[t].hand))] /\ UNCHANGED fate
         \/ fate' = Settled({Head(turn[t].hand)}, "claimed", fate) /\ UNCHANGED bus
      /\ UNCHANGED <<registered, gateway, owed, journal>>
    BY DEF HandBack, Undisturbed, TypeOK, Task
<1>2. Key(t) \in Keys /\ turn[t].hand \in Seq(Message) /\ turn[t].hand # <<>>
    BY <1>1, MessagesOf
<1>3. CASE Len(turn[t].hand) = 1
    <2>1. turn' = [turn EXCEPT ![t] = Idle] /\ active' = Delisted(t)
        BY <1>3 DEF HandBack
    <2>2. \A k \in Keys : \A u \in ToSet(active[k]) \ {t} : u \in ToSet(active'[k])
        BY <1>2, <2>1, OthersStay DEF Delisted, TypeOK, NoneOutlives, ListedOK
    <2>3. turn'[t] = Idle /\ \A u \in Turns \ {t} : Untouched(u)
        BY <2>1 DEF TypeOK, Untouched
    <2>4. Tail(turn[t].hand) = <<>>
        <3>1. Tail(turn[t].hand) \in Seq(Message) /\ Len(Tail(turn[t].hand)) = 0
            BY <1>2, <1>3, HeadTailProperties
        <3>2. QED
            BY <3>1, EmptySeq
    <2>5. QED
        BY <1>1, <1>2, <2>2, <2>3, <2>4
<1>4. CASE Len(turn[t].hand) # 1
    <2> DEFINE h == Tail(turn[t].hand)
    <2>1. turn' = [turn EXCEPT ![t].hand = h] /\ UNCHANGED active
        BY <1>4 DEF HandBack
    <2> HIDE DEF h
    <2>2. turn'[t] = [turn[t] EXCEPT !.hand = h] /\ \A u \in Turns \ {t} : Untouched(u)
        BY <2>1 DEF TypeOK, Untouched
    <2>3. /\ turn'[t].pc = "handback" /\ turn'[t].doomed = turn[t].doomed
          /\ turn'[t].opener = turn[t].opener /\ turn'[t].pulled = turn[t].pulled
          /\ turn'[t].inject = turn[t].inject /\ turn'[t].deferred = turn[t].deferred
          /\ turn'[t].hand = h
        BY <1>1, <2>2 DEF TurnType
    <2>4. QED
        BY <1>1, <1>2, <2>1, <2>2, <2>3 DEF h
<1>5. QED
    BY <1>3, <1>4

LEMMA DropIs ==
    ASSUME TypeOK, NEW t \in Turns, DropUnstarted(t) \/ UnwindHandBack(t)
    PROVE  /\ \A u \in Turns \ {t} : Untouched(u)
           /\ turn[t].doomed
           /\ \/ /\ turn[t].pc = "created" /\ turn'[t].inject = turn[t].inject
                 /\ turn'[t].deferred = turn[t].deferred /\ UNCHANGED fate
              \/ /\ turn[t].pc = "handback" /\ turn'[t].inject = <<>> /\ turn'[t].deferred = <<>>
                 /\ fate' = Settled(ToSet(turn[t].hand), "dropped", fate)
           /\ turn'[t].pc = "free" /\ ~turn'[t].doomed
           /\ turn'[t].pulled = <<>> /\ turn'[t].hand = <<>>
           /\ UNCHANGED <<bus, registered, active, gateway, owed, journal>>
<1>1. CASE DropUnstarted(t)
    <2> DEFINE i == turn[t].inject
               d == turn[t].deferred
               y == [Idle EXCEPT !.inject = i, !.deferred = d]
    <2> HIDE DEF i, d
    <2>1. /\ y.pc = "free" /\ ~y.doomed /\ y.pulled = <<>> /\ y.hand = <<>>
          /\ y.inject = i /\ y.deferred = d
        BY DEF Idle
    <2>2. turn' = [turn EXCEPT ![t] = y] /\ turn[t].pc = "created" /\ turn[t].doomed
          /\ UNCHANGED <<bus, registered, active, gateway, owed, journal, fate>>
        BY <1>1 DEF DropUnstarted, i, d
    <2> HIDE DEF y
    <2>3. turn'[t] = y /\ \A u \in Turns \ {t} : Untouched(u)
        BY <2>2 DEF TypeOK, Untouched
    <2>4. QED
        BY <2>1, <2>2, <2>3 DEF i, d
<1>2. CASE UnwindHandBack(t)
    <2>1. turn' = [turn EXCEPT ![t] = Idle] /\ turn[t].pc = "handback" /\ turn[t].doomed
          /\ fate' = Settled(ToSet(turn[t].hand), "dropped", fate)
          /\ UNCHANGED <<bus, registered, active, gateway, owed, journal>>
        BY <1>2 DEF UnwindHandBack
    <2>2. turn'[t] = Idle /\ \A u \in Turns \ {t} : Untouched(u)
        BY <2>1 DEF TypeOK, Untouched
    <2>3. QED
        BY <2>1, <2>2 DEF Idle
<1>3. QED
    BY <1>1, <1>2

LEMMA BeginDrainIs ==
    ASSUME TypeOK, BeginDrain
    PROVE  /\ gateway = "closing" /\ gateway' = "draining" /\ active' = Nothing
           /\ owed' = [k \in Keys |-> TakenFrom(k)]
           /\ registered' = [k \in Keys |-> IF active[k] # <<>> THEN None ELSE registered[k]]
           /\ \A t \in Turns :
                 /\ turn'[t].pc = turn[t].pc /\ turn'[t].opener = turn[t].opener
                 /\ turn'[t].pulled = turn[t].pulled /\ turn'[t].hand = turn[t].hand
                 /\ turn'[t].doomed = (turn[t].doomed \/ \E k \in Keys : t \in ToSet(active[k]))
                 /\ IF \E k \in Keys : t \in ToSet(active[k]) \/ (active[k] # <<>> /\ registered[k] = t)
                    THEN turn'[t].inject = <<>> /\ turn'[t].deferred = <<>>
                    ELSE turn'[t].inject = turn[t].inject /\ turn'[t].deferred = turn[t].deferred
           /\ UNCHANGED <<bus, journal>>
<1>1. \A t \in Turns : turn[t] \in TurnType
    BY DEF TypeOK, Task
<1>2. ASSUME NEW t \in Turns
      PROVE  /\ turn'[t].pc = turn[t].pc /\ turn'[t].opener = turn[t].opener
             /\ turn'[t].pulled = turn[t].pulled /\ turn'[t].hand = turn[t].hand
             /\ turn'[t].doomed = (turn[t].doomed \/ \E k \in Keys : t \in ToSet(active[k]))
             /\ IF \E k \in Keys : t \in ToSet(active[k]) \/ (active[k] # <<>> /\ registered[k] = t)
                THEN turn'[t].inject = <<>> /\ turn'[t].deferred = <<>>
                ELSE turn'[t].inject = turn[t].inject /\ turn'[t].deferred = turn[t].deferred
    <2>1. turn'[t] = IF \E k \in Keys : t \in ToSet(active[k])
                     THEN [turn[t] EXCEPT !.doomed = TRUE, !.inject = <<>>, !.deferred = <<>>]
                     ELSE IF \E k \in Keys : active[k] # <<>> /\ registered[k] = t
                     THEN [turn[t] EXCEPT !.inject = <<>>, !.deferred = <<>>]
                     ELSE turn[t]
        BY DEF BeginDrain
    <2>2. CASE \E k \in Keys : t \in ToSet(active[k])
        BY <1>1, <2>1, <2>2 DEF TurnType
    <2>3. CASE /\ ~\E k \in Keys : t \in ToSet(active[k])
               /\ \E k \in Keys : active[k] # <<>> /\ registered[k] = t
        BY <1>1, <2>1, <2>3 DEF TurnType
    <2>4. CASE /\ ~\E k \in Keys : t \in ToSet(active[k])
               /\ ~\E k \in Keys : active[k] # <<>> /\ registered[k] = t
        BY <1>1, <2>1, <2>4 DEF TurnType
    <2>5. QED
        BY <2>2, <2>3, <2>4
<1>3. QED
    BY <1>2 DEF BeginDrain

LEMMA EndDrainIs ==
    ASSUME TypeOK, EndDrain
    PROVE  /\ gateway = "draining" /\ gateway' = "drained" /\ owed' = Nothing /\ bus' = Nothing
           /\ registered' = [k \in Keys |-> None]
           /\ journal' = [k \in Keys |-> journal[k] \o owed[k] \o bus[k] \o
                            (IF registered[k] = None THEN <<>> ELSE Queued(registered[k]))]
           /\ \A t \in Turns :
                 /\ turn'[t].pc = turn[t].pc /\ turn'[t].opener = turn[t].opener
                 /\ turn'[t].pulled = turn[t].pulled /\ turn'[t].hand = turn[t].hand
                 /\ turn'[t].doomed = turn[t].doomed
                 /\ IF IsRegistered(t)
                    THEN turn'[t].inject = <<>> /\ turn'[t].deferred = <<>>
                    ELSE turn'[t].inject = turn[t].inject /\ turn'[t].deferred = turn[t].deferred
           /\ UNCHANGED <<active, fate>>
<1>1. \A t \in Turns : turn[t] \in TurnType
    BY DEF TypeOK, Task
<1>2. ASSUME NEW t \in Turns
      PROVE  /\ turn'[t].pc = turn[t].pc /\ turn'[t].opener = turn[t].opener
             /\ turn'[t].pulled = turn[t].pulled /\ turn'[t].hand = turn[t].hand
             /\ turn'[t].doomed = turn[t].doomed
             /\ IF IsRegistered(t)
                THEN turn'[t].inject = <<>> /\ turn'[t].deferred = <<>>
                ELSE turn'[t].inject = turn[t].inject /\ turn'[t].deferred = turn[t].deferred
    <2>1. turn'[t] = IF IsRegistered(t) THEN [turn[t] EXCEPT !.inject = <<>>, !.deferred = <<>>]
                     ELSE turn[t]
        BY DEF EndDrain
    <2>2. QED
        BY <1>1, <2>1 DEF TurnType
<1>3. QED
    BY <1>2 DEF EndDrain

---------------------------------------------------------------------------
(* Who owns the queues                                                     *)

LEMMA RoutingInvariant == Spec => [](TypeOK /\ NoneOutlives /\ Routing)
<1>1. Init => Routing
    BY RoutingInit
<1>2. TypeOK /\ NoneOutlives /\ Routing /\ [Next]_vars => Routing'
    BY RoutingStep
<1>3. QED
    BY <1>1, <1>2, LoopInvariant, PTL DEF Spec

\* The queues that a session's follow-ups join are nobody else's: they belong to a task
\* at work for that session, or to one that is gone without ever having run (/stop and
\* /new can overtake its first step), and to one session only (loop.py:2767-2783).
THEOREM QueuesOwned == Spec => []RoutedOK
BY RoutingInvariant, PTL DEF Routing

---------------------------------------------------------------------------
(* A session's messages stay with it                                       *)

Keyed(s, k) == \A m \in ToSet(s) : m.key = k

Filed ==
    /\ \A k \in Keys : Keyed(bus[k], k) /\ Keyed(owed[k], k) /\ Keyed(journal[k], k)
    /\ \A k \in Keys : registered[k] # None =>
          Keyed(turn[registered[k]].inject, k) /\ Keyed(turn[registered[k]].deferred, k)
    /\ \A t \in Turns : turn[t].pc = "handback" => Keyed(turn[t].hand, Key(t))

LEMMA KeyedEmpty == \A k : Keyed(<<>>, k)
BY NoMessages DEF Keyed

LEMMA KeyedJoin ==
    ASSUME NEW s \in Seq(Message), NEW r \in Seq(Message), NEW k, Keyed(s, k), Keyed(r, k)
    PROVE  Keyed(s \o r, k)
<1>1. ToSet(s \o r) = ToSet(s) \cup ToSet(r)
    BY Joined
<1>2. QED
    BY <1>1 DEF Keyed

LEMMA KeyedAppend ==
    ASSUME NEW s \in Seq(Message), NEW m \in Message, NEW k, Keyed(s, k), m.key = k
    PROVE  Keyed(Append(s, m), k)
<1>1. ToSet(Append(s, m)) = ToSet(s) \cup {m}
    BY Appended
<1>2. QED
    BY <1>1 DEF Keyed

LEMMA KeyedTail ==
    ASSUME NEW s \in Seq(Message), s # <<>>, NEW k, Keyed(s, k)
    PROVE  Keyed(Tail(s), k) /\ Head(s).key = k
<1>1. ToSet(s) = {Head(s)} \cup ToSet(Tail(s))
    BY HeadTail
<1>2. QED
    BY <1>1 DEF Keyed

LEMMA KeyedRest ==
    ASSUME NEW s \in Seq(Message), NEW n \in Nat, NEW k, Keyed(s, k)
    PROVE  Keyed(Rest(s, n), k)
<1>1. ToSet(Rest(s, n)) \subseteq ToSet(s)
    BY TakeRest
<1>2. QED
    BY <1>1 DEF Keyed

\* What the queues registered for k hold.
Pending(k) == IF registered[k] = None THEN <<>> ELSE Queued(registered[k])

LEMMA PendingKeyed ==
    ASSUME TypeOK, Filed, NEW k \in Keys
    PROVE  Pending(k) \in Seq(Message) /\ Keyed(Pending(k), k)
<1>1. CASE registered[k] = None
    BY <1>1, KeyedEmpty, EmptyQueue DEF Pending
<1>2. CASE registered[k] # None
    <2> DEFINE s == turn[registered[k]].inject
               r == turn[registered[k]].deferred
    <2>1. s \in Seq(Message) /\ r \in Seq(Message)
        BY <1>2, MessagesOf DEF TypeOK
    <2>2. Keyed(s, k) /\ Keyed(r, k)
        BY <1>2 DEF Filed
    <2>3. Pending(k) = s \o r
        BY <1>2 DEF Pending, Queued
    <2> HIDE DEF s, r
    <2>4. Keyed(s \o r, k) /\ s \o r \in Seq(Message)
        BY <2>1, <2>2, KeyedJoin, Joined
    <2>5. QED
        BY <2>3, <2>4
<1>3. QED
    BY <1>1, <1>2

\* What is registered holds messages of its session only.
FiledQueues ==
    \A k \in Keys : registered[k] # None =>
        Keyed(turn[registered[k]].inject, k) /\ Keyed(turn[registered[k]].deferred, k)
FiledHands == \A t \in Turns : turn[t].pc = "handback" => Keyed(turn[t].hand, Key(t))
FiledBus   == \A k \in Keys : Keyed(bus[k], k) /\ Keyed(owed[k], k) /\ Keyed(journal[k], k)

LEMMA FiledStep ==
    ASSUME TypeOK, NoneOutlives, Routing, Filed, [Next]_vars
    PROVE  Filed'
<1>b. /\ \A k \in Keys : bus[k] \in Seq(Message) /\ owed[k] \in Seq(Message) /\ journal[k] \in Seq(Message)
      /\ bus \in [Keys -> Seq(Message)] /\ registered \in [Keys -> Turns \cup {None}]
      /\ turn \in [Turns -> Task]
    BY DEF TypeOK, Messages
<1>f. FiledQueues /\ FiledHands /\ FiledBus
    BY DEF Filed, FiledQueues, FiledHands, FiledBus
<1>g. FiledQueues' /\ FiledHands' /\ FiledBus' => Filed'
    BY DEF Filed, FiledQueues, FiledHands, FiledBus
<1>r. \A j, k \in Keys : registered[j] # None /\ registered[j] = registered[k] => j = k
    BY DEF Routing, RoutedOK
<1>1. ASSUME NEW k \in Keys, NEW kind \in Kinds, Publish(k, kind) PROVE Filed'
    <2> DEFINE i == Cardinality(Sent) + 1
               m == [id |-> i, key |-> k, kind |-> kind]
    <2>1. i \in Ids
        BY <1>1, SentCounted, SizesAssumption DEF Publish, Ids
    <2>2. m \in Message /\ m.key = k
        BY <2>1, KindsAssumption DEF Message
    <2> HIDE DEF i
    <2>3. bus' = [bus EXCEPT ![k] = Append(@, m)] /\ UNCHANGED <<registered, turn, owed, journal>>
        BY <1>1 DEF Publish, i
    <2> HIDE DEF m
    <2>4. FiledBus'
        BY <1>b, <1>f, <2>2, <2>3, KeyedAppend DEF FiledBus
    <2>5. QED
        BY <1>f, <1>g, <2>3, <2>4 DEF FiledQueues, FiledHands, Key
<1>2. ASSUME NEW k \in Keys, ConsumeStop(k) PROVE Filed'
    <2>1. /\ bus[k] # <<>> /\ bus' = [bus EXCEPT ![k] = Tail(@)]
          /\ \A t \in Turns : Holding(t) /\ turn'[t].pc = turn[t].pc
          /\ UNCHANGED <<registered, owed, journal>>
        BY <1>2, StopIs
    <2>2. FiledBus'
        BY <1>b, <1>f, <2>1, KeyedTail DEF FiledBus
    <2>3. QED
        BY <1>b, <1>f, <1>g, <2>1, <2>2 DEF FiledQueues, FiledHands, Key, Holding
<1>16. ASSUME NEW k \in Keys, ConsumeCommand(k) PROVE Filed'
    <2>1. /\ bus[k] # <<>> /\ bus' = [bus EXCEPT ![k] = Tail(@)]
          /\ UNCHANGED <<registered, turn, owed, journal>>
        BY <1>16, CommandIs
    <2>2. FiledBus'
        BY <1>b, <1>f, <2>1, KeyedTail DEF FiledBus
    <2>3. QED
        BY <1>f, <1>g, <2>1, <2>2 DEF FiledQueues, FiledHands, Key
<1>3. ASSUME NEW k \in Keys, ConsumeFollowUp(k) PROVE Filed'
    <2> DEFINE r == registered[k]
               m == Head(bus[k])
    <2>1. /\ bus[k] # <<>> /\ bus' = [bus EXCEPT ![k] = Tail(@)]
          /\ r \in Turns /\ r # None
          /\ \A t \in Turns \ {r} : turn'[t] = turn[t]
          /\ turn'[r].pc = turn[r].pc /\ turn'[r].opener = turn[r].opener /\ turn'[r].hand = turn[r].hand
          /\ \/ /\ turn'[r].inject = Append(turn[r].inject, m)
                /\ turn'[r].deferred = turn[r].deferred
             \/ /\ turn'[r].deferred = Append(turn[r].deferred, m)
                /\ turn'[r].inject = turn[r].inject
          /\ UNCHANGED <<registered, owed, journal>>
        BY <1>3, FollowUpIs DEF Untouched
    <2>2. m \in Message /\ m.key = k
        BY <1>b, <1>f, <2>1, HeadTail, KeyedTail DEF FiledBus
    <2>3. turn[r].inject \in Seq(Message) /\ turn[r].deferred \in Seq(Message)
        BY <2>1, MessagesOf
    <2>4. FiledBus'
        BY <1>b, <1>f, <2>1, KeyedTail DEF FiledBus
    <2> HIDE DEF m
    <2>5. Keyed(turn'[r].inject, k) /\ Keyed(turn'[r].deferred, k)
        <3>1. Keyed(turn[r].inject, k) /\ Keyed(turn[r].deferred, k)
            BY <1>f, <2>1 DEF FiledQueues
        <3> DEFINE s == turn[r].inject
                   d == turn[r].deferred
        <3>3. s \in Seq(Message) /\ d \in Seq(Message) /\ Keyed(s, k) /\ Keyed(d, k)
            BY <2>3, <3>1
        <3>4. \/ turn'[r].inject = Append(s, m) /\ turn'[r].deferred = d
              \/ turn'[r].deferred = Append(d, m) /\ turn'[r].inject = s
            BY <2>1 DEF m
        <3> HIDE DEF s, d
        <3>5. Keyed(Append(s, m), k) /\ Keyed(Append(d, m), k)
            BY <2>2, <3>3, KeyedAppend
        <3>2. QED
            BY <3>3, <3>4, <3>5
    <2>6. FiledQueues'
        <3>1. ASSUME NEW j \in Keys, registered[j] # None, j # k
              PROVE  Keyed(turn'[registered[j]].inject, j) /\ Keyed(turn'[registered[j]].deferred, j)
            <4>1. registered[j] \in Turns \ {r}
                BY <1>b, <1>r, <3>1
            <4>2. QED
                BY <1>f, <2>1, <3>1, <4>1 DEF FiledQueues
        <3>2. QED
            BY <2>1, <2>5, <3>1 DEF FiledQueues
    <2>7. FiledHands'
        BY <1>f, <2>1 DEF FiledHands, Key
    <2>8. QED
        BY <1>g, <2>4, <2>6, <2>7
<1>4. ASSUME NEW k \in Keys, ConsumeOpener(k) PROVE Filed'
    <2> DEFINE j == Head(bus[k]).key
    <2>1. /\ bus[k] # <<>> /\ bus' = [bus EXCEPT ![k] = Tail(@)] /\ UNCHANGED <<owed, journal>>
          /\ j \in Keys
        BY <1>4, OpenerIs
    <2>2. PICK t \in Turns :
             /\ turn'[t].pc = "created" /\ turn'[t].inject = <<>> /\ turn'[t].deferred = <<>>
             /\ ~IsRegistered(t)
             /\ \A u \in Turns \ {t} : Untouched(u)
             /\ registered' = [registered EXCEPT ![j] = t]
        BY <1>4, OpenerIs, ZenonT(30)
    <2> HIDE DEF j
    <2>3. FiledBus'
        BY <1>b, <1>f, <2>1, KeyedTail DEF FiledBus
    <2>4. FiledHands'
        BY <1>f, <2>2 DEF FiledHands, Key, Untouched
    <2>5. FiledQueues'
        <3>1. ASSUME NEW i \in Keys, i # j, registered[i] # None
              PROVE  Keyed(turn'[registered[i]].inject, i) /\ Keyed(turn'[registered[i]].deferred, i)
            <4>1. registered[i] \in Turns \ {t}
                BY <1>b, <2>2, <3>1 DEF IsRegistered
            <4>2. QED
                BY <1>f, <2>2, <3>1, <4>1 DEF FiledQueues, Untouched
        <3>2. Keyed(turn'[t].inject, j) /\ Keyed(turn'[t].deferred, j)
            BY <2>2, KeyedEmpty
        <3>3. QED
            BY <1>b, <2>1, <2>2, <3>1, <3>2 DEF FiledQueues
    <2>6. QED
        BY <1>g, <2>3, <2>4, <2>5
<1>5. ASSUME NEW t \in Turns, Begin(t) \/ Run(t) \/ Finish(t) \/ UnwindBody(t) PROVE Filed'
    <2>1. /\ \A u \in Turns : Holding(u) /\ (turn'[u].pc = "handback" => turn[u].pc = "handback")
          /\ UNCHANGED <<bus, registered, owed, journal>>
        BY <1>5, AdvanceIs DEF Untouched, Holding
    <2>2. QED
        BY <1>b, <1>f, <1>g, <2>1 DEF FiledQueues, FiledHands, FiledBus, Key, Holding
<1>6. ASSUME NEW t \in Turns, PullSteers(t) \/ PullAll(t) PROVE Filed'
    <2> DEFINE n == Batch - Len(Take(turn[t].inject, Batch))
    <2>1. /\ turn'[t].pc = "running" /\ \A u \in Turns \ {t} : turn'[u] = turn[u]
          /\ turn'[t].inject = Rest(turn[t].inject, Batch)
          /\ turn'[t].deferred = turn[t].deferred \/ turn'[t].deferred = Rest(turn[t].deferred, n)
          /\ UNCHANGED <<bus, registered, owed, journal>>
        BY <1>6, PullIs DEF Untouched
    <2>a. turn[t].inject \in Seq(Message) /\ turn[t].deferred \in Seq(Message) /\ Batch \in Nat
        BY MessagesOf, SizesAssumption
    <2>2. n \in Nat /\ Batch \in Nat
        <3> DEFINE a == Take(turn[t].inject, Batch)
                   q == turn[t].inject
        <3>1. q \in Seq(Message) /\ Batch \in Nat
            BY <2>a
        <3> HIDE DEF q
        <3>2. Len(Take(q, Batch)) = IF Batch < Len(q) THEN Batch ELSE Len(q)
            BY <3>1, TakeRest
        <3>3. Len(q) \in Nat
            BY <3>1
        <3>4. Batch - Len(Take(q, Batch)) \in Nat
            BY <3>1, <3>2, <3>3
        <3>5. QED
            BY <3>1, <3>4 DEF q
    <2> HIDE DEF n
    <2>3. \A k : (Keyed(turn[t].inject, k) => Keyed(turn'[t].inject, k))
                 /\ (Keyed(turn[t].deferred, k) => Keyed(turn'[t].deferred, k))
        BY <2>1, <2>2, <2>a, KeyedRest
    <2>4. QED
        BY <1>b, <1>f, <1>g, <2>1, <2>3 DEF FiledQueues, FiledHands, FiledBus, Key
<1>7. ASSUME NEW t \in Turns, Leave(t) \/ Refuse(t) PROVE Filed'
    <2>1. turn[t].pc # "free" /\ Live(t) /\ GiveBack(t) /\ UNCHANGED <<owed, journal>>
        BY <1>7 DEF Leave, Refuse, Undisturbed, Live, GiveBack
    <2> DEFINE k == Key(t)
               q == Leftover(t)
    <2>2. /\ k \in Keys /\ q \in Seq(Message) /\ registered' = [registered EXCEPT ![k] = None]
          /\ \A u \in Turns \ {t} :
                turn'[u].pc = turn[u].pc /\ turn'[u].opener = turn[u].opener /\ turn'[u].hand = turn[u].hand
          /\ \A u \in Turns \ {t} : registered[k] # u =>
                turn'[u].inject = turn[u].inject /\ turn'[u].deferred = turn[u].deferred
          /\ \/ turn'[t].opener = turn[t].opener /\ turn'[t].hand = q
             \/ turn'[t] = Idle
          /\ UNCHANGED bus
        BY <2>1, GiveBackIs
    <2>3. Keyed(q, k)
        BY <2>2, PendingKeyed DEF Pending, Leftover
    <2> HIDE DEF q
    <2>4. FiledBus'
        BY <1>f, <2>1, <2>2 DEF FiledBus
    <2>5. FiledHands'
        BY <1>f, <2>2, <2>3, SMTT(30) DEF FiledHands, Key, Idle
    <2>6. \A j \in Keys : registered[j] = t => j = k
        BY <2>1, NoneAssumption DEF Routing, RoutedOK
    <2> HIDE DEF k
    <2>7. FiledQueues'
        <3>1. ASSUME NEW j \in Keys, registered'[j] # None
              PROVE  Keyed(turn'[registered'[j]].inject, j) /\ Keyed(turn'[registered'[j]].deferred, j)
            <4>1. j # k /\ registered'[j] = registered[j] /\ registered[j] \in Turns
                BY <1>b, <2>2, <3>1
            <4>2. registered[j] # t /\ registered[k] # registered[j]
                BY <1>r, <2>2, <2>6, <3>1, <4>1
            <4>3. QED
                BY <1>f, <2>2, <3>1, <4>1, <4>2 DEF FiledQueues
        <3>2. QED
            BY <3>1 DEF FiledQueues
    <2>8. QED
        BY <1>g, <2>4, <2>5, <2>7
<1>8. ASSUME NEW t \in Turns, HandBack(t) PROVE Filed'
    <2> DEFINE k == Key(t)
               h == turn[t].hand
    <2>1. /\ \A u \in Turns \ {t} : turn'[u] = turn[u]
          /\ turn[t].pc = "handback" /\ k \in Keys /\ h \in Seq(Message) /\ h # <<>>
          /\ bus' = [bus EXCEPT ![k] = Append(@, Head(h))] \/ UNCHANGED bus
          /\ \/ turn'[t] = Idle
             \/ turn'[t].opener = turn[t].opener /\ turn'[t].hand = Tail(h)
          /\ UNCHANGED <<registered, owed, journal>>
        BY <1>8, HandBackIs DEF Untouched
    <2>2. Head(h) \in Message /\ Head(h).key = k /\ Keyed(Tail(h), k)
        BY <1>f, <2>1, HeadTail, KeyedTail DEF FiledHands
    <2>3. \A j \in Keys : registered[j] # t
        BY <2>1, NoneAssumption DEF Routing, RoutedOK, Live
    <2> DEFINE m == Head(h)
    <2> HIDE DEF h
    <2>4. FiledBus'
        <3>1. CASE UNCHANGED bus
            BY <1>f, <2>1, <3>1 DEF FiledBus
        <3>2. CASE bus' = [bus EXCEPT ![k] = Append(@, m)]
            <4> HIDE DEF m
            <4>1. Keyed(Append(bus[k], m), k)
                BY <1>b, <1>f, <2>1, <2>2, KeyedAppend DEF FiledBus, m
            <4>2. bus'[k] = Append(bus[k], m) /\ \A j \in Keys \ {k} : bus'[j] = bus[j]
                BY <2>1, <3>2 DEF TypeOK, Messages
            <4>3. QED
                BY <1>f, <2>1, <4>1, <4>2 DEF FiledBus
        <3>3. QED
            BY <2>1, <3>1, <3>2
    <2>5. FiledHands'
        <3>1. turn'[t].pc = "handback" => turn'[t].opener = turn[t].opener /\ turn'[t].hand = Tail(h)
            BY <2>1 DEF Idle
        <3>2. turn'[t].pc = "handback" => Keyed(turn'[t].hand, Key(t)')
            BY <2>2, <3>1 DEF Key
        <3>3. QED
            BY <1>f, <2>1, <3>2 DEF FiledHands, Key
    <2>6. FiledQueues'
        BY <1>b, <1>f, <2>1, <2>3 DEF FiledQueues
    <2>7. QED
        BY <1>g, <2>4, <2>5, <2>6
<1>9. ASSUME NEW t \in Turns, DropUnstarted(t) \/ UnwindHandBack(t) PROVE Filed'
    <2>1. /\ \A u \in Turns \ {t} : turn'[u] = turn[u]
          /\ \/ turn'[t].inject = turn[t].inject /\ turn'[t].deferred = turn[t].deferred
             \/ turn'[t].inject = <<>> /\ turn'[t].deferred = <<>>
          /\ turn'[t].pc = "free" /\ UNCHANGED <<bus, registered, owed, journal>>
        BY <1>9, DropIs DEF Untouched
    <2>2. QED
        BY <1>b, <1>f, <1>g, <2>1, KeyedEmpty DEF FiledQueues, FiledHands, FiledBus, Key
<1>10. CASE BeginDrain
    <2>1. /\ owed' = [k \in Keys |-> TakenFrom(k)]
          /\ \A k \in Keys : registered'[k] # None => registered'[k] = registered[k]
          /\ \A t \in Turns :
                /\ turn'[t].pc = turn[t].pc /\ turn'[t].opener = turn[t].opener
                /\ turn'[t].hand = turn[t].hand
                /\ \/ turn'[t].inject = <<>> /\ turn'[t].deferred = <<>>
                   \/ turn'[t].inject = turn[t].inject /\ turn'[t].deferred = turn[t].deferred
          /\ UNCHANGED <<bus, journal>>
        BY <1>10, BeginDrainIs
    <2>2. ASSUME NEW k \in Keys PROVE Keyed(TakenFrom(k), k)
        <3>1. CASE active[k] = <<>>
            BY <3>1, KeyedEmpty DEF TakenFrom
        <3>2. CASE active[k] # <<>>
            <4> DEFINE o == Openers(k)
                       q == IF registered[k] = None THEN <<>> ELSE Queued(registered[k])
            <4>1. o \in Seq(Message) /\ Keyed(o, k)
                <5>1. o \in Seq(Message)
                    BY OpenersType DEF NoneOutlives
                <5>2. active[k] \in Seq(Turns) /\ Len(o) = Len(active[k])
                      /\ \A i \in 1..Len(active[k]) : o[i] = turn[active[k][i]].opener
                    BY DEF TypeOK, Openers
                <5>3. \A i \in 1..Len(active[k]) : active[k][i] \in ToSet(active[k])
                    BY <5>2 DEF ToSet
                <5>4. \A i \in 1..Len(active[k]) : o[i].key = k
                    BY <5>2, <5>3 DEF NoneOutlives, ListedOK, Key
                <5> HIDE DEF o
                <5>5. QED
                    BY <5>1, <5>2, <5>4, InSeq DEF Keyed
            <4>2. q \in Seq(Message) /\ Keyed(q, k)
                BY PendingKeyed DEF Pending
            <4>3. TakenFrom(k) = o \o q
                BY <3>2 DEF TakenFrom
            <4> HIDE DEF o, q
            <4>4. QED
                BY <4>1, <4>2, <4>3, KeyedJoin
        <3>3. QED
            BY <3>1, <3>2
    <2>3. FiledBus'
        BY <1>f, <2>1, <2>2 DEF FiledBus
    <2>4. FiledHands'
        BY <1>f, <2>1 DEF FiledHands, Key
    <2>5. FiledQueues'
        BY <1>b, <1>f, <2>1, KeyedEmpty, ZenonT(30) DEF FiledQueues
    <2>6. QED
        BY <1>g, <2>3, <2>4, <2>5
<1>11. CASE EndDrain
    <2>1. /\ owed' = Nothing /\ bus' = Nothing /\ registered' = [k \in Keys |-> None]
          /\ journal' = [k \in Keys |-> journal[k] \o owed[k] \o bus[k] \o
                            (IF registered[k] = None THEN <<>> ELSE Queued(registered[k]))]
          /\ \A t \in Turns : turn'[t].pc = turn[t].pc /\ turn'[t].opener = turn[t].opener
                              /\ turn'[t].hand = turn[t].hand
        BY <1>11, EndDrainIs
    <2>2. ASSUME NEW k \in Keys PROVE Keyed(journal'[k], k)
        <3> DEFINE q == IF registered[k] = None THEN <<>> ELSE Queued(registered[k])
        <3>1. q \in Seq(Message) /\ Keyed(q, k)
            BY PendingKeyed DEF Pending
        <3>2. journal'[k] = journal[k] \o owed[k] \o bus[k] \o q
            BY <2>1
        <3> HIDE DEF q
        <3> DEFINE a == journal[k]
                   b == owed[k]
                   c == bus[k]
        <3>3. /\ a \in Seq(Message) /\ b \in Seq(Message) /\ c \in Seq(Message)
              /\ Keyed(a, k) /\ Keyed(b, k) /\ Keyed(c, k)
            BY <1>b, <1>f DEF FiledBus
        <3> HIDE DEF a, b, c
        <3>4. a \o b \in Seq(Message) /\ Keyed(a \o b, k)
            BY <3>3, Joined, KeyedJoin
        <3>5. (a \o b) \o c \in Seq(Message) /\ Keyed((a \o b) \o c, k)
            BY <3>3, <3>4, Joined, KeyedJoin
        <3>6. Keyed(((a \o b) \o c) \o q, k)
            BY <3>1, <3>5, KeyedJoin
        <3>7. QED
            BY <3>2, <3>6 DEF a, b, c
    <2>3. QED
        BY <1>f, <1>g, <2>1, <2>2, KeyedEmpty DEF FiledQueues, FiledHands, FiledBus, Key, Nothing
<1>12. CASE Restart
    <2>1. /\ bus' = Nothing /\ turn' = [t \in Turns |-> Idle] /\ UNCHANGED <<registered, owed, journal>>
          /\ \A k \in Keys : registered[k] = None
        BY <1>12 DEF Restart, Routing, PhaseOK
    <2>2. QED
        BY <1>f, <1>g, <2>1, KeyedEmpty DEF FiledQueues, FiledHands, FiledBus, Nothing, Idle
<1>13. CASE Replay
    <2>1. /\ bus' = [k \in Keys |-> bus[k] \o journal[k]] /\ journal' = Nothing
          /\ UNCHANGED <<registered, turn, owed>>
        BY <1>13 DEF Replay
    <2>2. FiledBus'
        BY <1>b, <1>f, <2>1, KeyedJoin, KeyedEmpty DEF FiledBus, Nothing
    <2>3. QED
        BY <1>f, <1>g, <2>1, <2>2 DEF FiledQueues, FiledHands, Key
<1>14. CASE StopDone \/ StopIntake \/ UNCHANGED vars
    <2>1. UNCHANGED <<bus, owed, journal, registered, turn>>
        BY <1>14 DEF StopDone, StopIntake, vars
    <2>2. QED
        BY <1>f, <1>g, <2>1 DEF FiledQueues, FiledHands, FiledBus, Key
<1>15. QED
    BY <1>1, <1>2, <1>16, <1>3, <1>4, <1>5, <1>6, <1>7, <1>8, <1>9, <1>10, <1>11, <1>12, <1>13, <1>14
       DEF Next, Consume, TurnStep

LEMMA FiledInvariant == Spec => []Filed
<1>1. Init => Filed
    BY KeyedEmpty DEF Init, Filed, Nothing, Idle
<1>2. TypeOK /\ NoneOutlives /\ Routing /\ Filed /\ [Next]_vars => Filed'
    BY FiledStep
<1>3. QED
    BY <1>1, <1>2, RoutingInvariant, PTL DEF Spec

---------------------------------------------------------------------------
(* One turn at a time                                                      *)

\* While messages are taken off the bus, the queues registered for a session
\* have room for one more.
RoomLeft ==
    gateway = "serving" =>
        \A k \in Keys : registered[k] # None =>
            /\ Len(turn[registered[k]].inject) < QueueCap
            /\ Len(turn[registered[k]].deferred) < QueueCap

\* Until the drain, follow-ups join the queues of the turn that is live.
OwnQueues == Early => \A t \in Turns : Live(t) => registered[Key(t)] = t

LEMMA OneTurnStep ==
    ASSUME TypeOK, NoneOutlives, Routing, Filed, RoomLeft, OwnQueues, NoCompetingTurns,
           [Next]_vars
    PROVE  OwnQueues' /\ NoCompetingTurns'
<1>k. \A t \in Turns : turn[t].pc # "free" => Key(t) \in Keys
    BY MessagesOf
\* The live turns are the same ones or fewer, and none of those left is deregistered.
<1>s. ASSUME \A t \in Turns : Live(t)' => Live(t) /\ turn'[t].opener = turn[t].opener,
             \A t \in Turns : Live(t)' /\ Early' => registered'[Key(t)] = registered[Key(t)] /\ Early
      PROVE  OwnQueues' /\ NoCompetingTurns'
    <2>1. \A t \in Turns : Live(t)' => Key(t)' = Key(t)
        BY <1>s DEF Key
    <2>2. OwnQueues'
        BY <1>s, <2>1 DEF OwnQueues
    <2>3. NoCompetingTurns'
        BY <1>s, <2>1 DEF NoCompetingTurns
    <2>4. QED
        BY <2>2, <2>3
<1>1. ASSUME UNCHANGED <<turn, registered>>, Early' => Early PROVE OwnQueues' /\ NoCompetingTurns'
    BY <1>1, <1>s DEF Live
<1>2. ASSUME NEW k \in Keys, ConsumeStop(k) PROVE OwnQueues' /\ NoCompetingTurns'
    <2>1. UNCHANGED <<registered, gateway>>
          /\ \A t \in Turns : turn'[t].pc = turn[t].pc /\ turn'[t].opener = turn[t].opener
        BY <1>2, StopIs DEF Holding
    <2>2. QED
        BY <2>1, <1>s DEF Live, Early
<1>3. ASSUME NEW k \in Keys, ConsumeFollowUp(k) PROVE OwnQueues' /\ NoCompetingTurns'
    <2>1. UNCHANGED <<registered, gateway>>
          /\ \A t \in Turns : turn'[t].pc = turn[t].pc /\ turn'[t].opener = turn[t].opener
        BY <1>3, FollowUpIs DEF Untouched
    <2>2. QED
        BY <2>1, <1>s DEF Live, Early
<1>4. ASSUME NEW k \in Keys, ConsumeOpener(k) PROVE OwnQueues' /\ NoCompetingTurns'
    <2> DEFINE m == Head(bus[k])
    <2>1. /\ gateway = "serving" /\ bus[k] # <<>> /\ m \in Message /\ ~HasRoom(k, m)
          /\ UNCHANGED gateway
        BY <1>4, OpenerIs
    <2>2. m.key = k
        <3>1. bus[k] \in Seq(Message) /\ Keyed(bus[k], k)
            BY DEF TypeOK, Messages, Filed
        <3>2. QED
            BY <2>1, <3>1, KeyedTail
    <2>3. registered[k] = None
        <3>1. Target(m) = "inject" \/ Target(m) = "deferred"
            BY DEF Target
        <3>2. QED
            BY <2>1, <3>1 DEF HasRoom, RoomLeft
    <2>4. \A u \in Turns : Live(u) => Key(u) # k
        BY <2>1, <2>3, NoneAssumption DEF OwnQueues, Early
    <2>5. PICK t \in Turns :
             /\ turn'[t].pc = "created" /\ turn'[t].opener = m
             /\ \A u \in Turns \ {t} : Untouched(u)
             /\ registered' = [registered EXCEPT ![m.key] = t]
        BY <1>4, OpenerIs, ZenonT(30)
    <2> HIDE DEF m
    <2>6. Key(t)' = k /\ \A u \in Turns \ {t} : Live(u)' => Live(u) /\ Key(u)' = Key(u) /\ Key(u) \in Keys
        BY <2>2, <2>5, <1>k DEF Key, Untouched, Live
    <2>7. registered'[k] = t /\ \A j \in Keys \ {k} : registered'[j] = registered[j]
        BY <2>2, <2>5 DEF TypeOK
    <2>8. OwnQueues'
        BY <2>1, <2>4, <2>6, <2>7 DEF OwnQueues, Early
    <2>9. NoCompetingTurns'
        BY <2>4, <2>6 DEF NoCompetingTurns
    <2>10. QED
        BY <2>8, <2>9
<1>5. ASSUME NEW t \in Turns, Begin(t) \/ Run(t) \/ Finish(t) \/ UnwindBody(t)
      PROVE  OwnQueues' /\ NoCompetingTurns'
    <2>1. UNCHANGED <<registered, gateway>> /\ Live(t) /\ turn'[t].opener = turn[t].opener
          /\ \A u \in Turns \ {t} : Untouched(u)
        BY <1>5, AdvanceIs DEF Holding, Live
    <2>2. \A u \in Turns : Live(u)' => Live(u) /\ turn'[u].opener = turn[u].opener
        BY <2>1 DEF Untouched, Live
    <2>3. QED
        BY <2>1, <2>2, <1>s DEF Early
<1>6. ASSUME NEW t \in Turns, PullSteers(t) \/ PullAll(t) PROVE OwnQueues' /\ NoCompetingTurns'
    <2>1. UNCHANGED <<registered, gateway>> /\ Live(t) /\ turn'[t].opener = turn[t].opener
          /\ \A u \in Turns \ {t} : Untouched(u)
        BY <1>6, PullIs DEF Live
    <2>2. \A u \in Turns : Live(u)' => Live(u) /\ turn'[u].opener = turn[u].opener
        BY <2>1 DEF Untouched, Live
    <2>3. QED
        BY <2>1, <2>2, <1>s DEF Early
<1>7. ASSUME NEW t \in Turns, Leave(t) \/ Refuse(t) PROVE OwnQueues' /\ NoCompetingTurns'
    <2>1. turn[t].pc # "free" /\ Live(t) /\ GiveBack(t) /\ UNCHANGED gateway
        BY <1>7 DEF Leave, Refuse, Undisturbed, Live, GiveBack
    <2>2. /\ Key(t) \in Keys /\ registered' = [registered EXCEPT ![Key(t)] = None]
          /\ \A u \in Turns \ {t} : turn'[u].pc = turn[u].pc /\ turn'[u].opener = turn[u].opener
          /\ ~Live(t)'
        BY <2>1, GiveBackIs DEF Live, Idle
    <2>3. \A u \in Turns : Live(u)' => u # t /\ Live(u) /\ turn'[u].opener = turn[u].opener
        BY <2>2 DEF Live
    <2>4. \A u \in Turns : Live(u)' => Key(u) # Key(t) /\ Key(u) \in Keys
        BY <2>1, <2>3, <1>k DEF NoCompetingTurns, Live
    <2>5. QED
        BY <2>1, <2>2, <2>3, <2>4, <1>s DEF Early, TypeOK
<1>8. ASSUME NEW t \in Turns, HandBack(t) \/ DropUnstarted(t) \/ UnwindHandBack(t)
      PROVE  OwnQueues' /\ NoCompetingTurns'
    <2>1. UNCHANGED <<registered, gateway>> /\ ~Live(t)' /\ \A u \in Turns \ {t} : Untouched(u)
        <3>1. CASE HandBack(t)
            <4>1. turn'[t].pc \in {"free", "handback"} /\ \A u \in Turns \ {t} : Untouched(u)
                <5>1. Idle.pc = "free"
                    BY DEF Idle
                <5>2. turn'[t] = Idle \/ turn'[t].pc = "handback"
                    BY <3>1, HandBackIs
                <5>3. \A u \in Turns \ {t} : Untouched(u)
                    BY <3>1, HandBackIs
                <5>4. QED
                    BY <5>1, <5>2, <5>3
            <4>2. UNCHANGED <<registered, gateway>>
                BY <3>1 DEF HandBack
            <4>3. QED
                BY <4>1, <4>2 DEF Live
        <3>2. CASE DropUnstarted(t) \/ UnwindHandBack(t)
            <4>1. turn'[t].pc = "free" /\ \A u \in Turns \ {t} : Untouched(u)
                BY <3>2, DropIs
            <4>2. UNCHANGED <<registered, gateway>>
                BY <3>2 DEF DropUnstarted, UnwindHandBack
            <4>3. QED
                BY <4>1, <4>2 DEF Live
        <3>3. QED
            BY <1>8, <3>1, <3>2
    <2>2. \A u \in Turns : Live(u)' => Live(u) /\ turn'[u].opener = turn[u].opener
        BY <2>1 DEF Untouched, Live
    <2>3. QED
        BY <2>1, <2>2, <1>s DEF Early
<1>9. CASE BeginDrain \/ EndDrain
    <2>1. ~Early' /\ \A t \in Turns : turn'[t].pc = turn[t].pc /\ turn'[t].opener = turn[t].opener
        BY <1>9, BeginDrainIs, EndDrainIs DEF Early
    <2>2. QED
        BY <2>1, <1>s DEF Live
<1>10. CASE Restart
    <2>1. \A t \in Turns : ~Live(t)'
        BY <1>10 DEF Restart, Live, Idle
    <2>2. QED
        BY <2>1, <1>s
<1>11. QED
    <2>1. ASSUME StopDone \/ UNCHANGED vars \/ StopIntake \/ Replay
                 \/ (\E k \in Keys : ConsumeCommand(k))
                 \/ \E k \in Keys, kind \in Kinds : Publish(k, kind)
          PROVE  UNCHANGED <<turn, registered>> /\ (Early' => Early)
        BY <2>1 DEF StopDone, vars, Publish, ConsumeCommand, StopIntake, Replay, Early
    <2>2. QED
        BY <1>1, <1>2, <1>3, <1>4, <1>5, <1>6, <1>7, <1>8, <1>9, <1>10, <2>1
           DEF Next, Consume, TurnStep

LEMMA OneTurnInvariant == Spec /\ []RoomLeft => [](OwnQueues /\ NoCompetingTurns)
<1>1. Init => OwnQueues /\ NoCompetingTurns
    BY DEF Init, OwnQueues, NoCompetingTurns, Live, Idle
<1>2. TypeOK /\ NoneOutlives /\ Routing /\ Filed /\ RoomLeft /\ OwnQueues /\ NoCompetingTurns /\ [Next]_vars
        => OwnQueues' /\ NoCompetingTurns'
    BY OneTurnStep
<1>3. QED
    BY <1>1, <1>2, RoutingInvariant, FiledInvariant, PTL DEF Spec

\* A follow-up never starts "a competing task" (loop.py:2725-2728), across /stop,
\* refusals, the drain and restarts: as long as no pending queue is full when a
\* message is taken off the bus, a session has one turn at a time.
THEOREM OneTurnPerSession == Spec /\ []RoomLeft => []NoCompetingTurns
BY OneTurnInvariant, PTL

---------------------------------------------------------------------------
(* Nothing that waits is lost                                              *)

\* The ids of the messages in the queues registered for k.
PendingIds(k) ==
    IF registered[k] = None THEN {}
    ELSE IdsOf(turn[registered[k]].inject) \cup IdsOf(turn[registered[k]].deferred)

LEMMA PendingIdsOf ==
    ASSUME TypeOK, NEW k \in Keys
    PROVE  IdsOf(Pending(k)) = PendingIds(k)
<1>1. CASE registered[k] = None
    BY <1>1, NoMessages DEF Pending, PendingIds
<1>2. CASE registered[k] # None
    <2> DEFINE s == turn[registered[k]].inject
               r == turn[registered[k]].deferred
    <2>1. s \in Seq(Message) /\ r \in Seq(Message)
        BY <1>2, MessagesOf DEF TypeOK
    <2>2. Pending(k) = s \o r /\ PendingIds(k) = IdsOf(s) \cup IdsOf(r)
        BY <1>2 DEF Pending, Queued, PendingIds
    <2> HIDE DEF s, r
    <2>3. QED
        BY <2>1, <2>2, Joined
<1>3. QED
    BY <1>1, <1>2

\* The message i is with k: on the bus, with the drain, on disk or in k's queues.
With(k, i) ==
    i \in IdsOf(bus[k]) \cup IdsOf(owed[k]) \cup IdsOf(journal[k]) \cup PendingIds(k)

\* The task t has i to answer, and nobody has cancelled it.
ToAnswer(t, i) ==
    /\ ~turn[t].doomed
    /\ \/ turn[t].pc \in {"created", "waiting", "running"} /\ turn[t].opener.id = i
       \/ turn[t].pc = "running" /\ i \in IdsOf(turn[t].pulled)

\* The task t is handing i back.
InHand(t, i) == turn[t].pc = "handback" /\ i \in IdsOf(turn[t].hand)

Waits(i)  == \/ \E k \in Keys : With(k, i)
             \/ \E t \in Turns : ToAnswer(t, i)
             \/ \E t \in Turns : InHand(t, i)
OwedWaits == \A i \in Ids : fate[i] = "owed" => Waits(i)

LEMMA OwedWaitsIsEnough ==
    ASSUME TypeOK, OwedWaits
    PROVE  WaitingKept
<1> SUFFICES ASSUME NEW i \in Ids, fate[i] = "owed" PROVE i \in ToBeTaken \cup InATurn
    BY DEF WaitingKept, Lost, Failures
<1>1. Waits(i)
    BY DEF OwedWaits
<1>5. ASSUME NEW t \in Turns, Reachable(t),
             i \in IdsOf(turn[t].inject) \cup IdsOf(turn[t].deferred) \cup IdsOf(turn[t].hand)
      PROVE  i \in ToBeTaken
    <2> DEFINE s == turn[t].inject
               r == turn[t].deferred
               h == turn[t].hand
    <2>1. s \in Seq(Message) /\ r \in Seq(Message) /\ h \in Seq(Message)
        BY MessagesOf
    <2>2. Queued(t) \o turn[t].hand = (s \o r) \o h
        BY DEF Queued
    <2>3. i \in IdsOf(s) \cup IdsOf(r) \cup IdsOf(h)
        BY <1>5
    <2> HIDE DEF s, r, h
    <2>4. s \o r \in Seq(Message) /\ IdsOf(s \o r) = IdsOf(s) \cup IdsOf(r)
        BY <2>1, Joined
    <2>5. IdsOf((s \o r) \o h) = IdsOf(s \o r) \cup IdsOf(h)
        BY <2>1, <2>4, Joined
    <2>6. i \in IdsOf(Queued(t) \o turn[t].hand)
        BY <2>2, <2>3, <2>4, <2>5
    <2>7. QED
        BY <1>5, <2>6 DEF ToBeTaken
<1>2. ASSUME NEW k \in Keys, With(k, i) PROVE i \in ToBeTaken
    <2>1. CASE i \in IdsOf(bus[k]) \cup IdsOf(owed[k]) \cup IdsOf(journal[k])
        BY <2>1 DEF ToBeTaken, IdsIn
    <2>2. CASE i \in PendingIds(k)
        <3>1. /\ registered[k] \in Turns
              /\ i \in IdsOf(turn[registered[k]].inject) \cup IdsOf(turn[registered[k]].deferred)
            BY <2>2 DEF PendingIds, TypeOK
        <3>2. Reachable(registered[k])
            BY DEF Reachable, IsRegistered
        <3>3. QED
            BY <3>1, <3>2, <1>5
    <2>3. QED
        BY <1>2, <2>1, <2>2 DEF With
<1>6. ASSUME NEW t \in Turns, InHand(t, i) PROVE i \in ToBeTaken
    BY <1>5, <1>6 DEF InHand, Reachable
<1>3. ASSUME NEW t \in Turns, ToAnswer(t, i) PROVE i \in ToBeTaken \cup InATurn
    <2>1. CASE turn[t].pc \in {"created", "waiting"}
        <3>1. (Undisturbed(t, "created") \/ Undisturbed(t, "waiting")) /\ turn[t].opener.id = i
            BY <1>3, <2>1 DEF ToAnswer, Undisturbed
        <3>2. QED
            BY <3>1 DEF ToBeTaken
    <2>2. CASE turn[t].pc = "running"
        <3>1. \E m \in Taken(t) : m.id = i
            BY <1>3, <2>2, MessagesOf, IdsOfSet DEF ToAnswer, Taken
        <3>2. QED
            <4>1. i \in {m.id : m \in Taken(t)} /\ t \in {u \in Turns : turn[u].pc = "running"}
                BY <2>2, <3>1
            <4>2. i \in InATurn
                BY <4>1 DEF InATurn
            <4>3. QED
                BY <4>2
    <2>3. QED
        BY <1>3, <2>1, <2>2 DEF ToAnswer
<1>4. QED
    BY <1>1, <1>2, <1>3, <1>6 DEF Waits

\* A message that opens a turn finds no queues registered for its session.
LEMMA OpenerAlone ==
    ASSUME TypeOK, NoneOutlives, Filed, RoomLeft, NEW k \in Keys, ConsumeOpener(k)
    PROVE  Head(bus[k]).key = k /\ registered[k] = None
<1> DEFINE m == Head(bus[k])
<1>1. gateway = "serving" /\ bus[k] # <<>> /\ ~HasRoom(k, m)
    BY OpenerIs
<1>2. m.key = k
    <2>1. bus[k] \in Seq(Message) /\ Keyed(bus[k], k)
        BY DEF TypeOK, Messages, Filed
    <2>2. QED
        BY <1>1, <2>1, KeyedTail
<1>3. Target(m) = "inject" \/ Target(m) = "deferred"
    BY DEF Target
<1>4. registered[k] = None
    BY <1>1, <1>3 DEF HasRoom, RoomLeft
<1>5. QED
    BY <1>2, <1>4

\* The first message of the bus leaves it, the others stay.
LEMMA OthersOnBus ==
    ASSUME TypeOK, NEW k \in Keys, bus[k] # <<>>, bus' = [bus EXCEPT ![k] = Tail(@)],
           UNCHANGED <<owed, journal>>, NEW j \in Keys, NEW i, i # Head(bus[k]).id,
           PendingIds(j) \subseteq PendingIds(j)', With(j, i)
    PROVE  With(j, i)'
<1>1. bus[k] \in Seq(Message)
    BY DEF TypeOK, Messages
<1>2. IdsOf(bus[k]) = {Head(bus[k]).id} \cup IdsOf(Tail(bus[k]))
    BY <1>1, HeadTail
<1>3. i \in IdsOf(bus[j]) => i \in IdsOf(bus'[j])
    BY <1>2 DEF TypeOK, Messages
<1>4. QED
    BY <1>3 DEF With

\* No session loses messages: they are with it, or with somebody who answers them.
LEMMA StillWith ==
    ASSUME NEW k \in Keys, NEW i, With(k, i), IdsOf(bus[k]) \subseteq IdsOf(bus'[k]),
           PendingIds(k) \subseteq PendingIds(k)', UNCHANGED <<owed, journal>>
    PROVE  With(k, i)'
BY DEF With

\* Queues are not emptied under a session that keeps them.
LEMMA PendingKept ==
    ASSUME TypeOK, NEW k \in Keys, registered'[k] = registered[k],
           registered[k] \in Turns =>
              /\ IdsOf(turn[registered[k]].inject) \subseteq IdsOf(turn'[registered[k]].inject)
              /\ IdsOf(turn[registered[k]].deferred) \subseteq IdsOf(turn'[registered[k]].deferred)
    PROVE  PendingIds(k) \subseteq PendingIds(k)'
BY DEF PendingIds, TypeOK

LEMMA ConsumeKeeps ==
    ASSUME TypeOK, NoneOutlives, Routing, Filed, RoomLeft, OwedWaits,
           NEW k \in Keys, Consume(k)
    PROVE  OwedWaits'
<1> SUFFICES ASSUME NEW i \in Ids, fate'[i] = "owed" PROVE Waits(i)'
    BY DEF OwedWaits
<1> DEFINE m == Head(bus[k])
<1>b. bus[k] \in Seq(Message) /\ registered \in [Keys -> Turns \cup {None}] /\ fate \in [Ids -> Fates]
    BY DEF TypeOK, Messages
<1>1. CASE ConsumeStop(k)
    <2> DEFINE tasks == ToSet(active[k])
    <2>1. /\ bus[k] # <<>> /\ bus' = [bus EXCEPT ![k] = Tail(@)]
          /\ \A t \in Turns : Holding(t) /\ turn'[t].pc = turn[t].pc
          /\ \A t \in Turns : turn'[t].doomed = (turn[t].doomed \/ t \in tasks)
          /\ UNCHANGED <<registered, owed, journal>>
        BY <1>1, StopIs
    <2>2. fate' = Settled({m}, "answered",
                    Settled(UNION {Taken(t) : t \in tasks \ Over}, "stopped", fate))
        BY <1>1 DEF ConsumeStop
    <2>3. /\ fate[i] = "owed" /\ m.id # i
          /\ \A t \in tasks \ Over : \A x \in Taken(t) : x.id # i
        <3> DEFINE S == UNION {Taken(t) : t \in tasks \ Over}
        <3>1. fate'[i] = IF \E x \in {m} : x.id = i THEN "answered"
                         ELSE IF \E x \in S : x.id = i THEN "stopped" ELSE fate[i]
            BY <2>2 DEF Settled
        <3>2. fate[i] = "owed" /\ m.id # i /\ ~\E x \in S : x.id = i
            BY <3>1
        <3>3. QED
            BY <3>2
    <2>4. CASE \E j \in Keys : With(j, i)
        <3>1. PICK j \in Keys : With(j, i)
            BY <2>4
        <3>2. PendingIds(j) \subseteq PendingIds(j)'
            BY <2>1, PendingKept DEF Holding
        <3>3. With(j, i)'
            BY <2>1, <2>3, <3>1, <3>2, OthersOnBus
        <3>4. QED
            BY <3>3 DEF Waits
    <2>5. CASE \E t \in Turns : ToAnswer(t, i)
        <3>1. PICK t \in Turns : ToAnswer(t, i)
            BY <2>5
        <3>2. \E x \in Taken(t) : x.id = i
            <4>1. CASE turn[t].opener.id = i
                BY <4>1 DEF Taken
            <4>2. CASE i \in IdsOf(turn[t].pulled)
                <5>1. turn[t].pulled \in Seq(Message)
                    BY MessagesOf
                <5>2. PICK x \in ToSet(turn[t].pulled) : x.id = i
                    BY <4>2, <5>1, IdsOfSet
                <5>3. QED
                    BY <5>2 DEF Taken
            <4>3. QED
                BY <3>1, <4>1, <4>2 DEF ToAnswer
        <3>3. t \notin Over
            BY <3>1 DEF ToAnswer, Over
        <3>4. t \notin tasks
            BY <2>3, <3>2, <3>3
        <3>5. ToAnswer(t, i)'
            BY <2>1, <3>1, <3>4 DEF ToAnswer, Holding
        <3>6. QED
            BY <3>5 DEF Waits
    <2>7. CASE \E t \in Turns : InHand(t, i)
        BY <2>1, <2>7 DEF InHand, Holding, Waits
    <2>6. QED
        BY <2>3, <2>4, <2>5, <2>7 DEF OwedWaits, Waits
<1>5. CASE ConsumeCommand(k)
    <2>1. /\ bus[k] # <<>> /\ bus' = [bus EXCEPT ![k] = Tail(@)]
          /\ fate' = Settled({m}, "answered", fate)
          /\ UNCHANGED <<registered, turn, owed, journal>>
        BY <1>5, CommandIs
    <2>2. fate[i] = "owed" /\ m.id # i
        BY <2>1 DEF Settled
    <2>3. ASSUME NEW j \in Keys, With(j, i) PROVE Waits(i)'
        <3>1. PendingIds(j) \subseteq PendingIds(j)'
            BY <2>1 DEF PendingIds
        <3>2. With(j, i)'
            BY <2>1, <2>2, <2>3, <3>1, OthersOnBus
        <3>3. QED
            BY <3>2 DEF Waits
    <2>4. QED
        BY <2>1, <2>2, <2>3 DEF OwedWaits, Waits, ToAnswer, InHand
<1>2. CASE ConsumeFollowUp(k)
    <2> DEFINE r == registered[k]
    <2>1. /\ bus[k] # <<>> /\ bus' = [bus EXCEPT ![k] = Tail(@)]
          /\ r \in Turns /\ r # None
          /\ \A t \in Turns \ {r} : turn'[t] = turn[t]
          /\ turn'[r].pc = turn[r].pc /\ turn'[r].doomed = turn[r].doomed
          /\ turn'[r].opener = turn[r].opener /\ turn'[r].pulled = turn[r].pulled
          /\ turn'[r].hand = turn[r].hand
          /\ \/ /\ turn'[r].inject = Append(turn[r].inject, m)
                /\ turn'[r].deferred = turn[r].deferred
             \/ /\ turn'[r].deferred = Append(turn[r].deferred, m)
                /\ turn'[r].inject = turn[r].inject
          /\ UNCHANGED <<registered, owed, journal, fate>>
        BY <1>2, FollowUpIs DEF Untouched
    <2> DEFINE s == turn[r].inject
               d == turn[r].deferred
               si == turn'[r].inject
               di == turn'[r].deferred
    <2>2. s \in Seq(Message) /\ d \in Seq(Message) /\ m \in Message
        BY <1>b, <2>1, MessagesOf, HeadTail
    <2>3. (si = Append(s, m) /\ di = d) \/ (di = Append(d, m) /\ si = s)
        BY <2>1
    <2>4. /\ IdsOf(s) \subseteq IdsOf(si) /\ IdsOf(d) \subseteq IdsOf(di)
          /\ m.id \in IdsOf(si) \cup IdsOf(di)
        <3> HIDE DEF m, s, d, si, di
        <3>1. IdsOf(Append(s, m)) = IdsOf(s) \cup {m.id} /\ IdsOf(Append(d, m)) = IdsOf(d) \cup {m.id}
            BY <2>2, Appended
        <3>2. QED
            BY <2>3, <3>1
    <2>5. \A j \in Keys : PendingIds(j) \subseteq PendingIds(j)'
        BY <2>1, <2>4, PendingKept
    <2>6. CASE i = m.id
        <3>1. i \in PendingIds(k)'
            BY <2>1, <2>4, <2>6 DEF PendingIds
        <3>2. QED
            BY <3>1 DEF Waits, With
    <2>7. CASE i # m.id /\ \E j \in Keys : With(j, i)
        <3>1. PICK j \in Keys : With(j, i)
            BY <2>7
        <3>2. With(j, i)'
            BY <2>1, <2>5, <2>7, <3>1, OthersOnBus
        <3>3. QED
            BY <3>2 DEF Waits
    <2>8. CASE \E t \in Turns : ToAnswer(t, i)
        <3>1. PICK t \in Turns : ToAnswer(t, i)
            BY <2>8
        <3>2. ToAnswer(t, i)'
            BY <2>1, <3>1 DEF ToAnswer
        <3>3. QED
            BY <3>2 DEF Waits
    <2>10. CASE \E t \in Turns : InHand(t, i)
        <3>1. PICK t \in Turns : InHand(t, i)
            BY <2>10
        <3>2. InHand(t, i)'
            BY <2>1, <3>1 DEF InHand
        <3>3. QED
            BY <3>2 DEF Waits
    <2>9. QED
        BY <2>1, <2>6, <2>7, <2>8, <2>10 DEF OwedWaits, Waits
<1>3. CASE ConsumeOpener(k)
    <2>1. /\ bus[k] # <<>> /\ bus' = [bus EXCEPT ![k] = Tail(@)] /\ m \in Message
          /\ UNCHANGED <<owed, journal, fate>>
        BY <1>3, OpenerIs
    <2>2. m.key = k /\ registered[k] = None
        BY <1>3, OpenerAlone
    <2>3. PICK t \in Turns :
             /\ turn[t].pc = "free" /\ ~IsRegistered(t)
             /\ turn'[t].pc = "created" /\ turn'[t].opener = m /\ ~turn'[t].doomed
             /\ \A u \in Turns \ {t} : Untouched(u)
             /\ registered' = [registered EXCEPT ![m.key] = t]
        BY <1>3, OpenerIs
    <2> HIDE DEF m
    <2>4. \A j \in Keys : PendingIds(j) \subseteq PendingIds(j)'
        <3>1. PendingIds(k) = {}
            BY <2>2 DEF PendingIds
        <3>2. ASSUME NEW j \in Keys, j # k PROVE PendingIds(j) \subseteq PendingIds(j)'
            <4>1. registered'[j] = registered[j] /\ registered[j] # t
                BY <1>b, <2>2, <2>3, <3>2 DEF IsRegistered
            <4>2. QED
                BY <2>3, <4>1, PendingKept DEF Untouched
        <3>3. QED
            BY <3>1, <3>2
    <2>5. CASE i = m.id
        <3>1. ToAnswer(t, i)'
            BY <2>3, <2>5 DEF ToAnswer
        <3>2. QED
            BY <3>1 DEF Waits
    <2>6. CASE i # m.id /\ \E j \in Keys : With(j, i)
        <3>1. PICK j \in Keys : With(j, i)
            BY <2>6
        <3>2. With(j, i)'
            BY <2>1, <2>4, <2>6, <3>1, OthersOnBus DEF m
        <3>3. QED
            BY <3>2 DEF Waits
    <2>7. CASE \E u \in Turns : ToAnswer(u, i)
        <3>1. PICK u \in Turns : ToAnswer(u, i)
            BY <2>7
        <3>2. u # t
            BY <2>3, <3>1 DEF ToAnswer
        <3>3. ToAnswer(u, i)'
            BY <2>3, <3>1, <3>2 DEF ToAnswer, Untouched
        <3>4. QED
            BY <3>3 DEF Waits
    <2>9. CASE \E u \in Turns : InHand(u, i)
        <3>1. PICK u \in Turns : InHand(u, i)
            BY <2>9
        <3>2. InHand(u, i)'
            BY <2>3, <3>1 DEF InHand, Untouched
        <3>3. QED
            BY <3>2 DEF Waits
    <2>8. QED
        BY <2>1, <2>5, <2>6, <2>7, <2>9 DEF OwedWaits, Waits
<1>4. QED
    BY <1>1, <1>2, <1>3, <1>5 DEF Consume

\* A task that answers a message answers one it has taken.
LEMMA AnswersTaken ==
    ASSUME TypeOK, NEW t \in Turns, NEW i, ToAnswer(t, i)
    PROVE  \E x \in Taken(t) : x.id = i
<1>1. CASE turn[t].opener.id = i
    BY <1>1 DEF Taken
<1>2. CASE i \in IdsOf(turn[t].pulled)
    <2>1. turn[t].pulled \in Seq(Message)
        BY MessagesOf
    <2>2. PICK x \in ToSet(turn[t].pulled) : x.id = i
        BY <1>2, <2>1, IdsOfSet
    <2>3. QED
        BY <2>2 DEF Taken
<1>3. QED
    BY <1>1, <1>2 DEF ToAnswer

\* What a turn pulls goes from its queues to its hands.
LEMMA PullMoves ==
    ASSUME TypeOK, NEW t \in Turns, PullSteers(t) \/ PullAll(t)
    PROVE  /\ IdsOf(turn[t].pulled) \subseteq IdsOf(turn'[t].pulled)
           /\ IdsOf(turn[t].inject) \cup IdsOf(turn[t].deferred) \subseteq
                IdsOf(turn'[t].pulled) \cup IdsOf(turn'[t].inject) \cup IdsOf(turn'[t].deferred)
<1> DEFINE p == turn[t].pulled
           a == turn[t].inject
           b == turn[t].deferred
           ra == Rest(a, Batch)
           ta == Take(a, Batch)
           tb == Take(a \o b, Batch)
           rb == Rest(b, Batch - Len(ta))
<1>1. p \in Seq(Message) /\ a \in Seq(Message) /\ b \in Seq(Message) /\ Batch \in Nat
    BY MessagesOf, SizesAssumption
<1>2. \/ /\ turn'[t].pulled = p \o ta /\ turn'[t].inject = ra /\ turn'[t].deferred = b
      \/ /\ turn'[t].pulled = p \o tb /\ turn'[t].inject = ra /\ turn'[t].deferred = rb
    BY PullIs
<1> HIDE DEF p, a, b
<1>3. ta \in Seq(Message) /\ IdsOf(a) = IdsOf(ta) \cup IdsOf(ra)
    BY <1>1, TakeRest
<1>4. tb \in Seq(Message) /\ IdsOf(a) \cup IdsOf(b) = IdsOf(tb) \cup IdsOf(ra) \cup IdsOf(rb)
    BY <1>1, TakenFromBoth
<1> HIDE DEF ra, ta, tb, rb
<1>5. IdsOf(p \o ta) = IdsOf(p) \cup IdsOf(ta) /\ IdsOf(p \o tb) = IdsOf(p) \cup IdsOf(tb)
    BY <1>1, <1>3, <1>4, Joined
<1>6. QED
    BY <1>2, <1>3, <1>4, <1>5 DEF p, a, b

\* A session's messages stay with it when nobody touches them.
LEMMA AllStillWith ==
    ASSUME UNCHANGED <<bus, owed, journal>>, NEW i,
           \A k \in Keys : PendingIds(k) \subseteq PendingIds(k)',
           \E k \in Keys : With(k, i)
    PROVE  Waits(i)'
BY DEF With, Waits

LEMMA TurnKeeps ==
    ASSUME TypeOK, NoneOutlives, Routing, OwedWaits,
           NEW t \in Turns, TurnStep(t)
    PROVE  OwedWaits'
<1> SUFFICES ASSUME NEW i \in Ids, fate'[i] = "owed" PROVE Waits(i)'
    BY DEF OwedWaits
<1>b. registered \in [Keys -> Turns \cup {None}] /\ fate \in [Ids -> Fates] /\ bus \in [Keys -> Seq(Message)]
    BY DEF TypeOK, Messages
<1>1. CASE Begin(t) \/ Run(t) \/ Finish(t) \/ UnwindBody(t)
    <2>1. /\ \A u \in Turns \ {t} : Untouched(u)
          /\ Holding(t) /\ turn'[t].doomed = turn[t].doomed
          /\ \/ Begin(t) /\ turn[t].pc = "created" /\ turn'[t].pc = "waiting"
             \/ Run(t) /\ turn[t].pc = "waiting" /\ turn'[t].pc = "running" /\ ~turn[t].doomed
             \/ Finish(t) /\ turn[t].pc = "running" /\ turn'[t].pc = "ending" /\ ~turn[t].doomed
             \/ UnwindBody(t) /\ turn[t].pc = "running" /\ turn'[t].pc = "ending" /\ turn[t].doomed
          /\ UNCHANGED <<bus, registered, owed, journal>>
        BY <1>1, AdvanceIs
    <2>2. /\ fate[i] = "owed"
          /\ Finish(t) => ~\E x \in Taken(t) : x.id = i
        <3>1. CASE Finish(t)
            <4>1. fate'[i] = IF \E x \in Taken(t) : x.id = i THEN "answered" ELSE fate[i]
                BY <3>1 DEF Finish, Settled
            <4>2. QED
                BY <4>1
        <3>2. CASE ~Finish(t)
            <4>1. fate' = fate
                BY <1>1, <3>2 DEF Begin, Run, UnwindBody
            <4>2. QED
                BY <3>2, <4>1
        <3>3. QED
            BY <3>1, <3>2
    <2>3. CASE \E k \in Keys : With(k, i)
        <3>1. \A k \in Keys : PendingIds(k) \subseteq PendingIds(k)'
            BY <2>1, PendingKept DEF Holding, Untouched
        <3>2. QED
            BY <2>1, <2>3, <3>1, AllStillWith
    <2>4. CASE \E u \in Turns : ToAnswer(u, i)
        <3>1. PICK u \in Turns : ToAnswer(u, i)
            BY <2>4
        <3>2. u = t => ~Finish(t)
            BY <2>2, <3>1, AnswersTaken
        <3>3. ToAnswer(u, i)'
            <4>1. CASE u # t
                BY <2>1, <3>1, <4>1 DEF ToAnswer, Untouched
            <4>2. CASE u = t
                BY <2>1, <3>1, <3>2, <4>2 DEF ToAnswer, Holding
            <4>3. QED
                BY <4>1, <4>2
        <3>4. QED
            BY <3>3 DEF Waits
    <2>6. CASE \E u \in Turns : InHand(u, i)
        <3>1. PICK u \in Turns : InHand(u, i)
            BY <2>6
        <3>2. InHand(u, i)'
            BY <2>1, <3>1 DEF InHand, Untouched
        <3>3. QED
            BY <3>2 DEF Waits
    <2>5. QED
        BY <2>2, <2>3, <2>4, <2>6 DEF OwedWaits, Waits
<1>2. CASE PullSteers(t) \/ PullAll(t)
    <2>1. /\ \A u \in Turns \ {t} : Untouched(u)
          /\ turn[t].pc = "running" /\ ~turn[t].doomed
          /\ turn'[t].pc = "running" /\ ~turn'[t].doomed /\ turn'[t].opener = turn[t].opener
          /\ UNCHANGED <<bus, registered, owed, journal, fate>>
        BY <1>2, PullIs
    <2>2. /\ IdsOf(turn[t].pulled) \subseteq IdsOf(turn'[t].pulled)
          /\ IdsOf(turn[t].inject) \cup IdsOf(turn[t].deferred) \subseteq
               IdsOf(turn'[t].pulled) \cup IdsOf(turn'[t].inject) \cup IdsOf(turn'[t].deferred)
        BY <1>2, PullMoves
    <2>3. CASE i \in IdsOf(turn'[t].pulled)
        BY <2>1, <2>3 DEF Waits, ToAnswer
    <2>4. ASSUME NEW k \in Keys, With(k, i), i \notin IdsOf(turn'[t].pulled)
          PROVE  With(k, i)'
        <3>1. i \in PendingIds(k) => i \in PendingIds(k)'
            <4>1. CASE registered[k] = t
                BY <2>1, <2>2, <2>4, <4>1 DEF PendingIds
            <4>2. CASE registered[k] # t
                BY <1>b, <2>1, <4>2 DEF PendingIds, Untouched
            <4>3. QED
                BY <4>1, <4>2
        <3>2. QED
            BY <2>1, <2>4, <3>1 DEF With
    <2>5. ASSUME NEW u \in Turns, ToAnswer(u, i) PROVE ToAnswer(u, i)'
        BY <2>1, <2>2, <2>5 DEF ToAnswer, Untouched
    <2>7. ASSUME NEW u \in Turns, InHand(u, i) PROVE InHand(u, i)'
        BY <2>1, <2>7 DEF InHand, Untouched
    <2>6. QED
        BY <2>1, <2>3, <2>4, <2>5, <2>7 DEF OwedWaits, Waits
<1>3. CASE Leave(t) \/ Refuse(t)
    <2>1. /\ turn[t].pc # "free" /\ GiveBack(t) /\ Live(t) /\ UNCHANGED <<owed, journal>>
          /\ \/ turn[t].pc = "ending"
             \/ turn[t].pc = "waiting" /\ turn[t].doomed
             \/ turn[t].pc = "waiting" /\ Refuse(t)
        BY <1>3 DEF Leave, Refuse, Undisturbed, GiveBack, Live
    <2> DEFINE k == Key(t)
               q == Leftover(t)
    <2>2. /\ k \in Keys /\ q \in Seq(Message) /\ registered' = [registered EXCEPT ![k] = None]
          /\ \A u \in Turns \ {t} :
                /\ turn'[u].pc = turn[u].pc /\ turn'[u].opener = turn[u].opener
                /\ turn'[u].doomed = turn[u].doomed /\ turn'[u].pulled = turn[u].pulled
                /\ turn'[u].hand = turn[u].hand
          /\ \A u \in Turns \ {t} : registered[k] # u =>
                turn'[u].inject = turn[u].inject /\ turn'[u].deferred = turn[u].deferred
          /\ q = <<>> \/ (turn'[t].pc = "handback" /\ turn'[t].hand = q)
          /\ UNCHANGED bus
        BY <2>1, GiveBackIs
    <2>3. IdsOf(q) = PendingIds(k)
        <3>1. q = Pending(k)
            BY DEF Leftover, Pending
        <3>2. QED
            BY <2>2, <3>1, PendingIdsOf
    <2>4. \A j \in Keys : registered[j] = t => j = k
        BY <2>1, NoneAssumption DEF Routing, RoutedOK
    <2>5. \A x \in Ids : fate'[x] = "owed" =>
              fate[x] = "owed" /\ (Refuse(t) => turn[t].opener.id # x)
        <3>1. CASE Refuse(t)
            <4>1. \A x \in Ids : fate'[x] = IF \E y \in {turn[t].opener} : y.id = x THEN "answered" ELSE fate[x]
                BY <3>1 DEF Refuse, Settled
            <4>2. QED
                BY <4>1
        <3>2. CASE ~Refuse(t)
            BY <1>3, <3>2 DEF Leave
        <3>3. QED
            BY <3>1, <3>2
    <2> HIDE DEF q
    <2>6. ASSUME NEW j \in Keys, With(j, i) PROVE Waits(i)'
        <3>1. CASE j = k /\ i \in PendingIds(k)
            <4>1. i \in IdsOf(q) /\ q # <<>>
                BY <2>3, <3>1, NoMessages
            <4>2. InHand(t, i)'
                BY <2>2, <4>1 DEF InHand
            <4>3. QED
                BY <4>2 DEF Waits
        <3>3. CASE j = k /\ i \notin PendingIds(k)
            BY <2>1, <2>2, <2>6, <3>3 DEF With, Waits
        <3>2. CASE j # k
            <4>1. registered'[j] = registered[j]
                BY <1>b, <2>2, <3>2
            <4>2. registered[j] # None => registered[j] # t /\ registered[k] # registered[j]
                BY <2>2, <2>4, <3>2 DEF Routing, RoutedOK
            <4>3. PendingIds(j) \subseteq PendingIds(j)'
                BY <1>b, <2>2, <4>1, <4>2, PendingKept, NoneAssumption
            <4>4. With(j, i)'
                BY <2>1, <2>2, <2>6, <4>3, StillWith
            <4>5. QED
                BY <4>4 DEF Waits
        <3>4. QED
            BY <3>1, <3>2, <3>3
    <2>7. ASSUME NEW u \in Turns, ToAnswer(u, i), fate[i] = "owed" PROVE ToAnswer(u, i)'
        <3>1. u # t
            BY <2>1, <2>5, <2>7 DEF ToAnswer
        <3>2. QED
            BY <2>2, <2>7, <3>1 DEF ToAnswer
    <2>9. ASSUME NEW u \in Turns, InHand(u, i) PROVE InHand(u, i)'
        <3>1. u # t
            BY <2>1, <2>9 DEF InHand
        <3>2. QED
            BY <2>2, <2>9, <3>1 DEF InHand
    <2>8. QED
        BY <2>5, <2>6, <2>7, <2>9 DEF OwedWaits, Waits
<1>4. CASE HandBack(t)
    <2> DEFINE h == turn[t].hand
               k == Key(t)
    <2>1. /\ \A u \in Turns \ {t} : Untouched(u)
          /\ turn[t].pc = "handback" /\ k \in Keys /\ h \in Seq(Message) /\ h # <<>>
          /\ \/ bus' = [bus EXCEPT ![k] = Append(@, Head(h))] /\ UNCHANGED fate
             \/ fate' = Settled({Head(h)}, "claimed", fate) /\ UNCHANGED bus
          /\ \/ Tail(h) = <<>>
             \/ turn'[t].pc = "handback" /\ turn'[t].hand = Tail(h)
          /\ UNCHANGED <<registered, owed, journal>>
        BY <1>4, HandBackIs
    <2>2. \A j \in Keys : registered[j] # t
        BY <2>1, NoneAssumption DEF Routing, RoutedOK, Live
    <2> HIDE DEF h, k
    <2>3. /\ IdsOf(h) = {Head(h).id} \cup IdsOf(Tail(h))
          /\ IdsOf(Append(bus[k], Head(h))) = IdsOf(bus[k]) \cup {Head(h).id}
        BY <1>b, <2>1, HeadTail, Appended
    <2>4. /\ fate[i] = "owed"
          /\ i = Head(h).id => i \in IdsOf(bus'[k])
        <3>1. CASE UNCHANGED fate /\ bus' = [bus EXCEPT ![k] = Append(@, Head(h))]
            BY <1>b, <2>1, <2>3, <3>1
        <3>2. CASE fate' = Settled({Head(h)}, "claimed", fate)
            BY <3>2 DEF Settled
        <3>3. QED
            BY <2>1, <3>1, <3>2
    <2>5. ASSUME NEW j \in Keys, With(j, i) PROVE With(j, i)'
        <3>1. IdsOf(bus[j]) \subseteq IdsOf(bus'[j])
            BY <1>b, <2>1, <2>3
        <3>2. PendingIds(j) \subseteq PendingIds(j)'
            BY <1>b, <2>1, <2>2, PendingKept DEF Untouched
        <3>3. QED
            BY <2>1, <2>5, <3>1, <3>2, StillWith
    <2>6. ASSUME NEW u \in Turns, ToAnswer(u, i) PROVE ToAnswer(u, i)'
        BY <2>1, <2>6 DEF ToAnswer, Untouched
    <2>7. ASSUME NEW u \in Turns, InHand(u, i) PROVE Waits(i)'
        <3>1. CASE u # t
            BY <2>1, <2>7, <3>1 DEF InHand, Untouched, Waits
        <3>2. CASE u = t /\ i = Head(h).id
            BY <2>1, <2>4, <3>2 DEF With, Waits
        <3>3. CASE u = t /\ i \in IdsOf(Tail(h))
            <4>1. InHand(t, i)'
                BY <2>1, <3>3, NoMessages DEF InHand
            <4>2. QED
                BY <4>1 DEF Waits
        <3>4. QED
            BY <2>3, <2>7, <3>1, <3>2, <3>3 DEF InHand, h
    <2>8. QED
        BY <2>4, <2>5, <2>6, <2>7 DEF OwedWaits, Waits
<1>5. CASE DropUnstarted(t) \/ UnwindHandBack(t)
    <2>1. /\ \A u \in Turns \ {t} : Untouched(u)
          /\ turn[t].doomed
          /\ \/ /\ turn[t].pc = "created" /\ turn'[t].inject = turn[t].inject
                /\ turn'[t].deferred = turn[t].deferred /\ UNCHANGED fate
             \/ /\ turn[t].pc = "handback"
                /\ fate' = Settled(ToSet(turn[t].hand), "dropped", fate)
          /\ UNCHANGED <<bus, registered, owed, journal>>
        BY <1>5, DropIs
    <2>2. turn[t].pc = "handback" => \A k \in Keys : registered[k] # t
        BY NoneAssumption DEF Routing, RoutedOK, Live
    <2>3. \A k \in Keys : PendingIds(k) \subseteq PendingIds(k)'
        BY <1>b, <2>1, <2>2, PendingKept DEF Untouched
    <2>4. ASSUME NEW u \in Turns, ToAnswer(u, i) PROVE ToAnswer(u, i)'
        BY <2>1, <2>4 DEF ToAnswer, Untouched
    <2>6. fate[i] = "owed" /\ ~InHand(t, i)
        <3>1. CASE turn[t].pc = "created" /\ UNCHANGED fate
            BY <3>1 DEF InHand
        <3>2. CASE fate' = Settled(ToSet(turn[t].hand), "dropped", fate)
            <4>1. fate[i] = "owed" /\ ~\E m \in ToSet(turn[t].hand) : m.id = i
                BY <3>2 DEF Settled
            <4>2. QED
                BY <4>1, MessagesOf, IdsOfSet DEF InHand
        <3>3. QED
            BY <2>1, <3>1, <3>2
    <2>7. ASSUME NEW u \in Turns, InHand(u, i) PROVE InHand(u, i)'
        BY <2>1, <2>6, <2>7 DEF InHand, Untouched
    <2>8. CASE \E k \in Keys : With(k, i)
        BY <2>1, <2>3, <2>8, AllStillWith
    <2>5. QED
        BY <2>4, <2>6, <2>7, <2>8 DEF OwedWaits, Waits
<1>6. QED
    BY <1>1, <1>2, <1>3, <1>4, <1>5 DEF TurnStep

\* What the drain takes from a session in its first pass.
LEMMA TakenIds ==
    ASSUME TypeOK, NoneOutlives, Filed, NEW k \in Keys, active[k] # <<>>
    PROVE  /\ PendingIds(k) \subseteq IdsOf(TakenFrom(k))
           /\ \A t \in ToSet(active[k]) : turn[t].opener.id \in IdsOf(TakenFrom(k))
<1> DEFINE o == Openers(k)
           q == Pending(k)
<1>1. o \in Seq(Message)
    BY OpenersType DEF NoneOutlives
<1>2. q \in Seq(Message) /\ IdsOf(q) = PendingIds(k)
    BY PendingKeyed, PendingIdsOf
<1>3. TakenFrom(k) = o \o q
    BY DEF TakenFrom, Pending
<1>4. \A t \in ToSet(active[k]) : turn[t].opener.id \in IdsOf(o)
    <2>1. active[k] \in Seq(Turns) /\ Len(o) = Len(active[k])
          /\ \A i \in 1..Len(active[k]) : o[i] = turn[active[k][i]].opener
        BY DEF TypeOK, Openers
    <2>2. \A t \in ToSet(active[k]) : \E i \in 1..Len(active[k]) : t = active[k][i]
        BY <2>1 DEF ToSet
    <2> HIDE DEF o
    <2>3. QED
        BY <2>1, <2>2 DEF IdsOf
<1> HIDE DEF o, q
<1>5. IdsOf(o \o q) = IdsOf(o) \cup IdsOf(q)
    BY <1>1, <1>2, Joined
<1>6. QED
    BY <1>2, <1>3, <1>4, <1>5

LEMMA BeginDrainKeeps ==
    ASSUME TypeOK, NoneOutlives, Routing, Filed, OwedWaits, BeginDrain
    PROVE  OwedWaits'
<1> SUFFICES ASSUME NEW i \in Ids, fate'[i] = "owed" PROVE Waits(i)'
    BY DEF OwedWaits
<1>b. registered \in [Keys -> Turns \cup {None}] /\ fate \in [Ids -> Fates]
    BY DEF TypeOK
<1>1. /\ gateway = "closing" /\ owed' = [k \in Keys |-> TakenFrom(k)]
      /\ registered' = [k \in Keys |-> IF active[k] # <<>> THEN None ELSE registered[k]]
      /\ \A t \in Turns :
            IF \E k \in Keys : t \in ToSet(active[k]) \/ (active[k] # <<>> /\ registered[k] = t)
            THEN turn'[t].inject = <<>> /\ turn'[t].deferred = <<>>
            ELSE turn'[t].inject = turn[t].inject /\ turn'[t].deferred = turn[t].deferred
      /\ \A t \in Turns : turn'[t].pc = turn[t].pc /\ turn'[t].hand = turn[t].hand
      /\ UNCHANGED <<bus, journal>>
    BY BeginDrainIs
<1>2. /\ fate[i] = "owed"
      /\ \A t \in UNION {ToSet(active[k]) : k \in Keys} : t \notin Over =>
            ~\E x \in ToSet(turn[t].pulled) : x.id = i
    <2> DEFINE A == UNION {ToSet(active[k]) : k \in Keys}
               P == UNION {ToSet(turn[t].pulled) : t \in A \ Over}
               O == {turn[t].opener : t \in A \cap Over}
    <2>1. fate' = Settled(O, "again", Settled(P, "cut", fate))
        BY DEF BeginDrain
    <2>2. fate'[i] = IF \E x \in O : x.id = i THEN "again"
                     ELSE IF \E x \in P : x.id = i THEN "cut" ELSE fate[i]
        BY <2>1 DEF Settled
    <2>3. fate[i] = "owed" /\ ~\E x \in P : x.id = i
        BY <2>2
    <2>4. QED
        BY <2>3
<1>3. owed = Nothing
    BY <1>1 DEF Routing, PhaseOK
<1>4. ASSUME NEW k \in Keys, With(k, i) PROVE With(k, i)'
    <2>1. i \notin IdsOf(owed[k])
        BY <1>3, NoMessages DEF Nothing
    <2>2. CASE i \in PendingIds(k) /\ active[k] # <<>>
        BY <1>1, <2>2, TakenIds DEF With
    <2>3. CASE i \in PendingIds(k) /\ active[k] = <<>>
        <3>1. registered'[k] = registered[k]
            BY <1>1, <2>3
        <3>2. ASSUME registered[k] \in Turns
              PROVE  turn'[registered[k]].inject = turn[registered[k]].inject
                     /\ turn'[registered[k]].deferred = turn[registered[k]].deferred
            <4> DEFINE t == registered[k]
            <4>1. /\ turn[t].pc = "free" \/ Key(t) = k
                  /\ \A j \in Keys : registered[j] = t => j = k
                BY <3>2, NoneAssumption DEF Routing, RoutedOK
            <4>2. ASSUME NEW j \in Keys, t \in ToSet(active[j]) PROVE FALSE
                <5>1. j = k
                    BY <4>1, <4>2 DEF NoneOutlives, ListedOK
                <5>2. QED
                    BY <2>3, <4>2, <5>1, NoMessages
            <4> HIDE DEF t
            <4>3. ~\E j \in Keys : t \in ToSet(active[j]) \/ (active[j] # <<>> /\ registered[j] = t)
                BY <2>3, <4>1, <4>2
            <4>4. QED
                BY <1>1, <3>2, <4>3 DEF t
        <3>3. PendingIds(k) \subseteq PendingIds(k)'
            BY <3>1, <3>2, PendingKept
        <3>4. QED
            BY <2>3, <3>3 DEF With
    <2>4. CASE i \in IdsOf(bus[k]) \cup IdsOf(journal[k])
        BY <1>1, <2>4 DEF With
    <2>5. QED
        BY <1>4, <2>1, <2>2, <2>3, <2>4 DEF With
<1>5. ASSUME NEW t \in Turns, ToAnswer(t, i) PROVE Waits(i)'
    <2> DEFINE k == Key(t)
    <2>1. Live(t) /\ ~turn[t].doomed /\ t \notin Over /\ k \in Keys
        BY <1>5, MessagesOf DEF ToAnswer, Live, Over
    <2>2. t \in ToSet(active[k])
        BY <2>1 DEF Routing, ListedUntilDrain
    <2>3. ~\E x \in ToSet(turn[t].pulled) : x.id = i
        BY <1>2, <2>1, <2>2
    <2>4. turn[t].opener.id = i
        BY <1>5, <2>3, MessagesOf, IdsOfSet DEF ToAnswer
    <2>5. active[k] # <<>>
        BY <2>2, NoMessages
    <2> HIDE DEF k
    <2>6. i \in IdsOf(TakenFrom(k))
        BY <2>1, <2>2, <2>4, <2>5, TakenIds
    <2>7. QED
        BY <1>1, <2>1, <2>6 DEF Waits, With
<1>7. ASSUME NEW t \in Turns, InHand(t, i) PROVE InHand(t, i)'
    BY <1>1, <1>7 DEF InHand
<1>6. QED
    BY <1>2, <1>4, <1>5, <1>7 DEF OwedWaits, Waits

LEMMA EndDrainKeeps ==
    ASSUME TypeOK, Routing, Filed, OwedWaits, EndDrain
    PROVE  OwedWaits'
<1> SUFFICES ASSUME NEW i \in Ids, fate[i] = "owed" PROVE Waits(i)'
    BY EndDrainIs DEF OwedWaits
<1>1. /\ gateway = "draining"
      /\ journal' = [k \in Keys |-> journal[k] \o owed[k] \o bus[k] \o
                        (IF registered[k] = None THEN <<>> ELSE Queued(registered[k]))]
    BY EndDrainIs
<1>2. \A t \in Turns : ~ToAnswer(t, i)
    BY <1>1 DEF Routing, ListedUntilDrain, Early, ToAnswer, Live
<1>12. ASSUME NEW t \in Turns, InHand(t, i) PROVE InHand(t, i)'
    BY <1>12, EndDrainIs DEF InHand
<1> SUFFICES ASSUME ~\E t \in Turns : InHand(t, i) PROVE Waits(i)'
    BY <1>12 DEF Waits
<1>3. PICK k \in Keys : With(k, i)
    BY <1>2 DEF OwedWaits, Waits
<1> DEFINE a == journal[k]
           b == owed[k]
           c == bus[k]
           q == Pending(k)
<1>4. a \in Seq(Message) /\ b \in Seq(Message) /\ c \in Seq(Message) /\ q \in Seq(Message)
      /\ IdsOf(q) = PendingIds(k)
    BY PendingKeyed, PendingIdsOf DEF TypeOK, Messages
<1>5. journal'[k] = ((a \o b) \o c) \o q
    BY <1>1 DEF Pending
<1>6. i \in IdsOf(a) \cup IdsOf(b) \cup IdsOf(c) \cup IdsOf(q)
    BY <1>3, <1>4 DEF With
<1> HIDE DEF a, b, c, q
<1>7. a \o b \in Seq(Message) /\ IdsOf(a \o b) = IdsOf(a) \cup IdsOf(b)
    BY <1>4, Joined
<1>8. (a \o b) \o c \in Seq(Message) /\ IdsOf((a \o b) \o c) = IdsOf(a \o b) \cup IdsOf(c)
    BY <1>4, <1>7, Joined
<1>9. IdsOf(((a \o b) \o c) \o q) = IdsOf((a \o b) \o c) \cup IdsOf(q)
    BY <1>4, <1>8, Joined
<1>10. i \in IdsOf(journal'[k])
    BY <1>5, <1>6, <1>7, <1>8, <1>9
<1>11. QED
    BY <1>10 DEF Waits, With

LEMMA ShutdownKeeps ==
    ASSUME TypeOK, Routing, OwedWaits, Restart \/ Replay
    PROVE  OwedWaits'
<1> SUFFICES ASSUME NEW i \in Ids, fate'[i] = "owed" PROVE Waits(i)'
    BY DEF OwedWaits
\* What is on the bus or in a hand when the process ends is missed or dropped.
<1>6. /\ fate[i] = "owed"
      /\ Restart => /\ \A k \in Keys : i \notin IdsOf(bus[k])
                    /\ \A t \in Turns : ~InHand(t, i)
    <2>1. CASE Restart
        <3> DEFINE B == UNION {ToSet(bus[k]) : k \in Keys}
                   H == UNION {ToSet(turn[t].hand) : t \in Turns}
        <3>1. fate' = Settled(B, "missed", Settled(H, "dropped", fate))
            BY <2>1 DEF Restart
        <3>2. fate'[i] = IF \E x \in B : x.id = i THEN "missed"
                         ELSE IF \E x \in H : x.id = i THEN "dropped" ELSE fate[i]
            BY <3>1 DEF Settled
        <3>3. fate[i] = "owed" /\ (~\E x \in B : x.id = i) /\ ~\E x \in H : x.id = i
            BY <3>2
        <3>4. \A k \in Keys : i \notin IdsOf(bus[k])
            <4> TAKE k \in Keys
            <4>1. bus[k] \in Seq(Message) /\ ToSet(bus[k]) \subseteq B
                BY DEF TypeOK, Messages
            <4>2. IdsOf(bus[k]) = {x.id : x \in ToSet(bus[k])}
                BY <4>1, IdsOfSet
            <4> HIDE DEF B
            <4>3. QED
                BY <3>3, <4>1, <4>2
        <3>5. \A t \in Turns : ~InHand(t, i)
            BY <3>3, MessagesOf, IdsOfSet DEF InHand
        <3>6. QED
            BY <3>3, <3>4, <3>5
    <2>2. CASE ~Restart
        BY <2>2 DEF Replay
    <2>3. QED
        BY <2>1, <2>2
<1>1. \A t \in Turns : ~ToAnswer(t, i)
    BY DEF Routing, ListedUntilDrain, PhaseOK, Early, ToAnswer, Live, Restart, Replay
<1>7. ASSUME NEW t \in Turns, InHand(t, i) PROVE FALSE
    BY <1>6, <1>7 DEF InHand, Routing, PhaseOK, Replay
<1>2. PICK k \in Keys : With(k, i)
    BY <1>1, <1>6, <1>7 DEF OwedWaits, Waits
<1>3. registered[k] = None /\ owed = Nothing
    BY DEF Routing, PhaseOK, Restart, Replay
<1>4. CASE Restart
    <2>1. i \in IdsOf(journal[k])
        BY <1>2, <1>3, <1>4, <1>6, NoMessages DEF With, Nothing, PendingIds
    <2>2. QED
        BY <1>4, <2>1 DEF Restart, Waits, With
<1>5. CASE Replay
    <2> DEFINE s == bus[k]
               r == journal[k]
    <2>1. s \in Seq(Message) /\ r \in Seq(Message)
        BY DEF TypeOK, Messages
    <2>2. i \in IdsOf(s) \cup IdsOf(r)
        BY <1>2, <1>3, NoMessages DEF With, Nothing, PendingIds
    <2>3. bus'[k] = s \o r
        BY <1>5 DEF Replay
    <2> HIDE DEF s, r
    <2>4. i \in IdsOf(bus'[k])
        BY <2>1, <2>2, <2>3, Joined
    <2>5. QED
        BY <2>4 DEF Waits, With
<1>8. QED
    BY <1>4, <1>5

LEMMA PublishKeeps ==
    ASSUME TypeOK, OwedWaits, NEW k \in Keys, NEW kind \in Kinds, Publish(k, kind)
    PROVE  OwedWaits'
<1> DEFINE n == Cardinality(Sent) + 1
           m == [id |-> n, key |-> k, kind |-> kind]
<1>1. n \in Ids
    BY SentCounted, SizesAssumption DEF Publish, Ids
<1>2. m \in Message /\ m.id = n
    BY <1>1, KindsAssumption DEF Message
<1>3. /\ bus' = [bus EXCEPT ![k] = Append(@, m)] /\ fate' = [fate EXCEPT ![n] = "owed"]
      /\ UNCHANGED <<registered, turn, owed, journal>>
    BY DEF Publish
<1> HIDE DEF n, m
<1>4. \A j \in Keys : IdsOf(bus[j]) \subseteq IdsOf(bus'[j])
    <2>1. IdsOf(Append(bus[k], m)) = IdsOf(bus[k]) \cup {n}
        BY <1>2, Appended DEF TypeOK, Messages
    <2>2. QED
        BY <1>3, <2>1 DEF TypeOK
<1>5. n \in IdsOf(bus'[k])
    <2>1. IdsOf(Append(bus[k], m)) = IdsOf(bus[k]) \cup {n}
        BY <1>2, Appended DEF TypeOK, Messages
    <2>2. bus'[k] = Append(bus[k], m)
        BY <1>3 DEF TypeOK, Messages
    <2>3. QED
        BY <2>1, <2>2
<1>6. ASSUME NEW i \in Ids, fate[i] = "owed" PROVE Waits(i)'
    <2>1. CASE \E j \in Keys : With(j, i)
        <3>1. PICK j \in Keys : With(j, i)
            BY <2>1
        <3>2. With(j, i)'
            BY <1>3, <1>4, <3>1 DEF With, PendingIds
        <3>3. QED
            BY <3>2 DEF Waits
    <2>2. CASE \E t \in Turns : ToAnswer(t, i)
        BY <1>3, <2>2 DEF ToAnswer, Waits
    <2>4. CASE \E t \in Turns : InHand(t, i)
        BY <1>3, <2>4 DEF InHand, Waits
    <2>3. QED
        BY <1>6, <2>1, <2>2, <2>4 DEF OwedWaits, Waits
<1>7. QED
    BY <1>1, <1>3, <1>5, <1>6 DEF OwedWaits, Waits, With, TypeOK

LEMMA OwedWaitsStep ==
    ASSUME TypeOK, NoneOutlives, Routing, Filed, RoomLeft, OwedWaits, [Next]_vars
    PROVE  OwedWaits'
<1>1. CASE StopDone \/ StopIntake \/ UNCHANGED vars
    <2>1. UNCHANGED <<bus, owed, journal, registered, turn, fate>>
        BY <1>1 DEF StopDone, StopIntake, vars
    <2>2. QED
        BY <2>1 DEF OwedWaits, Waits, With, PendingIds, ToAnswer, InHand
<1>2. QED
    BY <1>1, PublishKeeps, ConsumeKeeps, TurnKeeps, BeginDrainKeeps, EndDrainKeeps, ShutdownKeeps DEF Next

LEMMA WaitingInvariant == Spec /\ []RoomLeft => []OwedWaits
<1>1. Init => OwedWaits
    BY DEF Init, OwedWaits
<1>2. TypeOK /\ NoneOutlives /\ Routing /\ Filed /\ RoomLeft /\ OwedWaits /\ [Next]_vars
        => OwedWaits'
    BY OwedWaitsStep
<1>3. QED
    BY <1>1, <1>2, RoutingInvariant, FiledInvariant, PTL DEF Spec

\* What no turn has taken is somewhere it will be taken from: on the bus, in a queue that
\* is registered, in the hands of a turn that gives it back, with the drain or in the
\* journal.  /stop, refusals, the hand-back, the drain and the restart lose none of it
\* unseen, whatever the interceptors, the event loop and the channels do, as long as no
\* pending queue is full when a message is taken off the bus.
THEOREM WaitingIsKept == Spec /\ []RoomLeft => []WaitingKept
<1>1. TypeOK /\ OwedWaits => WaitingKept
    BY OwedWaitsIsEnough
<1>2. QED
    BY <1>1, WaitingInvariant, RoutingInvariant, PTL

---------------------------------------------------------------------------
(* A message is in one place                                               *)

SessionKinds == {"bus", "owed", "journal"}
TaskKinds    == {"opener", "pulled", "inject", "deferred", "hand"}
Places       == (SessionKinds \X Keys) \cup (TaskKinds \X Turns)

\* What a task has taken is with it until the drain journals it.
AtWork(t) == Early /\ turn[t].pc # "free"

In(p) ==
    CASE p[1] = "bus"      -> bus[p[2]]
      [] p[1] = "owed"     -> owed[p[2]]
      [] p[1] = "journal"  -> journal[p[2]]
      [] p[1] = "inject"   -> turn[p[2]].inject
      [] p[1] = "deferred" -> turn[p[2]].deferred
      [] p[1] = "hand"     -> turn[p[2]].hand
      [] p[1] = "pulled"   -> IF AtWork(p[2]) THEN turn[p[2]].pulled ELSE <<>>
      [] p[1] = "opener"   -> IF AtWork(p[2]) THEN <<turn[p[2]].opener>> ELSE <<>>

IdsAt(p) == IdsOf(In(p))

Once ==
    /\ \A p \in Places : NoTwins(In(p))
    /\ \A p, q \in Places : p # q => IdsAt(p) \cap IdsAt(q) = {}
Known   == \A p \in Places : IdsAt(p) \subseteq Sent
InOrder == \A i \in Ids : i \in Sent <=> i <= Cardinality(Sent)
OnePlace == Once /\ Known /\ InOrder

LEMMA InSession ==
    ASSUME NEW k \in Keys
    PROVE  /\ In(<<"bus", k>>) = bus[k] /\ In(<<"owed", k>>) = owed[k]
           /\ In(<<"journal", k>>) = journal[k]
           /\ In(<<"bus", k>>)' = bus'[k] /\ In(<<"owed", k>>)' = owed'[k]
           /\ In(<<"journal", k>>)' = journal'[k]
           /\ <<"bus", k>> \in Places /\ <<"owed", k>> \in Places /\ <<"journal", k>> \in Places
BY DEF In, Places, SessionKinds

LEMMA InTask ==
    ASSUME NEW t \in Turns
    PROVE  /\ In(<<"inject", t>>) = turn[t].inject /\ In(<<"deferred", t>>) = turn[t].deferred
           /\ In(<<"hand", t>>) = turn[t].hand
           /\ In(<<"pulled", t>>) = IF AtWork(t) THEN turn[t].pulled ELSE <<>>
           /\ In(<<"opener", t>>) = IF AtWork(t) THEN <<turn[t].opener>> ELSE <<>>
           /\ In(<<"inject", t>>)' = turn'[t].inject /\ In(<<"deferred", t>>)' = turn'[t].deferred
           /\ In(<<"hand", t>>)' = turn'[t].hand
           /\ In(<<"pulled", t>>)' = IF AtWork(t)' THEN turn'[t].pulled ELSE <<>>
           /\ In(<<"opener", t>>)' = IF AtWork(t)' THEN <<turn'[t].opener>> ELSE <<>>
           /\ \A kind \in TaskKinds : <<kind, t>> \in Places
BY DEF In, Places, TaskKinds

LEMMA PlaceIs ==
    ASSUME NEW p \in Places
    PROVE  \/ \E k \in Keys : p = <<"bus", k>> \/ p = <<"owed", k>> \/ p = <<"journal", k>>
           \/ \E t \in Turns : \/ p = <<"inject", t>> \/ p = <<"deferred", t>> \/ p = <<"hand", t>>
                               \/ p = <<"pulled", t>> \/ p = <<"opener", t>>
BY DEF Places, SessionKinds, TaskKinds

LEMMA InMessages ==
    ASSUME TypeOK, NEW p \in Places
    PROVE  In(p) \in Seq(Message)
<1>1. ASSUME NEW t \in Turns, AtWork(t) PROVE <<turn[t].opener>> \in Seq(Message)
    <2>1. turn[t].opener \in Message
        BY <1>1, MessagesOf DEF AtWork
    <2>2. QED
        BY <2>1, OneMessage
<1>2. <<>> \in Seq(Message)
    OBVIOUS
<1>3. ASSUME NEW k \in Keys, p = <<"bus", k>> \/ p = <<"owed", k>> \/ p = <<"journal", k>>
      PROVE  In(p) \in Seq(Message)
    <2>1. bus[k] \in Seq(Message) /\ owed[k] \in Seq(Message) /\ journal[k] \in Seq(Message)
        BY DEF TypeOK, Messages
    <2>2. QED
        BY <1>3, <2>1, InSession
<1>4. ASSUME NEW t \in Turns,
             \/ p = <<"inject", t>> \/ p = <<"deferred", t>> \/ p = <<"hand", t>>
             \/ p = <<"pulled", t>> \/ p = <<"opener", t>>
      PROVE  In(p) \in Seq(Message)
    <2>1. CASE p = <<"inject", t>> \/ p = <<"deferred", t>> \/ p = <<"hand", t>>
        BY <2>1, InTask, MessagesOf
    <2>2. CASE p = <<"pulled", t>>
        BY <1>2, <2>2, InTask, MessagesOf
    <2>3. CASE p = <<"opener", t>>
        BY <1>1, <1>2, <2>3, InTask
    <2>4. QED
        BY <1>4, <2>1, <2>2, <2>3
<1>5. QED
    BY <1>3, <1>4, PlaceIs

\* The places that a step leaves alone or empties.
LEMMA Frame ==
    ASSUME NEW C,
           \A k \in Keys :
              /\ <<"bus", k>> \in C \/ bus'[k] = bus[k] \/ bus'[k] = <<>>
              /\ <<"owed", k>> \in C \/ owed'[k] = owed[k] \/ owed'[k] = <<>>
              /\ <<"journal", k>> \in C \/ journal'[k] = journal[k] \/ journal'[k] = <<>>,
           \A t \in Turns :
              /\ <<"inject", t>> \in C \/ turn'[t].inject = turn[t].inject \/ turn'[t].inject = <<>>
              /\ <<"deferred", t>> \in C \/ turn'[t].deferred = turn[t].deferred \/ turn'[t].deferred = <<>>
              /\ <<"hand", t>> \in C \/ turn'[t].hand = turn[t].hand \/ turn'[t].hand = <<>>
              /\ AtWork(t)' =>
                   /\ <<"opener", t>> \in C \/ (AtWork(t) /\ turn'[t].opener = turn[t].opener)
                   /\ \/ <<"pulled", t>> \in C \/ turn'[t].pulled = <<>>
                      \/ AtWork(t) /\ turn'[t].pulled = turn[t].pulled
    PROVE  \A p \in Places \ C : In(p)' = In(p) \/ In(p)' = <<>>
<1> SUFFICES ASSUME NEW p \in Places, p \notin C PROVE In(p)' = In(p) \/ In(p)' = <<>>
    OBVIOUS
<1>1. ASSUME NEW k \in Keys, p = <<"bus", k>> \/ p = <<"owed", k>> \/ p = <<"journal", k>>
      PROVE  In(p)' = In(p) \/ In(p)' = <<>>
    BY <1>1, InSession, ZenonT(30)
<1>2. ASSUME NEW t \in Turns, p = <<"inject", t>> \/ p = <<"deferred", t>> \/ p = <<"hand", t>>
      PROVE  In(p)' = In(p) \/ In(p)' = <<>>
    BY <1>2, InTask, ZenonT(30)
<1>3. ASSUME NEW t \in Turns, p = <<"pulled", t>>
      PROVE  In(p)' = In(p) \/ In(p)' = <<>>
    BY <1>3, InTask, ZenonT(30)
<1>4. ASSUME NEW t \in Turns, p = <<"opener", t>>
      PROVE  In(p)' = In(p) \/ In(p)' = <<>>
    BY <1>4, InTask, ZenonT(30)
<1>5. QED
    BY <1>1, <1>2, <1>3, <1>4, PlaceIs

\* Messages that change places among C, or arrive there, stay in one place.
LEMMA ChangedAt ==
    ASSUME Once, Known, Sent \subseteq Sent', NEW C \in SUBSET Places,
           \A p \in Places \ C : In(p)' = In(p) \/ In(p)' = <<>>,
           \A p \in C : /\ NoTwins(In(p)')
                        /\ \A i \in IdsAt(p)' : i \in Sent' \ Sent \/ \E q \in C : i \in IdsAt(q),
           \A p, q \in C : p # q => IdsAt(p)' \cap IdsAt(q)' = {}
    PROVE  Once' /\ Known'
<1>1. \A p \in Places \ C : NoTwins(In(p)') /\ IdsAt(p)' \subseteq IdsAt(p)
    BY NoMessages DEF Once, IdsAt
<1>2. \A p \in Places : NoTwins(In(p)')
    BY <1>1
<1>3. ASSUME NEW p \in C, NEW q \in Places \ C PROVE IdsAt(p)' \cap IdsAt(q)' = {}
    <2>1. SUFFICES ASSUME NEW i \in IdsAt(p)', i \in IdsAt(q)' PROVE FALSE
        OBVIOUS
    <2>2. i \in IdsAt(q) /\ i \in Sent
        BY <1>1, <2>1 DEF Known
    <2>3. PICK r \in C : i \in IdsAt(r)
        BY <2>1, <2>2
    <2>4. QED
        BY <2>2, <2>3 DEF Once
<1>4. ASSUME NEW p \in Places, NEW q \in Places, p # q PROVE IdsAt(p)' \cap IdsAt(q)' = {}
    <2>1. CASE p \in C /\ q \in C
        BY <1>4, <2>1
    <2>2. CASE p \in C /\ q \notin C
        BY <1>3, <2>2
    <2>3. CASE p \notin C /\ q \in C
        BY <1>3, <2>3
    <2>4. CASE p \notin C /\ q \notin C
        BY <1>1, <1>4, <2>4 DEF Once
    <2>5. QED
        BY <2>1, <2>2, <2>3, <2>4
<1>5. Known'
    <2>1. ASSUME NEW p \in Places, NEW i \in IdsAt(p)' PROVE i \in Sent'
        <3>1. CASE p \in C
            BY <2>1, <3>1 DEF Known
        <3>2. CASE p \notin C
            BY <1>1, <2>1, <3>2 DEF Known
        <3>3. QED
            BY <3>1, <3>2
    <2>2. QED
        BY <2>1 DEF Known
<1>6. Once'
    BY <1>2, <1>4 DEF Once
<1>7. QED
    BY <1>5, <1>6

\* Messages stay where they are, go to the home of their place, or are dropped.
LEMMA Rearranged ==
    ASSUME Once, Known, Sent \subseteq Sent', NEW Home,
           \A p \in Places :
              \/ In(p)' = <<>>
              \/ In(p)' = In(p) /\ Home[p] = p
              \/ /\ NoTwins(In(p)')
                 /\ \A i \in IdsAt(p)' : \E q \in Places : Home[q] = p /\ i \in IdsAt(q)
    PROVE  Once' /\ Known'
<1>1. ASSUME NEW p \in Places
      PROVE  /\ NoTwins(In(p)')
             /\ \A i \in IdsAt(p)' : \E q \in Places : Home[q] = p /\ i \in IdsAt(q)
    <2>1. CASE In(p)' = <<>>
        BY <2>1, NoMessages DEF IdsAt
    <2>2. CASE In(p)' = In(p) /\ Home[p] = p
        BY <2>2 DEF Once, IdsAt
    <2>3. QED
        BY <2>1, <2>2
<1>2. ASSUME NEW p \in Places, NEW q \in Places, p # q PROVE IdsAt(p)' \cap IdsAt(q)' = {}
    <2>1. SUFFICES ASSUME NEW i \in IdsAt(p)', i \in IdsAt(q)' PROVE FALSE
        OBVIOUS
    <2>2. PICK r \in Places : Home[r] = p /\ i \in IdsAt(r)
        BY <1>1, <2>1
    <2>3. PICK s \in Places : Home[s] = q /\ i \in IdsAt(s)
        BY <1>1, <2>1
    <2>4. r # s
        BY <1>2, <2>2, <2>3
    <2>5. QED
        BY <2>2, <2>3, <2>4 DEF Once
<1>3. Known'
    BY <1>1 DEF Known
<1>4. Once'
    BY <1>1, <1>2 DEF Once
<1>5. QED
    BY <1>3, <1>4

\* Nothing moves, though places may be emptied.
LEMMA NothingMoves ==
    ASSUME Once, Known, Sent \subseteq Sent',
           \A p \in Places : In(p)' = In(p) \/ In(p)' = <<>>
    PROVE  Once' /\ Known'
<1>1. {} \in SUBSET Places
    OBVIOUS
<1>2. QED
    BY <1>1, ChangedAt

\* One place loses messages.
LEMMA OneShrinks ==
    ASSUME Once, Known, Sent \subseteq Sent', NEW a \in Places,
           \A p \in Places \ {a} : In(p)' = In(p) \/ In(p)' = <<>>,
           NoTwins(In(a)'), IdsAt(a)' \subseteq IdsAt(a)
    PROVE  Once' /\ Known'
<1>1. {a} \in SUBSET Places
    OBVIOUS
<1>2. \A p \in {a} : /\ NoTwins(In(p)')
                     /\ \A i \in IdsAt(p)' : i \in Sent' \ Sent \/ \E q \in {a} : i \in IdsAt(q)
    OBVIOUS
<1>3. \A p, q \in {a} : p # q => IdsAt(p)' \cap IdsAt(q)' = {}
    OBVIOUS
<1>4. QED
    BY <1>1, <1>2, <1>3, ChangedAt

\* Messages move from a place to another one.
LEMMA TwoShare ==
    ASSUME Once, Known, Sent \subseteq Sent', NEW a \in Places, NEW b \in Places,
           \A p \in Places \ {a, b} : In(p)' = In(p) \/ In(p)' = <<>>,
           NoTwins(In(a)'), NoTwins(In(b)'), IdsAt(a)' \cap IdsAt(b)' = {},
           IdsAt(a)' \cup IdsAt(b)' \subseteq IdsAt(a) \cup IdsAt(b)
    PROVE  Once' /\ Known'
<1>1. {a, b} \in SUBSET Places
    OBVIOUS
<1>2. \A p \in {a, b} : /\ NoTwins(In(p)')
                        /\ \A i \in IdsAt(p)' : i \in Sent' \ Sent \/ \E q \in {a, b} : i \in IdsAt(q)
    OBVIOUS
<1>3. \A p, q \in {a, b} : p # q => IdsAt(p)' \cap IdsAt(q)' = {}
    OBVIOUS
<1>4. QED
    BY <1>1, <1>2, <1>3, ChangedAt

LEMMA SentKept ==
    ASSUME \A i \in Ids : fate'[i] = fate[i] \/ (i \in Sent /\ fate'[i] # "unsent")
    PROVE  Sent' = Sent /\ (InOrder => InOrder')
<1>1. Sent' = Sent
    BY DEF Sent
<1>2. QED
    BY <1>1 DEF InOrder

\* What a task at work has taken is known.
LEMMA TakenKnown ==
    ASSUME TypeOK, Known, NEW t \in Turns, AtWork(t), NEW m \in Taken(t)
    PROVE  m.id \in Sent
<1>1. CASE m = turn[t].opener
    <2>1. In(<<"opener", t>>) = <<turn[t].opener>> /\ <<"opener", t>> \in Places
        BY InTask DEF TaskKinds
    <2>2. turn[t].opener \in Message
        BY MessagesOf DEF AtWork
    <2>3. IdsAt(<<"opener", t>>) = {m.id}
        BY <1>1, <2>1, <2>2, OneMessage DEF IdsAt
    <2>4. QED
        BY <2>1, <2>3 DEF Known
<1>2. CASE m \in ToSet(turn[t].pulled)
    <2>1. In(<<"pulled", t>>) = turn[t].pulled /\ <<"pulled", t>> \in Places
        BY InTask DEF TaskKinds
    <2>2. m.id \in IdsOf(turn[t].pulled)
        BY <1>2, MessagesOf, IdsOfSet
    <2>3. QED
        BY <2>1, <2>2 DEF Known, IdsAt
<1>3. QED
    BY <1>1, <1>2 DEF Taken

\* So is what a session or a task's hand holds.
LEMMA HeldKnown ==
    ASSUME TypeOK, Known
    PROVE  /\ \A k \in Keys : \A m \in ToSet(bus[k]) : m.id \in Sent
           /\ \A t \in Turns : \A m \in ToSet(turn[t].hand) : m.id \in Sent
<1>1. ASSUME NEW k \in Keys, NEW m \in ToSet(bus[k]) PROVE m.id \in Sent
    <2>1. m.id \in IdsOf(bus[k])
        BY <1>1, IdsOfSet DEF TypeOK, Messages
    <2>2. QED
        BY <2>1, InSession DEF Known, IdsAt
<1>2. ASSUME NEW t \in Turns, NEW m \in ToSet(turn[t].hand) PROVE m.id \in Sent
    <2>1. m.id \in IdsOf(turn[t].hand)
        BY <1>2, MessagesOf, IdsOfSet
    <2>2. In(<<"hand", t>>) = turn[t].hand /\ <<"hand", t>> \in Places
        BY InTask DEF TaskKinds
    <2>3. QED
        BY <2>1, <2>2 DEF Known, IdsAt
<1>3. QED
    BY <1>1, <1>2

LEMMA SettledSent ==
    ASSUME OnePlace, NEW S, NEW value, value # "unsent", fate' = Settled(S, value, fate),
           \A m \in S : m.id \in Sent
    PROVE  Sent' = Sent /\ InOrder'
<1>1. \A i \in Ids : fate'[i] = IF \E m \in S : m.id = i THEN value ELSE fate[i]
    BY DEF Settled
<1>2. \A i \in Ids : fate'[i] = fate[i] \/ (i \in Sent /\ fate'[i] # "unsent")
    BY <1>1
<1>3. QED
    BY <1>2, SentKept DEF OnePlace

LEMMA PublishOnce ==
    ASSUME TypeOK, OnePlace, NEW k \in Keys, NEW kind \in Kinds, Publish(k, kind)
    PROVE  OnePlace'
<1> DEFINE n == Cardinality(Sent) + 1
           m == [id |-> n, key |-> k, kind |-> kind]
           s == bus[k]
           b == <<"bus", k>>
<1>1. n \in Ids /\ Cardinality(Sent) \in Nat
    BY SentCounted, SizesAssumption DEF Publish, Ids
<1>2. m \in Message /\ m.id = n /\ s \in Seq(Message)
    BY <1>1, KindsAssumption DEF Message, TypeOK, Messages
<1>3. /\ bus' = [bus EXCEPT ![k] = Append(@, m)] /\ fate' = [fate EXCEPT ![n] = "owed"]
      /\ UNCHANGED <<registered, turn, owed, journal, gateway>>
    BY DEF Publish
<1>4. n \notin Sent
    BY <1>1 DEF OnePlace, InOrder
<1>5. Sent' = Sent \cup {n}
    BY <1>1, <1>3 DEF Sent, TypeOK
<1>6. Cardinality(Sent') = n
    <2>1. IsFiniteSet(Sent)
        <3>1. IsFiniteSet(Ids) /\ Sent \subseteq Ids
            BY FS_Interval, SizesAssumption DEF Ids, Sent
        <3>2. QED
            BY <3>1, FS_Subset
    <2>2. QED
        BY <1>4, <1>5, <2>1, FS_AddElement
<1>7. InOrder'
    <2>1. \A i \in Ids : i <= n <=> i <= Cardinality(Sent) \/ i = n
        BY <1>1 DEF Ids
    <2>2. QED
        BY <1>1, <1>5, <1>6, <2>1 DEF OnePlace, InOrder
<1> HIDE DEF n, m
<1>8. /\ b \in Places /\ In(b) = s /\ In(b)' = Append(s, m)
      /\ \A p \in Places \ {b} : In(p)' = In(p) \/ In(p)' = <<>>
    <2>1. b \in Places /\ In(b) = s /\ In(b)' = Append(s, m)
        <3>1. bus'[k] = Append(s, m)
            BY <1>3 DEF TypeOK, Messages
        <3>2. QED
            BY <3>1, InSession
    <2>2. \A p \in Places \ {b} : In(p)' = In(p) \/ In(p)' = <<>>
        <3>1. \A j \in Keys : j # k => bus'[j] = bus[j]
            BY <1>3 DEF TypeOK
        <3>2. \A t \in Turns : AtWork(t)' => AtWork(t)
            BY <1>3 DEF AtWork, Early
        <3>3. QED
            BY <1>3, <3>1, <3>2, Frame
    <2>3. QED
        BY <2>1, <2>2
<1> HIDE DEF s, b
<1>9. NoTwins(s) /\ n \notin IdsOf(s)
    BY <1>4, <1>8 DEF OnePlace, Once, Known, IdsAt
<1>10. NoTwins(In(b)') /\ IdsAt(b)' = IdsAt(b) \cup {n}
    BY <1>2, <1>8, <1>9, Appended DEF IdsAt
<1>11. \A p \in {b} : /\ NoTwins(In(p)')
                      /\ \A i \in IdsAt(p)' : i \in Sent' \ Sent \/ \E q \in {b} : i \in IdsAt(q)
    BY <1>4, <1>5, <1>10
<1>12. \A p, q \in {b} : p # q => IdsAt(p)' \cap IdsAt(q)' = {}
    OBVIOUS
<1>13. {b} \in SUBSET Places /\ Sent \subseteq Sent'
    BY <1>5, <1>8
<1>14. Once' /\ Known'
    BY <1>8, <1>11, <1>12, <1>13, ChangedAt DEF OnePlace
<1>15. QED
    BY <1>7, <1>14 DEF OnePlace

LEMMA StopOnce ==
    ASSUME TypeOK, NoneOutlives, OnePlace, NEW k \in Keys, ConsumeStop(k)
    PROVE  OnePlace'
<1> DEFINE s == bus[k]
           b == <<"bus", k>>
<1>1. /\ gateway = "serving" /\ s # <<>> /\ bus' = [bus EXCEPT ![k] = Tail(s)]
      /\ \A t \in Turns : Holding(t) /\ turn'[t].pc = turn[t].pc
      /\ UNCHANGED <<registered, gateway, owed, journal>>
    BY StopIs
<1>2. s \in Seq(Message) /\ b \in Places /\ In(b) = s /\ In(b)' = Tail(s)
    BY <1>1, InSession DEF TypeOK, Messages
<1>3. \A p \in Places \ {b} : In(p)' = In(p) \/ In(p)' = <<>>
    <2>1. \A j \in Keys : j # k => bus'[j] = bus[j]
        BY <1>1 DEF TypeOK
    <2>2. \A t \in Turns : AtWork(t)' => AtWork(t)
        BY <1>1 DEF AtWork, Early
    <2>3. QED
        BY <1>1, <2>1, <2>2, Frame DEF Holding
<1> HIDE DEF b
<1>4. NoTwins(s) /\ IdsAt(b) = IdsOf(s)
    BY <1>2 DEF OnePlace, Once, IdsAt
<1>5. Head(s).id \in Sent
    BY <1>1, <1>2, <1>4, HeadTail DEF OnePlace, Known
<1>6. NoTwins(In(b)') /\ IdsAt(b)' \subseteq IdsAt(b)
    BY <1>1, <1>2, <1>4, HeadTail DEF IdsAt
<1>7. Sent' = Sent /\ InOrder'
    <2> DEFINE S == UNION {Taken(t) : t \in ToSet(active[k]) \ Over}
    <2>1. fate' = Settled({Head(s)}, "answered", Settled(S, "stopped", fate))
        BY DEF ConsumeStop
    <2>2. \A m \in S : m.id \in Sent
        <3>1. ASSUME NEW t \in ToSet(active[k]), NEW m \in Taken(t) PROVE m.id \in Sent
            <4>1. t \in Turns /\ turn[t].pc # "free"
                BY DEF NoneOutlives, ListedOK, TypeOK, ToSet
            <4>2. AtWork(t)
                BY <1>1, <4>1 DEF AtWork, Early
            <4>3. QED
                BY <4>1, <4>2, TakenKnown DEF OnePlace
        <3>2. QED
            BY <3>1
    <2> HIDE DEF S, s
    <2>3. \A i \in Ids : fate'[i] = IF \E m \in {Head(s)} : m.id = i THEN "answered"
                                    ELSE IF \E m \in S : m.id = i THEN "stopped" ELSE fate[i]
        BY <2>1 DEF Settled
    <2>4. \A i \in Ids : fate'[i] = fate[i] \/ (i \in Sent /\ fate'[i] # "unsent")
        BY <1>5, <2>2, <2>3
    <2>5. QED
        BY <2>4, SentKept DEF OnePlace
<1>8. Once' /\ Known'
    BY <1>2, <1>3, <1>6, <1>7, OneShrinks DEF OnePlace
<1>9. QED
    BY <1>7, <1>8 DEF OnePlace

LEMMA CommandOnce ==
    ASSUME TypeOK, OnePlace, NEW k \in Keys, ConsumeCommand(k)
    PROVE  OnePlace'
<1> DEFINE s == bus[k]
           b == <<"bus", k>>
<1>1. /\ s # <<>> /\ bus' = [bus EXCEPT ![k] = Tail(s)]
      /\ fate' = Settled({Head(s)}, "answered", fate)
      /\ UNCHANGED <<turn, gateway, owed, journal>>
    BY CommandIs
<1>2. s \in Seq(Message) /\ b \in Places /\ In(b) = s /\ In(b)' = Tail(s)
    BY <1>1, InSession DEF TypeOK, Messages
<1>3. \A p \in Places \ {b} : In(p)' = In(p) \/ In(p)' = <<>>
    <2>1. \A j \in Keys : j # k => bus'[j] = bus[j]
        BY <1>1 DEF TypeOK
    <2>2. \A t \in Turns : AtWork(t)' => AtWork(t)
        BY <1>1 DEF AtWork, Early
    <2>3. QED
        BY <1>1, <2>1, <2>2, Frame
<1> HIDE DEF b
<1>4. NoTwins(s) /\ IdsAt(b) = IdsOf(s)
    BY <1>2 DEF OnePlace, Once, IdsAt
<1>5. Head(s).id \in Sent
    BY <1>1, <1>2, <1>4, HeadTail DEF OnePlace, Known
<1>6. NoTwins(In(b)') /\ IdsAt(b)' \subseteq IdsAt(b)
    BY <1>1, <1>2, <1>4, HeadTail DEF IdsAt
<1>7. Sent' = Sent /\ InOrder'
    BY <1>1, <1>5, SettledSent
<1>8. Once' /\ Known'
    BY <1>2, <1>3, <1>6, <1>7, OneShrinks DEF OnePlace
<1>9. QED
    BY <1>7, <1>8 DEF OnePlace

LEMMA FollowUpOnce ==
    ASSUME TypeOK, OnePlace, NEW k \in Keys, ConsumeFollowUp(k)
    PROVE  OnePlace'
<1> DEFINE s == bus[k]
           m == Head(s)
           a == <<"bus", k>>
<1>0. PICK r \in Turns :
         /\ \A t \in Turns \ {r} : Untouched(t)
         /\ turn'[r].pc = turn[r].pc /\ turn'[r].opener = turn[r].opener
         /\ turn'[r].pulled = turn[r].pulled /\ turn'[r].hand = turn[r].hand
         /\ \/ /\ turn'[r].inject = Append(turn[r].inject, m)
               /\ turn'[r].deferred = turn[r].deferred
            \/ /\ turn'[r].deferred = Append(turn[r].deferred, m)
               /\ turn'[r].inject = turn[r].inject
    BY FollowUpIs
<1>1. /\ s # <<>> /\ bus' = [bus EXCEPT ![k] = Tail(s)]
      /\ UNCHANGED <<gateway, owed, journal, fate>>
    BY FollowUpIs
<1>2. Sent' = Sent /\ InOrder'
    BY <1>1, SentKept DEF OnePlace
<1>3. s \in Seq(Message) /\ a \in Places /\ In(a) = s /\ In(a)' = Tail(s)
    BY <1>1, InSession DEF TypeOK, Messages
<1> DEFINE e == <<"inject", r>>
           d == <<"deferred", r>>
<1>d. /\ e \in Places /\ d \in Places /\ e # a /\ d # a /\ e # d
      /\ In(e) = turn[r].inject /\ In(e)' = turn'[r].inject
      /\ In(d) = turn[r].deferred /\ In(d)' = turn'[r].deferred
    <2>1. e \in Places /\ d \in Places
        BY <1>0, InTask DEF TaskKinds
    <2>2. /\ In(e) = turn[r].inject /\ In(e)' = turn'[r].inject
          /\ In(d) = turn[r].deferred /\ In(d)' = turn'[r].deferred
        BY <1>0, InTask
    <2>3. QED
        BY <2>1, <2>2
<1>e. \A p \in Places \ {a, e, d} : In(p)' = In(p) \/ In(p)' = <<>>
    <2>1. \A j \in Keys : j # k => bus'[j] = bus[j]
        BY <1>1 DEF TypeOK
    <2>2. \A t \in Turns : AtWork(t)' => AtWork(t)
        BY <1>0, <1>1 DEF AtWork, Early, Untouched
    <2>3. QED
        BY <1>0, <1>1, <2>1, <2>2, Frame DEF Untouched
<1> HIDE DEF e, d
<1>4. \E b \in {e, d} : /\ b \in Places /\ b # a /\ In(b)' = Append(In(b), m)
                        /\ \A c \in {e, d} \ {b} : In(c)' = In(c)
    <2>1. CASE In(e)' = Append(In(e), m) /\ In(d)' = In(d)
        BY <1>d, <2>1
    <2>2. CASE In(d)' = Append(In(d), m) /\ In(e)' = In(e)
        BY <1>d, <2>2
    <2>3. QED
        BY <1>0, <1>d, <2>1, <2>2
<1>b. PICK b \in {e, d} : /\ b \in Places /\ b # a /\ In(b)' = Append(In(b), m)
                         /\ \A c \in {e, d} \ {b} : In(c)' = In(c)
    BY <1>4
<1>5. \A p \in Places \ {a, b} : In(p)' = In(p) \/ In(p)' = <<>>
    BY <1>e, <1>b
<1>6. In(b) \in Seq(Message) /\ NoTwins(s) /\ NoTwins(In(b)) /\ IdsAt(a) \cap IdsAt(b) = {}
    BY <1>3, <1>b, InMessages DEF OnePlace, Once
<1> DEFINE x == In(b)
           y == In(b)'
<1>7. y = Append(x, m)
    BY <1>b
<1> HIDE DEF a, x, y, s
<1>8. m \in Message /\ IdsOf(s) = {m.id} \cup IdsOf(Tail(s)) /\ NoTwins(Tail(s)) /\ m.id \notin IdsOf(Tail(s))
    BY <1>1, <1>3, <1>6, HeadTail
<1>9. IdsAt(a) = IdsOf(s) /\ IdsAt(a)' = IdsOf(Tail(s)) /\ IdsAt(b) = IdsOf(x) /\ IdsAt(b)' = IdsOf(y)
    BY <1>3 DEF IdsAt, x, y
<1> HIDE DEF m
<1>10. x \in Seq(Message) /\ NoTwins(x) /\ m.id \notin IdsOf(x)
    BY <1>6, <1>8, <1>9 DEF x
<1>11. NoTwins(y) /\ IdsOf(y) = IdsOf(x) \cup {m.id}
    BY <1>7, <1>8, <1>10, Appended
<1>12. NoTwins(In(a)') /\ NoTwins(In(b)')
    BY <1>3, <1>8, <1>11 DEF y
<1>13. /\ IdsAt(a)' \cap IdsAt(b)' = {}
       /\ IdsAt(a)' \cup IdsAt(b)' \subseteq IdsAt(a) \cup IdsAt(b)
    BY <1>6, <1>8, <1>9, <1>11
<1>14. Once' /\ Known'
    BY <1>2, <1>3, <1>b, <1>5, <1>12, <1>13, TwoShare DEF OnePlace
<1>15. QED
    BY <1>2, <1>14 DEF OnePlace

LEMMA OpenerOnce ==
    ASSUME TypeOK, NoneOutlives, OnePlace, NEW k \in Keys, ConsumeOpener(k)
    PROVE  OnePlace'
<1> DEFINE s == bus[k]
           m == Head(s)
           a == <<"bus", k>>
<1>1. /\ gateway = "serving" /\ s # <<>> /\ bus' = [bus EXCEPT ![k] = Tail(s)] /\ m \in Message
      /\ UNCHANGED <<gateway, owed, journal, fate>>
    BY OpenerIs
<1>2. PICK t \in Turns :
         /\ turn[t].pc = "free" /\ turn'[t].pc = "created" /\ turn'[t].opener = m
         /\ turn'[t].pulled = <<>> /\ turn'[t].inject = <<>> /\ turn'[t].deferred = <<>>
         /\ turn'[t].hand = <<>>
         /\ \A u \in Turns \ {t} : Untouched(u)
    BY OpenerIs
<1> DEFINE b == <<"opener", t>>
<1>3. Sent' = Sent /\ InOrder'
    BY <1>1, SentKept DEF OnePlace
<1>4. s \in Seq(Message) /\ a \in Places /\ In(a) = s /\ In(a)' = Tail(s)
    BY <1>1, InSession DEF TypeOK, Messages
<1>5. b \in Places /\ b # a /\ In(b) = <<>> /\ In(b)' = <<m>>
    <2>1. ~AtWork(t) /\ AtWork(t)'
        BY <1>1, <1>2 DEF AtWork, Early
    <2>2. QED
        BY <1>2, <2>1, InTask DEF TaskKinds
<1>6. \A p \in Places \ {a, b} : In(p)' = In(p) \/ In(p)' = <<>>
    <2>1. \A j \in Keys : j # k => bus'[j] = bus[j]
        BY <1>1 DEF TypeOK
    <2>2. \A u \in Turns \ {t} : AtWork(u)' => AtWork(u)
        BY <1>1, <1>2 DEF AtWork, Early, Untouched
    <2>3. QED
        BY <1>1, <1>2, <2>1, <2>2, Frame DEF Untouched
<1> HIDE DEF a, b
<1>7. NoTwins(s)
    BY <1>4 DEF OnePlace, Once
<1> HIDE DEF s
<1>8. m \in Message /\ IdsOf(s) = {m.id} \cup IdsOf(Tail(s)) /\ NoTwins(Tail(s)) /\ m.id \notin IdsOf(Tail(s))
    BY <1>1, <1>4, <1>7, HeadTail
<1> HIDE DEF m
<1>9. NoTwins(<<m>>) /\ IdsOf(<<m>>) = {m.id}
    BY <1>8, OneMessage
<1>10. /\ NoTwins(In(a)') /\ NoTwins(In(b)')
       /\ IdsAt(a) = IdsOf(s) /\ IdsAt(a)' = IdsOf(Tail(s)) /\ IdsAt(b)' = {m.id}
    BY <1>4, <1>5, <1>8, <1>9 DEF IdsAt
<1>11. /\ IdsAt(a)' \cap IdsAt(b)' = {}
       /\ IdsAt(a)' \cup IdsAt(b)' \subseteq IdsAt(a) \cup IdsAt(b)
    BY <1>8, <1>10
<1>12. Once' /\ Known'
    BY <1>3, <1>4, <1>5, <1>6, <1>10, <1>11, TwoShare DEF OnePlace
<1>13. QED
    BY <1>3, <1>12 DEF OnePlace

LEMMA AdvanceOnce ==
    ASSUME TypeOK, Routing, OnePlace, NEW t \in Turns, Begin(t) \/ Run(t) \/ Finish(t) \/ UnwindBody(t)
    PROVE  OnePlace'
<1>1. /\ \A u \in Turns \ {t} : Untouched(u)
      /\ Holding(t) /\ turn[t].pc # "free" /\ Live(t)
      /\ Finish(t) => ~turn[t].doomed
      /\ UNCHANGED <<bus, gateway, owed, journal>>
    <2>1. Finish(t) => ~turn[t].doomed
        BY DEF Finish, Undisturbed
    <2>2. QED
        BY <2>1, AdvanceIs DEF Live
<1>2. \A p \in Places : In(p)' = In(p) \/ In(p)' = <<>>
    <2>1. \A u \in Turns : AtWork(u)' => AtWork(u)
        BY <1>1 DEF AtWork, Early, Untouched
    <2>2. QED
        BY <1>1, <2>1, Frame DEF Untouched, Holding
<1>3. Sent' = Sent /\ InOrder'
    <2>1. CASE Finish(t)
        <3>1. AtWork(t)
            BY <1>1, <2>1 DEF Routing, ListedUntilDrain, AtWork
        <3>2. \A i \in Ids : fate'[i] = IF \E m \in Taken(t) : m.id = i THEN "answered" ELSE fate[i]
            BY <2>1 DEF Finish, Settled
        <3>3. \A m \in Taken(t) : m.id \in Sent
            BY <3>1, TakenKnown DEF OnePlace
        <3>4. \A i \in Ids : fate'[i] = fate[i] \/ (i \in Sent /\ fate'[i] # "unsent")
            BY <3>2, <3>3
        <3>5. QED
            BY <3>4, SentKept DEF OnePlace
    <2>2. CASE ~Finish(t)
        <3>1. fate' = fate
            BY <2>2 DEF Begin, Run, UnwindBody
        <3>2. QED
            BY <3>1, SentKept DEF OnePlace
    <2>3. QED
        BY <2>1, <2>2
<1>4. QED
    BY <1>2, <1>3, NothingMoves DEF OnePlace

LEMMA DropOnce ==
    ASSUME TypeOK, OnePlace, NEW t \in Turns, DropUnstarted(t) \/ UnwindHandBack(t)
    PROVE  OnePlace'
<1>1. /\ \A u \in Turns \ {t} : Untouched(u)
      /\ \/ turn'[t].inject = turn[t].inject /\ turn'[t].deferred = turn[t].deferred
         \/ turn'[t].inject = <<>> /\ turn'[t].deferred = <<>>
      /\ turn'[t].pc = "free" /\ turn'[t].hand = <<>>
      /\ UNCHANGED <<bus, gateway, owed, journal>>
      /\ UNCHANGED fate \/ fate' = Settled(ToSet(turn[t].hand), "dropped", fate)
    BY DropIs
<1>2. \A p \in Places : In(p)' = In(p) \/ In(p)' = <<>>
    <2>1. ~AtWork(t)' /\ \A u \in Turns \ {t} : AtWork(u)' => AtWork(u)
        BY <1>1 DEF AtWork, Early, Untouched
    <2>2. QED
        BY <1>1, <2>1, Frame DEF Untouched
<1>3. Sent' = Sent /\ InOrder'
    <2>1. CASE UNCHANGED fate
        BY <2>1, SentKept DEF OnePlace
    <2>2. CASE fate' = Settled(ToSet(turn[t].hand), "dropped", fate)
        <3>1. \A m \in ToSet(turn[t].hand) : m.id \in Sent
            BY HeldKnown DEF OnePlace
        <3>2. QED
            BY <2>2, <3>1, SettledSent
    <2>3. QED
        BY <1>1, <2>1, <2>2
<1>4. QED
    BY <1>2, <1>3, NothingMoves DEF OnePlace

\* What is pulled out of a queue, or out of two, is no more in them.
LEMMA PulledOff ==
    ASSUME NEW p \in Seq(Message), NEW a \in Seq(Message), NEW n \in Nat,
           NoTwins(p), NoTwins(a), Ours(p, a)
    PROVE  /\ NoTwins(p \o Take(a, n)) /\ NoTwins(Rest(a, n)) /\ Ours(p \o Take(a, n), Rest(a, n))
           /\ IdsOf(p \o Take(a, n)) \subseteq IdsOf(p) \cup IdsOf(a)
           /\ IdsOf(Rest(a, n)) \subseteq IdsOf(a)
<1> DEFINE x == Take(a, n)
           y == Rest(a, n)
<1>1. /\ x \in Seq(Message) /\ IdsOf(a) = IdsOf(x) \cup IdsOf(y)
      /\ NoTwins(x) /\ NoTwins(y) /\ Ours(x, y)
    BY TakeRest
<1> HIDE DEF x, y
<1>2. Ours(p, x)
    BY <1>1 DEF Ours
<1>3. NoTwins(p \o x) /\ IdsOf(p \o x) = IdsOf(p) \cup IdsOf(x)
    BY <1>1, <1>2, Joined
<1>4. /\ NoTwins(p \o x) /\ NoTwins(y) /\ Ours(p \o x, y)
      /\ IdsOf(p \o x) \subseteq IdsOf(p) \cup IdsOf(a) /\ IdsOf(y) \subseteq IdsOf(a)
    BY <1>1, <1>3 DEF Ours
<1>5. QED
    BY <1>4 DEF x, y

LEMMA PulledApart ==
    ASSUME NEW p \in Seq(Message), NEW a \in Seq(Message), NEW b \in Seq(Message), NEW n \in Nat,
           NoTwins(p), NoTwins(a), NoTwins(b), Ours(p, a), Ours(p, b), Ours(a, b),
           NEW x, NEW y, NEW z,
           x = Take(a \o b, n), y = Rest(a, n), z = Rest(b, n - Len(Take(a, n)))
    PROVE  /\ NoTwins(p \o x) /\ NoTwins(y) /\ NoTwins(z)
           /\ Ours(p \o x, y) /\ Ours(p \o x, z) /\ Ours(y, z)
           /\ IdsOf(p \o x) \cup IdsOf(y) \cup IdsOf(z) \subseteq IdsOf(p) \cup IdsOf(a) \cup IdsOf(b)
<1>1. /\ x \in Seq(Message) /\ IdsOf(a) \cup IdsOf(b) = IdsOf(x) \cup IdsOf(y) \cup IdsOf(z)
      /\ IdsOf(y) \subseteq IdsOf(a) /\ IdsOf(z) \subseteq IdsOf(b)
      /\ NoTwins(x) /\ NoTwins(y) /\ NoTwins(z) /\ Ours(x, y) /\ Ours(x, z)
    BY TakenFromBoth, ZenonT(30)
<1>2. Ours(p, x)
    BY <1>1 DEF Ours
<1>3. NoTwins(p \o x) /\ IdsOf(p \o x) = IdsOf(p) \cup IdsOf(x)
    BY <1>1, <1>2, Joined
<1>4. QED
    BY <1>1, <1>3 DEF Ours

LEMMA PullOnce ==
    ASSUME TypeOK, Routing, OnePlace, NEW t \in Turns, PullSteers(t) \/ PullAll(t)
    PROVE  OnePlace'
<1> DEFINE x == <<"pulled", t>>
           y == <<"inject", t>>
           z == <<"deferred", t>>
<1>1. /\ \A u \in Turns \ {t} : Untouched(u)
      /\ turn[t].pc = "running" /\ ~turn[t].doomed /\ turn'[t].pc = "running"
      /\ turn'[t].opener = turn[t].opener /\ turn'[t].hand = turn[t].hand
      /\ UNCHANGED <<bus, gateway, owed, journal, fate>>
    BY PullIs
<1>2. AtWork(t) /\ AtWork(t)'
    <2>1. Early
        BY <1>1 DEF Routing, ListedUntilDrain, Live
    <2>2. QED
        BY <1>1, <2>1 DEF AtWork, Early
<1>3. /\ x \in Places /\ y \in Places /\ z \in Places /\ x # y /\ x # z /\ y # z
      /\ In(x) = turn[t].pulled /\ In(x)' = turn'[t].pulled
      /\ In(y) = turn[t].inject /\ In(y)' = turn'[t].inject
      /\ In(z) = turn[t].deferred /\ In(z)' = turn'[t].deferred
    BY <1>2, InTask DEF TaskKinds
<1>4. \A p \in Places \ {x, y, z} : In(p)' = In(p) \/ In(p)' = <<>>
    <2>1. \A u \in Turns : AtWork(u)' => AtWork(u)
        BY <1>1, <1>2 DEF AtWork, Early, Untouched
    <2>2. QED
        BY <1>1, <2>1, Frame DEF Untouched
<1>5. Sent' = Sent /\ InOrder'
    BY <1>1, SentKept DEF OnePlace
<1> HIDE DEF x, y, z
<1>6. /\ In(x) \in Seq(Message) /\ In(y) \in Seq(Message) /\ In(z) \in Seq(Message) /\ Batch \in Nat
      /\ NoTwins(In(x)) /\ NoTwins(In(y)) /\ NoTwins(In(z))
      /\ Ours(In(x), In(y)) /\ Ours(In(x), In(z)) /\ Ours(In(y), In(z))
    BY <1>3, InMessages, SizesAssumption DEF OnePlace, Once, Ours, IdsAt
<1>7. /\ In(y)' = Rest(In(y), Batch)
      /\ \/ In(x)' = In(x) \o Take(In(y), Batch) /\ In(z)' = In(z)
         \/ /\ In(x)' = In(x) \o Take(In(y) \o In(z), Batch)
            /\ In(z)' = Rest(In(z), Batch - Len(Take(In(y), Batch)))
    BY <1>3, PullIs
<1>8. /\ NoTwins(In(x)') /\ NoTwins(In(y)') /\ NoTwins(In(z)')
      /\ Ours(In(x)', In(y)') /\ Ours(In(x)', In(z)') /\ Ours(In(y)', In(z)')
      /\ IdsOf(In(x)') \cup IdsOf(In(y)') \cup IdsOf(In(z)')
           \subseteq IdsOf(In(x)) \cup IdsOf(In(y)) \cup IdsOf(In(z))
    <2> DEFINE p == In(x)
               a == In(y)
               b == In(z)
               P == In(x)'
               A == In(y)'
               B == In(z)'
    <2>1. /\ p \in Seq(Message) /\ a \in Seq(Message) /\ b \in Seq(Message) /\ Batch \in Nat
          /\ NoTwins(p) /\ NoTwins(a) /\ NoTwins(b) /\ Ours(p, a) /\ Ours(p, b) /\ Ours(a, b)
        BY <1>6
    <2>2. A = Rest(a, Batch)
        BY <1>7
    <2> DEFINE all == Take(a \o b, Batch)
               less == Rest(b, Batch - Len(Take(a, Batch)))
               few == p \o Take(a, Batch)
    <2>3. \/ P = few /\ B = b
          \/ P = p \o all /\ B = less
        BY <1>7
    <2>4. CASE P = few /\ B = b
        <3> HIDE DEF p, a, b, P, A, B
        <3>1. /\ NoTwins(few) /\ NoTwins(A) /\ Ours(few, A)
              /\ IdsOf(few) \subseteq IdsOf(p) \cup IdsOf(a) /\ IdsOf(A) \subseteq IdsOf(a)
            BY <2>1, <2>2, PulledOff
        <3> HIDE DEF few
        <3>2. /\ NoTwins(P) /\ NoTwins(A) /\ NoTwins(B) /\ Ours(P, A) /\ Ours(P, B) /\ Ours(A, B)
              /\ IdsOf(P) \cup IdsOf(A) \cup IdsOf(B) \subseteq IdsOf(p) \cup IdsOf(a) \cup IdsOf(b)
            BY <2>1, <2>4, <3>1 DEF Ours
        <3>3. QED
            BY <3>2 DEF p, a, b, P, A, B
    <2>5. CASE P = p \o all /\ B = less
        <3> HIDE DEF p, a, b, P, A, B
        <3>1. /\ NoTwins(p \o all) /\ NoTwins(A) /\ NoTwins(less)
              /\ Ours(p \o all, A) /\ Ours(p \o all, less) /\ Ours(A, less)
              /\ IdsOf(p \o all) \cup IdsOf(A) \cup IdsOf(less) \subseteq IdsOf(p) \cup IdsOf(a) \cup IdsOf(b)
            BY <2>1, <2>2, PulledApart
        <3> HIDE DEF all, less
        <3>2. /\ NoTwins(P) /\ NoTwins(A) /\ NoTwins(B) /\ Ours(P, A) /\ Ours(P, B) /\ Ours(A, B)
              /\ IdsOf(P) \cup IdsOf(A) \cup IdsOf(B) \subseteq IdsOf(p) \cup IdsOf(a) \cup IdsOf(b)
            BY <2>5, <3>1
        <3>3. QED
            BY <3>2 DEF p, a, b, P, A, B
    <2>6. QED
        BY <2>3, <2>4, <2>5
<1>9. {x, y, z} \in SUBSET Places
    BY <1>3
<1>10. \A p \in {x, y, z} :
         /\ NoTwins(In(p)')
         /\ \A i \in IdsAt(p)' : i \in Sent' \ Sent \/ \E q \in {x, y, z} : i \in IdsAt(q)
    BY <1>8 DEF IdsAt
<1>11. \A p, q \in {x, y, z} : p # q => IdsAt(p)' \cap IdsAt(q)' = {}
    BY <1>8 DEF IdsAt, Ours
<1>12. Once' /\ Known'
    BY <1>4, <1>5, <1>9, <1>10, <1>11, ChangedAt DEF OnePlace
<1>13. QED
    BY <1>5, <1>12 DEF OnePlace

LEMMA HandBackClaimedOnce ==
    ASSUME TypeOK, NoneOutlives, OnePlace, NEW t \in Turns, HandBack(t), UNCHANGED bus,
           fate' = Settled({Head(turn[t].hand)}, "claimed", fate)
    PROVE  OnePlace'
<1> DEFINE b == <<"hand", t>>
           h == turn[t].hand
<1>1. h \in Seq(Message) /\ h # <<>> /\ turn[t].pc = "handback" /\ \A u \in Turns \ {t} : Untouched(u)
    BY HandBackIs
<1>2. UNCHANGED <<gateway, owed, journal>>
    BY DEF HandBack
<1>3. Idle.pc = "free" /\ Idle.hand = <<>> /\ Idle.inject = <<>> /\ Idle.deferred = <<>>
    BY DEF Idle
<1>4. \/ turn'[t] = Idle /\ Tail(h) = <<>>
      \/ /\ turn'[t].hand = Tail(h)
         /\ turn'[t].opener = turn[t].opener /\ turn'[t].pulled = turn[t].pulled
         /\ turn'[t].inject = turn[t].inject /\ turn'[t].deferred = turn[t].deferred
    BY HandBackIs
<1>5. b \in Places /\ In(b) = h /\ In(b)' = Tail(h)
    BY <1>3, <1>4, InTask DEF TaskKinds
<1>6. \A p \in Places \ {b} : In(p)' = In(p) \/ In(p)' = <<>>
    <2>1. \A u \in Turns : AtWork(u)' => AtWork(u)
        BY <1>1, <1>2 DEF AtWork, Early, Untouched
    <2>2. /\ turn'[t].inject = turn[t].inject \/ turn'[t].inject = <<>>
          /\ turn'[t].deferred = turn[t].deferred \/ turn'[t].deferred = <<>>
          /\ AtWork(t)' => turn'[t].opener = turn[t].opener /\ turn'[t].pulled = turn[t].pulled
        BY <1>3, <1>4 DEF AtWork
    <2>3. QED
        BY <1>1, <1>2, <2>1, <2>2, Frame DEF Untouched
<1> HIDE DEF b, h
<1>7. NoTwins(h) /\ IdsAt(b) = IdsOf(h)
    BY <1>5 DEF OnePlace, Once, IdsAt
<1>8. Head(h).id \in IdsOf(h) /\ NoTwins(Tail(h)) /\ IdsOf(Tail(h)) \subseteq IdsOf(h)
    BY <1>1, <1>7, HeadTail
<1>9. Sent' = Sent /\ InOrder'
    <2>1. Head(h).id \in Sent
        BY <1>5, <1>7, <1>8 DEF OnePlace, Known
    <2>2. fate' = Settled({Head(h)}, "claimed", fate)
        BY DEF h
    <2>3. QED
        BY <2>1, <2>2, SettledSent
<1>10. NoTwins(In(b)') /\ IdsAt(b)' \subseteq IdsAt(b)
    BY <1>5, <1>7, <1>8 DEF IdsAt
<1>11. Once' /\ Known'
    BY <1>5, <1>6, <1>9, <1>10, OneShrinks DEF OnePlace
<1>12. QED
    BY <1>9, <1>11 DEF OnePlace

LEMMA HandBackAgainOnce ==
    ASSUME TypeOK, NoneOutlives, OnePlace, NEW t \in Turns, HandBack(t), UNCHANGED fate,
           bus' = [bus EXCEPT ![Key(t)] = Append(@, Head(turn[t].hand))]
    PROVE  OnePlace'
<1>1. PICK k \in Keys : k = Key(t)
    BY HandBackIs
<1> DEFINE a == <<"bus", k>>
           b == <<"hand", t>>
           h == turn[t].hand
           m == Head(h)
<1>2. /\ \A u \in Turns \ {t} : Untouched(u)
      /\ h \in Seq(Message) /\ h # <<>>
      /\ bus' = [bus EXCEPT ![k] = Append(bus[k], m)]
      /\ turn'[t].hand = Tail(h)
      /\ UNCHANGED <<gateway, owed, journal, fate>>
      /\ turn[t].pc = "handback"
      /\ \/ turn'[t] = Idle
         \/ /\ turn'[t].opener = turn[t].opener /\ turn'[t].pulled = turn[t].pulled
            /\ turn'[t].inject = turn[t].inject /\ turn'[t].deferred = turn[t].deferred
    <2>0. /\ \A u \in Turns \ {t} : Untouched(u)
          /\ h \in Seq(Message) /\ h # <<>>
          /\ turn[t].pc = "handback"
        BY HandBackIs
    <2>a. bus' = [bus EXCEPT ![Key(t)] = Append(@, Head(turn[t].hand))]
        OBVIOUS
    <2>b. (turn'[t] = Idle /\ Tail(turn[t].hand) = <<>>) \/ turn'[t].hand = Tail(turn[t].hand)
        BY HandBackIs
    <2>c. turn'[t].hand = Tail(h)
        <3>1. Idle.hand = <<>>
            BY DEF Idle
        <3>2. QED
            BY <2>b, <3>1
    <2>1. /\ bus' = [bus EXCEPT ![k] = Append(bus[k], m)]
        BY <1>1, <2>a
    <2>2. UNCHANGED <<gateway, owed, journal, fate>>
        BY DEF HandBack
    <2>3. \/ turn'[t] = Idle
          \/ /\ turn'[t].opener = turn[t].opener /\ turn'[t].pulled = turn[t].pulled
             /\ turn'[t].inject = turn[t].inject /\ turn'[t].deferred = turn[t].deferred
        BY <1>1, HandBackIs
    <2>4. QED
        BY <2>0, <2>c, <2>1, <2>2, <2>3
<1>3. Sent' = Sent /\ InOrder'
    BY <1>2, SentKept DEF OnePlace
<1>4. a \in Places /\ b \in Places /\ a # b /\ In(a) = bus[k] /\ In(b) = h
      /\ In(a)' = Append(bus[k], m) /\ In(b)' = Tail(h)
    <2>1. bus'[k] = Append(bus[k], m)
        BY <1>2 DEF TypeOK, Messages
    <2>2. QED
        BY <1>2, <2>1, InSession, InTask DEF TaskKinds
<1>5. \A p \in Places \ {a, b} : In(p)' = In(p) \/ In(p)' = <<>>
    <2>1. \A j \in Keys : j # k => bus'[j] = bus[j]
        BY <1>2 DEF TypeOK
    <2>2. \A u \in Turns : AtWork(u)' => AtWork(u)
        BY <1>2 DEF AtWork, Early, Untouched
    <2>3. /\ turn'[t].inject = turn[t].inject \/ turn'[t].inject = <<>>
          /\ turn'[t].deferred = turn[t].deferred \/ turn'[t].deferred = <<>>
          /\ AtWork(t)' => turn'[t].opener = turn[t].opener /\ turn'[t].pulled = turn[t].pulled
        BY <1>2 DEF Idle, AtWork
    <2>4. QED
        BY <1>2, <2>1, <2>2, <2>3, Frame DEF Untouched
<1>6. In(a) \in Seq(Message) /\ NoTwins(In(a)) /\ NoTwins(In(b)) /\ IdsAt(a) \cap IdsAt(b) = {}
    BY <1>4, InMessages DEF OnePlace, Once
<1> DEFINE s == In(a)
           e == Append(s, m)
<1>7. s \in Seq(Message) /\ NoTwins(s) /\ NoTwins(h) /\ Ours(s, h)
    BY <1>4, <1>6 DEF Ours, IdsAt
<1>8. e = In(a)' /\ IdsOf(h) = IdsAt(b) /\ IdsOf(s) = IdsAt(a) /\ Tail(h) = In(b)'
    BY <1>4 DEF IdsAt
<1> HIDE DEF a, b, h, s, e
<1>9. m \in Message /\ IdsOf(h) = {m.id} \cup IdsOf(Tail(h)) /\ NoTwins(Tail(h)) /\ m.id \notin IdsOf(Tail(h))
    BY <1>2, <1>7, HeadTail
<1> HIDE DEF m
<1>10. m.id \notin IdsOf(s)
    BY <1>7, <1>9 DEF Ours
<1>11. NoTwins(e) /\ IdsOf(e) = IdsOf(s) \cup {m.id}
    BY <1>7, <1>9, <1>10, Appended DEF e
<1>12. IdsAt(a)' = IdsOf(e) /\ IdsAt(b)' = IdsOf(Tail(h))
    BY <1>8 DEF IdsAt
<1>13. /\ NoTwins(In(a)') /\ NoTwins(In(b)') /\ IdsAt(a)' \cap IdsAt(b)' = {}
       /\ IdsAt(a)' \cup IdsAt(b)' \subseteq IdsAt(a) \cup IdsAt(b)
    <2>1. NoTwins(In(a)') /\ NoTwins(In(b)')
        BY <1>8, <1>9, <1>11
    <2>2. IdsOf(s) \cap IdsOf(h) = {}
        BY <1>7 DEF Ours
    <2>3. QED
        BY <1>8, <1>9, <1>11, <1>12, <2>1, <2>2
<1>14. Once' /\ Known'
    BY <1>3, <1>4, <1>5, <1>13, TwoShare DEF OnePlace
<1>15. QED
    BY <1>3, <1>14 DEF OnePlace

LEMMA HandBackOnce ==
    ASSUME TypeOK, NoneOutlives, OnePlace, NEW t \in Turns, HandBack(t)
    PROVE  OnePlace'
<1>1. CASE bus' = [bus EXCEPT ![Key(t)] = Append(@, Head(turn[t].hand))] /\ UNCHANGED fate
    BY <1>1, HandBackAgainOnce
<1>2. CASE fate' = Settled({Head(turn[t].hand)}, "claimed", fate) /\ UNCHANGED bus
    BY <1>2, HandBackClaimedOnce
<1>3. QED
    BY <1>1, <1>2, HandBackIs

LEMMA GiveBackOnce ==
    ASSUME TypeOK, NoneOutlives, Once, Known, Sent' = Sent, NEW t \in Turns, turn[t].pc # "free", GiveBack(t)
    PROVE  Once' /\ Known'
<1>1. PICK k \in Keys : k = Key(t)
    BY GiveBackIs
<1>2. /\ \A u \in Turns \ {t} :
            /\ turn'[u].pc = turn[u].pc /\ turn'[u].opener = turn[u].opener
            /\ turn'[u].pulled = turn[u].pulled /\ turn'[u].hand = turn[u].hand
      /\ \A u \in Turns : registered[k] = u => turn'[u].inject = <<>> /\ turn'[u].deferred = <<>>
      /\ \A u \in Turns \ {t} : registered[k] # u =>
            turn'[u].inject = turn[u].inject /\ turn'[u].deferred = turn[u].deferred
      /\ UNCHANGED <<gateway, owed, journal>>
    <2>1. UNCHANGED <<gateway, owed, journal>>
        BY DEF GiveBack
    <2>2. QED
        BY <1>1, <2>1, GiveBackIs
<1> DEFINE L == IF registered[k] = None THEN <<>> ELSE Queued(registered[k])
<1>3. L = Leftover(t)
    BY <1>1 DEF Leftover
<1>4. /\ UNCHANGED bus
      /\ \/ /\ turn'[t].hand = L /\ turn'[t].pc = "handback"
            /\ turn'[t].opener = turn[t].opener /\ turn'[t].pulled = turn[t].pulled
            /\ registered[k] # t => turn'[t].inject = turn[t].inject /\ turn'[t].deferred = turn[t].deferred
         \/ turn'[t] = Idle /\ L = <<>>
    BY <1>1, <1>3, GiveBackIs
<1> HIDE DEF L
<1>i. /\ Idle.pc = "free" /\ Idle.hand = <<>> /\ Idle.inject = <<>> /\ Idle.deferred = <<>>
    BY DEF Idle
<1>x. turn'[t].hand = L
    BY <1>4, <1>i
<1> DEFINE h == <<"hand", t>>
<1>5. \A C : h \in C => \A p \in Places \ C : In(p)' = In(p) \/ In(p)' = <<>>
    <2> SUFFICES ASSUME NEW C, h \in C
                 PROVE  \A p \in Places \ C : In(p)' = In(p) \/ In(p)' = <<>>
        OBVIOUS
    <2>2. \A u \in Turns : AtWork(u)' => AtWork(u)
        BY <1>2 DEF AtWork, Early
    <2>3. \A u \in Turns :
            /\ turn'[u].inject = turn[u].inject \/ turn'[u].inject = <<>>
            /\ turn'[u].deferred = turn[u].deferred \/ turn'[u].deferred = <<>>
        <3>1. turn'[t].inject = <<>> \/ (registered[k] # t => turn'[t].inject = turn[t].inject)
            BY <1>4, <1>i
        <3>2. turn'[t].deferred = <<>> \/ (registered[k] # t => turn'[t].deferred = turn[t].deferred)
            BY <1>4, <1>i
        <3>3. QED
            BY <1>2, <3>1, <3>2
    <2>4. \A u \in Turns : AtWork(u)' => turn'[u].opener = turn[u].opener /\ turn'[u].pulled = turn[u].pulled
        <3>1. turn'[t].pc = "free" \/ (turn'[t].opener = turn[t].opener /\ turn'[t].pulled = turn[t].pulled)
            BY <1>4, <1>i
        <3>2. QED
            BY <1>2, <3>1 DEF AtWork
    <2>5. QED
        BY <1>2, <1>4, <2>2, <2>3, <2>4, Frame
<1>6. h \in Places /\ In(h)' = turn'[t].hand
    BY <1>1, InTask DEF TaskKinds
<1>7. CASE registered[k] = None
    <2>1. L = <<>>
        BY <1>7 DEF L
    <2>2. \A p \in Places \ {h} : In(p)' = In(p) \/ In(p)' = <<>>
        BY <1>5
    <2>3. \A p \in Places : In(p)' = In(p) \/ In(p)' = <<>>
        BY <1>6, <1>x, <2>1, <2>2
    <2>4. QED
        BY <2>3, NothingMoves
<1>8. CASE registered[k] # None
    <2>1. PICK r \in Turns : r = registered[k]
        BY <1>8 DEF TypeOK
    <2> DEFINE b == <<"inject", r>>
               c == <<"deferred", r>>
    <2>2. /\ b \in Places /\ c \in Places /\ b # c /\ h # b /\ h # c
          /\ In(b) = turn[r].inject /\ In(c) = turn[r].deferred
          /\ In(b)' = <<>> /\ In(c)' = <<>>
        <3>1. turn'[r].inject = <<>> /\ turn'[r].deferred = <<>>
            BY <1>2, <2>1
        <3>2. QED
            BY <3>1, InTask DEF TaskKinds
    <2>3. In(h)' = In(b) \o In(c)
        BY <1>6, <1>8, <1>x, <2>1, <2>2 DEF Queued, L
    <2>5. \A p \in Places \ {b, c, h} : In(p)' = In(p) \/ In(p)' = <<>>
        BY <1>5
    <2> HIDE DEF b, c, h
    <2>6. /\ In(b) \in Seq(Message) /\ In(c) \in Seq(Message)
          /\ NoTwins(In(b)) /\ NoTwins(In(c)) /\ Ours(In(b), In(c))
        BY <2>2, InMessages DEF Once, Ours, IdsAt
    <2>7. NoTwins(In(b) \o In(c)) /\ IdsOf(In(b) \o In(c)) = IdsOf(In(b)) \cup IdsOf(In(c))
        BY <2>6, Joined
    <2>8. /\ NoTwins(In(b)') /\ NoTwins(In(c)') /\ NoTwins(In(h)')
          /\ IdsAt(b)' = {} /\ IdsAt(c)' = {} /\ IdsAt(h)' = IdsAt(b) \cup IdsAt(c)
        BY <2>2, <2>3, <2>7, NoMessages DEF IdsAt
    <2>9. {b, c, h} \in SUBSET Places
        BY <1>6, <2>2
    <2>10. \A p \in {b, c, h} :
             /\ NoTwins(In(p)')
             /\ \A i \in IdsAt(p)' : i \in Sent' \ Sent \/ \E q \in {b, c, h} : i \in IdsAt(q)
        BY <2>8
    <2>11. \A p, q \in {b, c, h} : p # q => IdsAt(p)' \cap IdsAt(q)' = {}
        BY <2>8
    <2>12. QED
        BY <2>5, <2>9, <2>10, <2>11, ChangedAt
<1>9. QED
    BY <1>7, <1>8

LEMMA EndOnce ==
    ASSUME TypeOK, NoneOutlives, Routing, OnePlace, NEW t \in Turns, Leave(t) \/ Refuse(t)
    PROVE  OnePlace'
<1>1. GiveBack(t) /\ turn[t].pc # "free"
    BY DEF Leave, Refuse, Undisturbed
<1>2. \A i \in Ids : fate'[i] = fate[i] \/ (i \in Sent /\ fate'[i] # "unsent")
    <2>1. CASE Leave(t)
        BY <2>1 DEF Leave
    <2>2. CASE Refuse(t)
        <3>1. Live(t) /\ ~turn[t].doomed
            BY <2>2 DEF Refuse, Undisturbed, Live
        <3>2. AtWork(t)
            BY <1>1, <3>1 DEF Routing, ListedUntilDrain, AtWork
        <3>3. turn[t].opener.id \in Sent
            BY <3>2, TakenKnown DEF OnePlace, Taken
        <3>4. \A i \in Ids : fate'[i] = IF turn[t].opener.id = i THEN "answered" ELSE fate[i]
            BY <2>2 DEF Refuse, Settled
        <3>5. QED
            BY <3>3, <3>4
    <2>3. QED
        BY <2>1, <2>2
<1>3. Sent' = Sent /\ InOrder'
    BY <1>2, SentKept DEF OnePlace
<1>4. Once' /\ Known'
    BY <1>1, <1>3, GiveBackOnce DEF OnePlace
<1>5. QED
    BY <1>3, <1>4 DEF OnePlace

\* The session that has registered t's queues.
SessionOf(t) == CHOOSE k \in Keys : registered[k] = t

LEMMA SessionIs ==
    ASSUME TypeOK, RoutedOK, NEW k \in Keys, registered[k] # None
    PROVE  SessionOf(registered[k]) = k
BY DEF SessionOf, RoutedOK

LEMMA PendingOnce ==
    ASSUME TypeOK, Once, NEW k \in Keys
    PROVE  /\ Pending(k) \in Seq(Message) /\ NoTwins(Pending(k))
           /\ \A i \in IdsOf(Pending(k)) :
                 /\ registered[k] \in Turns
                 /\ i \in IdsAt(<<"inject", registered[k]>>) \cup IdsAt(<<"deferred", registered[k]>>)
<1>1. CASE registered[k] = None
    <2>1. Pending(k) = <<>>
        BY <1>1 DEF Pending
    <2>2. QED
        BY <2>1, NoMessages
<1>2. CASE registered[k] # None
    <2>1. PICK r \in Turns : r = registered[k]
        BY <1>2 DEF TypeOK
    <2> DEFINE b == <<"inject", r>>
               c == <<"deferred", r>>
    <2>2. b \in Places /\ c \in Places /\ b # c /\ Pending(k) = In(b) \o In(c)
        BY <1>2, <2>1, InTask DEF Pending, Queued, TaskKinds
    <2> HIDE DEF b, c
    <2>3. /\ In(b) \in Seq(Message) /\ In(c) \in Seq(Message)
          /\ NoTwins(In(b)) /\ NoTwins(In(c)) /\ Ours(In(b), In(c))
        BY <2>2, InMessages DEF Once, Ours, IdsAt
    <2>4. /\ In(b) \o In(c) \in Seq(Message) /\ NoTwins(In(b) \o In(c))
          /\ IdsOf(In(b) \o In(c)) = IdsAt(b) \cup IdsAt(c)
        BY <2>3, Joined DEF IdsAt
    <2>5. QED
        BY <2>1, <2>2, <2>4 DEF b, c
<1>3. QED
    BY <1>1, <1>2

\* The messages that the tasks listed for a session answer.
LEMMA OpenersOnce ==
    ASSUME TypeOK, NoneOutlives, Once, Early, NEW k \in Keys
    PROVE  /\ Openers(k) \in Seq(Message) /\ NoTwins(Openers(k))
           /\ \A i \in IdsOf(Openers(k)) : \E t \in Turns : Key(t) = k /\ i \in IdsAt(<<"opener", t>>)
<1> DEFINE o == Openers(k)
           a == active[k]
<1>1. /\ a \in Seq(Turns) /\ Len(o) = Len(a) /\ \A i \in 1..Len(a) : o[i] = turn[a[i]].opener
      /\ o \in Seq(Message)
    BY OpenersType DEF TypeOK, Openers, NoneOutlives
<1>2. \A i \in 1..Len(a) : a[i] \in Turns /\ turn[a[i]].pc # "free" /\ Key(a[i]) = k
    BY <1>1 DEF NoneOutlives, ListedOK, ToSet
<1>3. ASSUME NEW t \in Turns, turn[t].pc # "free"
      PROVE  <<"opener", t>> \in Places /\ IdsAt(<<"opener", t>>) = {turn[t].opener.id}
    <2>1. <<"opener", t>> \in Places /\ In(<<"opener", t>>) = <<turn[t].opener>>
        BY <1>3, InTask DEF AtWork, TaskKinds
    <2>2. turn[t].opener \in Message
        BY <1>3, MessagesOf
    <2>3. QED
        BY <2>1, <2>2, OneMessage DEF IdsAt
<1>4. \A t, u \in Turns : turn[t].pc # "free" /\ turn[u].pc # "free"
                          /\ turn[t].opener.id = turn[u].opener.id => t = u
    <2>1. SUFFICES ASSUME NEW t \in Turns, NEW u \in Turns, turn[t].pc # "free", turn[u].pc # "free",
                          turn[t].opener.id = turn[u].opener.id, t # u
                   PROVE  FALSE
        OBVIOUS
    <2>2. <<"opener", t>> # <<"opener", u>>
        BY <2>1
    <2>3. QED
        BY <1>3, <2>1, <2>2 DEF Once
<1>5. Unique(a)
    BY DEF NoneOutlives, ListedOK
<1> HIDE DEF o, a
<1>6. NoTwins(o)
    <2>1. ASSUME NEW i \in 1..Len(o), NEW j \in 1..Len(o), o[i].id = o[j].id PROVE i = j
        <3>1. a[i] = a[j]
            BY <1>1, <1>2, <1>4, <2>1
        <3>2. QED
            BY <1>1, <1>5, <2>1, <3>1 DEF Unique
    <2>2. QED
        BY <2>1 DEF NoTwins
<1>7. ASSUME NEW i \in IdsOf(o) PROVE \E t \in Turns : Key(t) = k /\ i \in IdsAt(<<"opener", t>>)
    <2>1. PICK n \in 1..Len(o) : i = o[n].id
        BY DEF IdsOf
    <2>2. a[n] \in Turns /\ Key(a[n]) = k /\ i \in IdsAt(<<"opener", a[n]>>)
        BY <1>1, <1>2, <1>3, <2>1
    <2>3. QED
        BY <2>2
<1>8. QED
    BY <1>1, <1>6, <1>7 DEF o

LEMMA BeginDrainOnce ==
    ASSUME TypeOK, NoneOutlives, Routing, OnePlace, BeginDrain
    PROVE  OnePlace'
<1> DEFINE Home == [q \in Places |->
              IF q[1] = "opener" THEN <<"owed", Key(q[2])>>
              ELSE IF q[1] \in {"inject", "deferred"} /\ IsRegistered(q[2]) /\ active[SessionOf(q[2])] # <<>>
                   THEN <<"owed", SessionOf(q[2])>>
                   ELSE q]
<1>1. /\ gateway = "closing" /\ gateway' = "draining" /\ owed' = [k \in Keys |-> TakenFrom(k)]
      /\ \A t \in Turns :
            /\ turn'[t].pulled = turn[t].pulled /\ turn'[t].hand = turn[t].hand
            /\ IF \E k \in Keys : t \in ToSet(active[k]) \/ (active[k] # <<>> /\ registered[k] = t)
               THEN turn'[t].inject = <<>> /\ turn'[t].deferred = <<>>
               ELSE turn'[t].inject = turn[t].inject /\ turn'[t].deferred = turn[t].deferred
      /\ UNCHANGED <<bus, journal>>
    BY BeginDrainIs
<1>2. Early /\ \A t \in Turns : ~AtWork(t)'
    BY <1>1 DEF Early, AtWork
<1>3. Sent' = Sent /\ InOrder'
    <2> DEFINE S == UNION {ToSet(turn[t].pulled) : t \in awaited' \ Over}
               A == {turn[t].opener : t \in awaited' \cap Over}
    <2>1. fate' = Settled(A, "again", Settled(S, "cut", fate))
        BY DEF BeginDrain
    <2>a. \A m \in A : m.id \in Sent
        <3>1. ASSUME NEW t \in awaited' \cap Over PROVE turn[t].opener.id \in Sent
            <4>1. AtWork(t)
                BY <1>2, <3>1 DEF AtWork, Over
            <4>2. QED
                BY <3>1, <4>1, TakenKnown DEF OnePlace, Taken, Over
        <3>2. QED
            BY <3>1
    <2>2. \A m \in S : m.id \in Sent
        <3>1. ASSUME NEW t \in awaited' \ Over, NEW m \in ToSet(turn[t].pulled) PROVE m.id \in Sent
            <4>1. awaited' = UNION {ToSet(active[k]) : k \in Keys}
                BY DEF BeginDrain
            <4>2. t \in Turns /\ turn[t].pc # "free"
                BY <4>1 DEF NoneOutlives, ListedOK, TypeOK, ToSet
            <4>3. AtWork(t)
                BY <1>2, <4>2 DEF AtWork
            <4>4. QED
                BY <4>2, <4>3, TakenKnown DEF OnePlace, Taken
        <3>2. QED
            BY <3>1
    <2> HIDE DEF S, A
    <2>3. \A i \in Ids : fate'[i] = IF \E m \in A : m.id = i THEN "again"
                                    ELSE IF \E m \in S : m.id = i THEN "cut" ELSE fate[i]
        BY <2>1 DEF Settled
    <2>4. \A i \in Ids : fate'[i] = fate[i] \/ (i \in Sent /\ fate'[i] # "unsent")
        BY <2>2, <2>3, <2>a
    <2>5. QED
        BY <2>4, SentKept DEF OnePlace
<1>4. /\ \A k \in Keys : Home[<<"bus", k>>] = <<"bus", k>> /\ Home[<<"journal", k>>] = <<"journal", k>>
      /\ \A t \in Turns : Home[<<"opener", t>>] = <<"owed", Key(t)>> /\ Home[<<"hand", t>>] = <<"hand", t>>
      /\ \A t \in Turns : \A kind \in {"inject", "deferred"} :
            Home[<<kind, t>>] = IF IsRegistered(t) /\ active[SessionOf(t)] # <<>>
                                THEN <<"owed", SessionOf(t)>> ELSE <<kind, t>>
    BY DEF Places, SessionKinds, TaskKinds
<1> HIDE DEF Home
<1>5. ASSUME NEW k \in Keys, active[k] # <<>>, registered[k] \in Turns
      PROVE  /\ Home[<<"inject", registered[k]>>] = <<"owed", k>>
             /\ Home[<<"deferred", registered[k]>>] = <<"owed", k>>
    <2>1. IsRegistered(registered[k]) /\ SessionOf(registered[k]) = k
        BY <1>5, SessionIs, NoneAssumption DEF IsRegistered, Routing
    <2>2. QED
        BY <1>4, <1>5, <2>1
<1>6. ASSUME NEW k \in Keys
      PROVE  LET p == <<"owed", k>> IN
             \/ In(p)' = <<>>
             \/ /\ NoTwins(In(p)')
                /\ \A i \in IdsAt(p)' : \E q \in Places : Home[q] = p /\ i \in IdsAt(q)
    <2> DEFINE p == <<"owed", k>>
    <2>1. In(p)' = TakenFrom(k)
        BY <1>1, InSession
    <2>2. CASE active[k] = <<>>
        BY <2>1, <2>2 DEF TakenFrom
    <2>3. CASE active[k] # <<>>
        <3> DEFINE o == Openers(k)
                   q == Pending(k)
        <3>1. TakenFrom(k) = o \o q
            BY <2>3 DEF TakenFrom, Pending
        <3>2. /\ o \in Seq(Message) /\ NoTwins(o)
              /\ \A i \in IdsOf(o) : \E t \in Turns : Key(t) = k /\ i \in IdsAt(<<"opener", t>>)
            BY <1>2, OpenersOnce DEF OnePlace
        <3>3. /\ q \in Seq(Message) /\ NoTwins(q)
              /\ \A i \in IdsOf(q) :
                    /\ registered[k] \in Turns
                    /\ i \in IdsAt(<<"inject", registered[k]>>) \cup IdsAt(<<"deferred", registered[k]>>)
            BY PendingOnce DEF OnePlace
        <3> HIDE DEF o, q
        <3>4. ASSUME NEW i \in IdsOf(o) PROVE \E x \in Places : Home[x] = p /\ x[1] = "opener" /\ i \in IdsAt(x)
            <4>1. PICK t \in Turns : Key(t) = k /\ i \in IdsAt(<<"opener", t>>)
                BY <3>2
            <4>2. <<"opener", t>> \in Places /\ Home[<<"opener", t>>] = p
                BY <1>4, <4>1, InTask DEF TaskKinds
            <4>3. QED
                BY <4>1, <4>2
        <3>5. ASSUME NEW i \in IdsOf(q) PROVE \E x \in Places : Home[x] = p /\ x[1] # "opener" /\ i \in IdsAt(x)
            <4>1. PICK r \in Turns : r = registered[k] /\ i \in IdsAt(<<"inject", r>>) \cup IdsAt(<<"deferred", r>>)
                BY <3>3
            <4>2. /\ <<"inject", r>> \in Places /\ Home[<<"inject", r>>] = p
                  /\ <<"deferred", r>> \in Places /\ Home[<<"deferred", r>>] = p
                BY <1>5, <2>3, <4>1, InTask DEF TaskKinds
            <4>3. CASE i \in IdsAt(<<"inject", r>>)
                BY <4>2, <4>3
            <4>4. CASE i \in IdsAt(<<"deferred", r>>)
                BY <4>2, <4>4
            <4>5. QED
                BY <4>1, <4>3, <4>4
        <3>6. Ours(o, q)
            <4>1. SUFFICES ASSUME NEW i \in IdsOf(o), i \in IdsOf(q) PROVE FALSE
                BY DEF Ours
            <4>2. PICK x \in Places : x[1] = "opener" /\ i \in IdsAt(x)
                BY <3>4
            <4>3. PICK y \in Places : y[1] # "opener" /\ i \in IdsAt(y)
                BY <3>5, <4>1
            <4>4. QED
                BY <4>2, <4>3 DEF OnePlace, Once
        <3>7. NoTwins(o \o q) /\ IdsOf(o \o q) = IdsOf(o) \cup IdsOf(q)
            BY <3>2, <3>3, <3>6, Joined
        <3> DEFINE r == TakenFrom(k)
        <3>8. NoTwins(r) /\ \A i \in IdsOf(r) : \E x \in Places : Home[x] = p /\ i \in IdsAt(x)
            BY <3>1, <3>4, <3>5, <3>7
        <3>9. r = In(p)'
            BY <2>1
        <3> HIDE DEF r, p
        <3>10. IdsOf(r) = IdsAt(p)'
            BY <3>9 DEF IdsAt
        <3>11. NoTwins(In(p)') /\ \A i \in IdsAt(p)' : \E x \in Places : Home[x] = p /\ i \in IdsAt(x)
            BY <3>8, <3>9, <3>10
        <3>12. QED
            BY <3>11 DEF p
    <2>4. QED
        BY <2>2, <2>3
<1>7. ASSUME NEW t \in Turns, NEW kind \in {"inject", "deferred"}
      PROVE  LET p == <<kind, t>> IN In(p)' = <<>> \/ (In(p)' = In(p) /\ Home[p] = p)
    <2>1. CASE \E k \in Keys : t \in ToSet(active[k]) \/ (active[k] # <<>> /\ registered[k] = t)
        BY <1>1, <1>7, <2>1, InTask
    <2>2. CASE ~\E k \in Keys : t \in ToSet(active[k]) \/ (active[k] # <<>> /\ registered[k] = t)
        <3>0. turn'[t].inject = turn[t].inject /\ turn'[t].deferred = turn[t].deferred
            BY <1>1, <2>2
        <3>1. In(<<kind, t>>)' = In(<<kind, t>>)
            BY <1>7, <3>0, InTask
        <3>2. ASSUME IsRegistered(t) PROVE active[SessionOf(t)] = <<>>
            <4>1. PICK k \in Keys : registered[k] = t
                BY <3>2 DEF IsRegistered
            <4>2. SessionOf(t) = k
                BY <4>1, SessionIs, NoneAssumption DEF Routing
            <4>3. QED
                BY <2>2, <4>1, <4>2
        <3>3. Home[<<kind, t>>] = <<kind, t>>
            BY <1>4, <3>2
        <3>4. QED
            BY <3>1, <3>3
    <2>3. QED
        BY <2>1, <2>2
<1>8. \A p \in Places :
         \/ In(p)' = <<>>
         \/ In(p)' = In(p) /\ Home[p] = p
         \/ /\ NoTwins(In(p)')
            /\ \A i \in IdsAt(p)' : \E q \in Places : Home[q] = p /\ i \in IdsAt(q)
    <2> SUFFICES ASSUME NEW p \in Places
                 PROVE  \/ In(p)' = <<>>
                        \/ In(p)' = In(p) /\ Home[p] = p
                        \/ /\ NoTwins(In(p)')
                           /\ \A i \in IdsAt(p)' : \E q \in Places : Home[q] = p /\ i \in IdsAt(q)
        OBVIOUS
    <2>1. ASSUME NEW k \in Keys, p = <<"bus", k>> \/ p = <<"journal", k>>
          PROVE  In(p)' = In(p) /\ Home[p] = p
        <3>1. bus'[k] = bus[k] /\ journal'[k] = journal[k]
            BY <1>1
        <3>2. QED
            BY <1>4, <2>1, <3>1, InSession
    <2>2. ASSUME NEW k \in Keys, p = <<"owed", k>>
          PROVE  \/ In(p)' = <<>>
                 \/ /\ NoTwins(In(p)')
                    /\ \A i \in IdsAt(p)' : \E q \in Places : Home[q] = p /\ i \in IdsAt(q)
        BY <1>6, <2>2
    <2>3. ASSUME NEW t \in Turns, p = <<"opener", t>> \/ p = <<"pulled", t>>
          PROVE  In(p)' = <<>>
        BY <1>2, <2>3, InTask
    <2>4. ASSUME NEW t \in Turns, p = <<"inject", t>> \/ p = <<"deferred", t>>
          PROVE  In(p)' = <<>> \/ (In(p)' = In(p) /\ Home[p] = p)
        BY <1>7, <2>4
    <2>5. ASSUME NEW t \in Turns, p = <<"hand", t>>
          PROVE  In(p)' = In(p) /\ Home[p] = p
        <3>1. turn'[t].hand = turn[t].hand
            BY <1>1
        <3>2. QED
            BY <1>4, <2>5, <3>1, InTask
    <2>6. QED
        BY <2>1, <2>2, <2>3, <2>4, <2>5, PlaceIs
<1>9. Once' /\ Known'
    BY <1>3, <1>8, Rearranged DEF OnePlace
<1>10. QED
    BY <1>3, <1>9 DEF OnePlace

LEMMA EndDrainOnce ==
    ASSUME TypeOK, Routing, OnePlace, EndDrain
    PROVE  OnePlace'
<1> DEFINE Home == [q \in Places |->
              IF q[1] \in {"owed", "bus"} THEN <<"journal", q[2]>>
              ELSE IF q[1] \in {"inject", "deferred"} /\ IsRegistered(q[2])
                   THEN <<"journal", SessionOf(q[2])>>
                   ELSE q]
<1>1. /\ gateway' = "drained" /\ owed' = Nothing /\ bus' = Nothing
      /\ journal' = [k \in Keys |-> journal[k] \o owed[k] \o bus[k] \o
                       (IF registered[k] = None THEN <<>> ELSE Queued(registered[k]))]
      /\ \A t \in Turns :
            /\ turn'[t].hand = turn[t].hand
            /\ IF IsRegistered(t)
               THEN turn'[t].inject = <<>> /\ turn'[t].deferred = <<>>
               ELSE turn'[t].inject = turn[t].inject /\ turn'[t].deferred = turn[t].deferred
      /\ fate' = fate
    BY EndDrainIs
<1>2. \A t \in Turns : ~AtWork(t)'
    BY <1>1 DEF Early, AtWork
<1>3. Sent' = Sent /\ InOrder'
    BY <1>1, SentKept DEF OnePlace
<1>4. /\ \A k \in Keys : /\ Home[<<"bus", k>>] = <<"journal", k>> /\ Home[<<"owed", k>>] = <<"journal", k>>
                         /\ Home[<<"journal", k>>] = <<"journal", k>>
      /\ \A t \in Turns : Home[<<"hand", t>>] = <<"hand", t>>
      /\ \A t \in Turns : \A kind \in {"inject", "deferred"} :
            Home[<<kind, t>>] = IF IsRegistered(t) THEN <<"journal", SessionOf(t)>> ELSE <<kind, t>>
    BY DEF Places, SessionKinds, TaskKinds
<1> HIDE DEF Home
<1>5. ASSUME NEW k \in Keys, registered[k] \in Turns
      PROVE  /\ Home[<<"inject", registered[k]>>] = <<"journal", k>>
             /\ Home[<<"deferred", registered[k]>>] = <<"journal", k>>
    <2>1. IsRegistered(registered[k]) /\ SessionOf(registered[k]) = k
        BY <1>5, SessionIs, NoneAssumption DEF IsRegistered, Routing
    <2>2. QED
        BY <1>4, <1>5, <2>1
<1>6. ASSUME NEW k \in Keys
      PROVE  LET p == <<"journal", k>> IN
             /\ NoTwins(In(p)')
             /\ \A i \in IdsAt(p)' : \E q \in Places : Home[q] = p /\ i \in IdsAt(q)
    <2> DEFINE p == <<"journal", k>>
               o == <<"owed", k>>
               b == <<"bus", k>>
               q == Pending(k)
               r == ((In(p) \o In(o)) \o In(b)) \o q
    <2>1. /\ p \in Places /\ o \in Places /\ b \in Places /\ p # o /\ p # b /\ o # b
          /\ Home[p] = p /\ Home[o] = p /\ Home[b] = p
          /\ In(p) = journal[k] /\ In(o) = owed[k] /\ In(b) = bus[k] /\ In(p)' = journal'[k]
        BY <1>4, InSession
    <2>2. In(p)' = r
        BY <1>1, <2>1 DEF Pending
    <2>3. /\ q \in Seq(Message) /\ NoTwins(q)
          /\ \A i \in IdsOf(q) :
                /\ registered[k] \in Turns
                /\ i \in IdsAt(<<"inject", registered[k]>>) \cup IdsAt(<<"deferred", registered[k]>>)
        BY PendingOnce DEF OnePlace
    <2>k. p[1] = "journal" /\ o[1] = "owed" /\ b[1] = "bus"
        OBVIOUS
    <2> HIDE DEF p, o, b, q
    <2>4. /\ In(p) \in Seq(Message) /\ In(o) \in Seq(Message) /\ In(b) \in Seq(Message)
          /\ NoTwins(In(p)) /\ NoTwins(In(o)) /\ NoTwins(In(b))
          /\ Ours(In(p), In(o)) /\ Ours(In(p), In(b)) /\ Ours(In(o), In(b))
        BY <2>1, InMessages DEF OnePlace, Once, Ours, IdsAt
    <2>5. ASSUME NEW i \in IdsOf(q)
          PROVE  \E x \in Places : Home[x] = p /\ x[1] \in {"inject", "deferred"} /\ i \in IdsAt(x)
        <3>1. PICK s \in Turns : s = registered[k] /\ i \in IdsAt(<<"inject", s>>) \cup IdsAt(<<"deferred", s>>)
            BY <2>3
        <3>2. /\ <<"inject", s>> \in Places /\ Home[<<"inject", s>>] = p
              /\ <<"deferred", s>> \in Places /\ Home[<<"deferred", s>>] = p
            BY <1>5, <3>1, InTask DEF TaskKinds, p
        <3>3. CASE i \in IdsAt(<<"inject", s>>)
            BY <3>2, <3>3
        <3>4. CASE i \in IdsAt(<<"deferred", s>>)
            BY <3>2, <3>4
        <3>5. QED
            BY <3>1, <3>3, <3>4
    <2>6. Ours(In(p), q) /\ Ours(In(o), q) /\ Ours(In(b), q)
        <3>1. SUFFICES ASSUME NEW i \in IdsOf(q), i \in IdsAt(p) \cup IdsAt(o) \cup IdsAt(b) PROVE FALSE
            BY DEF Ours, IdsAt
        <3>2. PICK x \in Places : x[1] \in {"inject", "deferred"} /\ i \in IdsAt(x)
            BY <2>5
        <3>3. x # p /\ x # o /\ x # b
            BY <2>k, <3>2
        <3>4. QED
            BY <2>1, <3>1, <3>2, <3>3 DEF OnePlace, Once
    <2>7. /\ In(p) \o In(o) \in Seq(Message) /\ NoTwins(In(p) \o In(o))
          /\ IdsOf(In(p) \o In(o)) = IdsOf(In(p)) \cup IdsOf(In(o))
        BY <2>4, Joined
    <2> DEFINE s == In(p) \o In(o)
    <2> HIDE DEF s
    <2>8. s \in Seq(Message) /\ NoTwins(s) /\ IdsOf(s) = IdsOf(In(p)) \cup IdsOf(In(o))
        BY <2>7 DEF s
    <2>9. Ours(s, In(b)) /\ Ours(s, q)
        BY <2>4, <2>6, <2>8 DEF Ours
    <2> DEFINE u == s \o In(b)
    <2>10. u \in Seq(Message) /\ NoTwins(u) /\ IdsOf(u) = IdsOf(s) \cup IdsOf(In(b))
        BY <2>4, <2>8, <2>9, Joined
    <2> HIDE DEF u
    <2>11. Ours(u, q)
        BY <2>6, <2>9, <2>10 DEF Ours
    <2>12. NoTwins(u \o q) /\ IdsOf(u \o q) = IdsOf(u) \cup IdsOf(q)
        BY <2>3, <2>10, <2>11, Joined
    <2>13. r = u \o q
        BY DEF u, s
    <2>14. NoTwins(r) /\ IdsOf(r) = IdsAt(p) \cup IdsAt(o) \cup IdsAt(b) \cup IdsOf(q)
        BY <2>8, <2>10, <2>12, <2>13 DEF IdsAt
    <2> HIDE DEF r
    <2>15. NoTwins(In(p)') /\ IdsAt(p)' = IdsAt(p) \cup IdsAt(o) \cup IdsAt(b) \cup IdsOf(q)
        BY <2>2, <2>14 DEF IdsAt
    <2>16. ASSUME NEW i \in IdsAt(p)' PROVE \E x \in Places : Home[x] = p /\ i \in IdsAt(x)
        <3>1. CASE i \in IdsOf(q)
            BY <2>5, <3>1
        <3>2. CASE i \in IdsAt(p)
            BY <2>1, <3>2
        <3>3. CASE i \in IdsAt(o)
            BY <2>1, <3>3
        <3>4. CASE i \in IdsAt(b)
            BY <2>1, <3>4
        <3>5. QED
            BY <2>15, <2>16, <3>1, <3>2, <3>3, <3>4
    <2>17. NoTwins(In(p)') /\ \A i \in IdsAt(p)' : \E x \in Places : Home[x] = p /\ i \in IdsAt(x)
        BY <2>15, <2>16
    <2>18. QED
        BY <2>17 DEF p
<1>7. ASSUME NEW t \in Turns, NEW kind \in {"inject", "deferred"}
      PROVE  LET p == <<kind, t>> IN In(p)' = <<>> \/ (In(p)' = In(p) /\ Home[p] = p)
    <2>1. CASE IsRegistered(t)
        <3>1. turn'[t].inject = <<>> /\ turn'[t].deferred = <<>>
            BY <1>1, <2>1
        <3>2. QED
            BY <1>7, <3>1, InTask
    <2>2. CASE ~IsRegistered(t)
        <3>1. turn'[t].inject = turn[t].inject /\ turn'[t].deferred = turn[t].deferred
            BY <1>1, <2>2
        <3>2. In(<<kind, t>>)' = In(<<kind, t>>)
            BY <1>7, <3>1, InTask
        <3>3. QED
            BY <1>4, <1>7, <2>2, <3>2
    <2>3. QED
        BY <2>1, <2>2
<1>8. \A p \in Places :
         \/ In(p)' = <<>>
         \/ In(p)' = In(p) /\ Home[p] = p
         \/ /\ NoTwins(In(p)')
            /\ \A i \in IdsAt(p)' : \E q \in Places : Home[q] = p /\ i \in IdsAt(q)
    <2> SUFFICES ASSUME NEW p \in Places
                 PROVE  \/ In(p)' = <<>>
                        \/ In(p)' = In(p) /\ Home[p] = p
                        \/ /\ NoTwins(In(p)')
                           /\ \A i \in IdsAt(p)' : \E q \in Places : Home[q] = p /\ i \in IdsAt(q)
        OBVIOUS
    <2>1. ASSUME NEW k \in Keys, p = <<"bus", k>> \/ p = <<"owed", k>>
          PROVE  In(p)' = <<>>
        <3>1. bus'[k] = <<>> /\ owed'[k] = <<>>
            BY <1>1 DEF Nothing
        <3>2. QED
            BY <2>1, <3>1, InSession
    <2>2. ASSUME NEW k \in Keys, p = <<"journal", k>>
          PROVE  /\ NoTwins(In(p)')
                 /\ \A i \in IdsAt(p)' : \E q \in Places : Home[q] = p /\ i \in IdsAt(q)
        BY <1>6, <2>2
    <2>3. ASSUME NEW t \in Turns, p = <<"opener", t>> \/ p = <<"pulled", t>>
          PROVE  In(p)' = <<>>
        BY <1>2, <2>3, InTask
    <2>4. ASSUME NEW t \in Turns, p = <<"inject", t>> \/ p = <<"deferred", t>>
          PROVE  In(p)' = <<>> \/ (In(p)' = In(p) /\ Home[p] = p)
        BY <1>7, <2>4
    <2>5. ASSUME NEW t \in Turns, p = <<"hand", t>>
          PROVE  In(p)' = In(p) /\ Home[p] = p
        <3>1. turn'[t].hand = turn[t].hand
            BY <1>1
        <3>2. QED
            BY <1>4, <2>5, <3>1, InTask
    <2>6. QED
        BY <2>1, <2>2, <2>3, <2>4, <2>5, PlaceIs
<1>9. Once' /\ Known'
    BY <1>3, <1>8, Rearranged DEF OnePlace
<1>10. QED
    BY <1>3, <1>9 DEF OnePlace

LEMMA RestartOnce ==
    ASSUME TypeOK, OnePlace, Restart
    PROVE  OnePlace'
<1>1. /\ bus' = Nothing /\ UNCHANGED <<owed, journal>>
      /\ \A t \in Turns : turn'[t] = Idle
    BY DEF Restart
<1>2. \A t \in Turns : turn'[t].inject = <<>> /\ turn'[t].deferred = <<>> /\ turn'[t].hand = <<>> /\ ~AtWork(t)'
    BY <1>1 DEF Idle, AtWork
<1>3. \A p \in Places : In(p)' = In(p) \/ In(p)' = <<>>
    <2>1. \A k \in Keys : bus'[k] = <<>> /\ owed'[k] = owed[k] /\ journal'[k] = journal[k]
        BY <1>1 DEF Nothing
    <2>2. QED
        BY <1>2, <2>1, Frame
<1>4. Sent' = Sent /\ InOrder'
    <2> DEFINE B == UNION {ToSet(bus[k]) : k \in Keys}
               H == UNION {ToSet(turn[t].hand) : t \in Turns}
    <2>1. fate' = Settled(B, "missed", Settled(H, "dropped", fate))
        BY DEF Restart
    <2>2. (\A m \in B : m.id \in Sent) /\ \A m \in H : m.id \in Sent
        BY HeldKnown DEF OnePlace
    <2> HIDE DEF B, H
    <2>3. \A i \in Ids : fate'[i] = IF \E m \in B : m.id = i THEN "missed"
                                    ELSE IF \E m \in H : m.id = i THEN "dropped" ELSE fate[i]
        BY <2>1 DEF Settled
    <2>4. \A i \in Ids : fate'[i] = fate[i] \/ (i \in Sent /\ fate'[i] # "unsent")
        BY <2>2, <2>3
    <2>5. QED
        BY <2>4, SentKept DEF OnePlace
<1>5. QED
    BY <1>3, <1>4, NothingMoves DEF OnePlace

LEMMA ReplayOnce ==
    ASSUME TypeOK, OnePlace, Replay
    PROVE  OnePlace'
<1> DEFINE Home == [q \in Places |-> IF q[1] = "journal" THEN <<"bus", q[2]>> ELSE q]
<1>1. /\ gateway = "starting" /\ gateway' = "serving"
      /\ bus' = [k \in Keys |-> bus[k] \o journal[k]] /\ journal' = Nothing
      /\ UNCHANGED <<owed, turn, fate>>
    BY DEF Replay
<1>2. Sent' = Sent /\ InOrder'
    BY <1>1, SentKept DEF OnePlace
<1>3. /\ \A k \in Keys : /\ Home[<<"journal", k>>] = <<"bus", k>> /\ Home[<<"bus", k>>] = <<"bus", k>>
                         /\ Home[<<"owed", k>>] = <<"owed", k>>
      /\ \A t \in Turns : \A kind \in TaskKinds : Home[<<kind, t>>] = <<kind, t>>
    BY DEF Places, SessionKinds, TaskKinds
<1> HIDE DEF Home
<1>4. ASSUME NEW k \in Keys
      PROVE  LET p == <<"bus", k>> IN
             /\ NoTwins(In(p)')
             /\ \A i \in IdsAt(p)' : \E q \in Places : Home[q] = p /\ i \in IdsAt(q)
    <2> DEFINE p == <<"bus", k>>
               j == <<"journal", k>>
    <2>1. /\ p \in Places /\ j \in Places /\ p # j /\ Home[p] = p /\ Home[j] = p
          /\ In(p)' = In(p) \o In(j)
        <3>1. bus'[k] = bus[k] \o journal[k]
            BY <1>1
        <3>2. QED
            BY <1>3, <3>1, InSession
    <2> HIDE DEF p, j
    <2>2. /\ In(p) \in Seq(Message) /\ In(j) \in Seq(Message)
          /\ NoTwins(In(p)) /\ NoTwins(In(j)) /\ Ours(In(p), In(j))
        BY <2>1, InMessages DEF OnePlace, Once, Ours, IdsAt
    <2>3. NoTwins(In(p) \o In(j)) /\ IdsOf(In(p) \o In(j)) = IdsAt(p) \cup IdsAt(j)
        BY <2>2, Joined DEF IdsAt
    <2>4. NoTwins(In(p)') /\ IdsAt(p)' = IdsAt(p) \cup IdsAt(j)
        BY <2>1, <2>3 DEF IdsAt
    <2>5. NoTwins(In(p)') /\ \A i \in IdsAt(p)' : \E q \in Places : Home[q] = p /\ i \in IdsAt(q)
        BY <2>1, <2>4
    <2>6. QED
        BY <2>5 DEF p
<1>5. ASSUME NEW p \in Places
      PROVE  \/ In(p)' = <<>>
             \/ In(p)' = In(p) /\ Home[p] = p
             \/ /\ NoTwins(In(p)')
                /\ \A i \in IdsAt(p)' : \E q \in Places : Home[q] = p /\ i \in IdsAt(q)
    <2>1. ASSUME NEW k \in Keys, p = <<"bus", k>>
          PROVE  /\ NoTwins(In(p)')
                 /\ \A i \in IdsAt(p)' : \E q \in Places : Home[q] = p /\ i \in IdsAt(q)
        BY <1>4, <2>1
    <2>2. ASSUME NEW k \in Keys, p = <<"owed", k>> PROVE In(p)' = In(p) /\ Home[p] = p
        <3>1. owed'[k] = owed[k]
            BY <1>1
        <3>2. QED
            BY <1>3, <2>2, <3>1, InSession
    <2>3. ASSUME NEW k \in Keys, p = <<"journal", k>> PROVE In(p)' = <<>>
        <3>1. journal'[k] = <<>>
            BY <1>1 DEF Nothing
        <3>2. QED
            BY <2>3, <3>1, InSession
    <2>4. ASSUME NEW t \in Turns,
                 \/ p = <<"inject", t>> \/ p = <<"deferred", t>> \/ p = <<"hand", t>>
                 \/ p = <<"pulled", t>> \/ p = <<"opener", t>>
          PROVE  In(p)' = In(p) /\ Home[p] = p
        <3>1. Home[p] = p
            BY <1>3, <2>4 DEF TaskKinds
        <3>2. turn' = turn /\ (AtWork(t)' <=> AtWork(t))
            BY <1>1 DEF AtWork, Early
        <3>3. In(p)' = In(p)
            BY <2>4, <3>2, InTask
        <3>4. QED
            BY <3>1, <3>3
    <2>5. QED
        BY <2>1, <2>2, <2>3, <2>4, PlaceIs
<1>6. Once' /\ Known'
    BY <1>2, <1>5, Rearranged DEF OnePlace
<1>7. QED
    BY <1>2, <1>6 DEF OnePlace

LEMMA OnePlaceStep ==
    ASSUME TypeOK, NoneOutlives, Routing, OnePlace, [Next]_vars
    PROVE  OnePlace'
<1>1. CASE StopDone \/ StopIntake \/ UNCHANGED vars
    <2>1. UNCHANGED <<bus, owed, journal, turn, fate>> /\ (Early' => Early)
        BY <1>1 DEF StopDone, StopIntake, vars, Early
    <2>2. \A p \in Places : In(p)' = In(p) \/ In(p)' = <<>>
        <3>1. \A t \in Turns : AtWork(t)' => AtWork(t)
            BY <2>1 DEF AtWork
        <3>2. QED
            BY <2>1, <3>1, Frame
    <2>3. Sent' = Sent /\ InOrder'
        BY <2>1, SentKept DEF OnePlace
    <2>4. QED
        BY <2>2, <2>3, NothingMoves DEF OnePlace
<1>2. ASSUME NEW t \in Turns, TurnStep(t) PROVE OnePlace'
    BY <1>2, AdvanceOnce, PullOnce, EndOnce, HandBackOnce, DropOnce DEF TurnStep
<1>3. ASSUME NEW k \in Keys, Consume(k) PROVE OnePlace'
    BY <1>3, StopOnce, CommandOnce, FollowUpOnce, OpenerOnce DEF Consume
<1>4. QED
    BY <1>1, <1>2, <1>3, PublishOnce, BeginDrainOnce, EndDrainOnce, RestartOnce, ReplayOnce DEF Next

LEMMA OnePlaceInvariant == Spec => []OnePlace
<1>1. Init => OnePlace
    <2> SUFFICES ASSUME Init PROVE OnePlace
        OBVIOUS
    <2>1. /\ \A k \in Keys : bus[k] = <<>> /\ owed[k] = <<>> /\ journal[k] = <<>>
          /\ \A t \in Turns : /\ turn[t].inject = <<>> /\ turn[t].deferred = <<>> /\ turn[t].hand = <<>>
                              /\ ~AtWork(t)
        BY DEF Init, Nothing, Idle, AtWork
    <2>2. ASSUME NEW p \in Places PROVE In(p) = <<>>
        <3>1. ASSUME NEW k \in Keys, p = <<"bus", k>> \/ p = <<"owed", k>> \/ p = <<"journal", k>>
              PROVE  In(p) = <<>>
            BY <2>1, <3>1, InSession
        <3>2. ASSUME NEW t \in Turns,
                     \/ p = <<"inject", t>> \/ p = <<"deferred", t>> \/ p = <<"hand", t>>
                     \/ p = <<"pulled", t>> \/ p = <<"opener", t>>
              PROVE  In(p) = <<>>
            BY <2>1, <3>2, InTask
        <3>3. QED
            BY <3>1, <3>2, PlaceIs
    <2>3. Sent = {}
        BY DEF Init, Sent
    <2>4. InOrder
        <3>1. Cardinality(Sent) = 0
            BY <2>3, FS_EmptySet
        <3>2. QED
            BY <2>3, <3>1 DEF InOrder, Ids
    <2>5. Once /\ Known
        <3>1. \A p \in Places : NoTwins(In(p)) /\ IdsAt(p) = {}
            BY <2>2, NoMessages DEF IdsAt
        <3>2. QED
            BY <3>1 DEF Once, Known
    <2>6. QED
        BY <2>4, <2>5 DEF OnePlace
<1>2. TypeOK /\ NoneOutlives /\ Routing /\ OnePlace /\ [Next]_vars => OnePlace'
    BY OnePlaceStep
<1>3. QED
    BY <1>1, <1>2, RoutingInvariant, PTL DEF Spec

---------------------------------------------------------------------------
(* No message is answered twice                                            *)

\* i is in a queue, on disk or on its way, where a turn could take it from.
Queues(i) ==
    \/ \E k \in Keys : i \in IdsOf(bus[k]) \cup IdsOf(owed[k]) \cup IdsOf(journal[k])
    \/ \E t \in Turns : i \in IdsOf(turn[t].inject) \cup IdsOf(turn[t].deferred) \cup IdsOf(turn[t].hand)
\* The task t has taken i, and no outcome has been given to what it took.
AnswerDue(t, i) ==
    /\ ~turn[t].doomed /\ turn[t].pc \in {"created", "waiting", "running"}
    /\ turn[t].opener.id = i \/ i \in IdsOf(turn[t].pulled)

\* Until the first shutdown drains the queues, what they hold is owed an answer.
Fresh == restarts = 0 /\ Early
Due   == Fresh => \A i \in Ids : Queues(i) \/ (\E t \in Turns : AnswerDue(t, i)) => fate[i] = "owed"

LEMMA QueuesAt ==
    ASSUME NEW i, Queues(i)
    PROVE  \E p \in Places : p[1] \notin {"opener", "pulled"} /\ i \in IdsAt(p)
<1>1. ASSUME NEW k \in Keys, i \in IdsOf(bus[k]) \cup IdsOf(owed[k]) \cup IdsOf(journal[k])
      PROVE  \E p \in Places : p[1] \notin {"opener", "pulled"} /\ i \in IdsAt(p)
    <2>1. /\ <<"bus", k>> \in Places /\ IdsAt(<<"bus", k>>) = IdsOf(bus[k])
          /\ <<"owed", k>> \in Places /\ IdsAt(<<"owed", k>>) = IdsOf(owed[k])
          /\ <<"journal", k>> \in Places /\ IdsAt(<<"journal", k>>) = IdsOf(journal[k])
        BY InSession DEF IdsAt
    <2>2. CASE i \in IdsOf(bus[k])
        BY <2>1, <2>2
    <2>3. CASE i \in IdsOf(owed[k])
        BY <2>1, <2>3
    <2>4. CASE i \in IdsOf(journal[k])
        BY <2>1, <2>4
    <2>5. QED
        BY <1>1, <2>2, <2>3, <2>4
<1>2. ASSUME NEW t \in Turns,
             i \in IdsOf(turn[t].inject) \cup IdsOf(turn[t].deferred) \cup IdsOf(turn[t].hand)
      PROVE  \E p \in Places : p[1] \notin {"opener", "pulled"} /\ i \in IdsAt(p)
    <2>1. /\ <<"inject", t>> \in Places /\ IdsAt(<<"inject", t>>) = IdsOf(turn[t].inject)
          /\ <<"deferred", t>> \in Places /\ IdsAt(<<"deferred", t>>) = IdsOf(turn[t].deferred)
          /\ <<"hand", t>> \in Places /\ IdsAt(<<"hand", t>>) = IdsOf(turn[t].hand)
        BY InTask DEF IdsAt, TaskKinds
    <2>2. CASE i \in IdsOf(turn[t].inject)
        BY <2>1, <2>2
    <2>3. CASE i \in IdsOf(turn[t].deferred)
        BY <2>1, <2>3
    <2>4. CASE i \in IdsOf(turn[t].hand)
        BY <2>1, <2>4
    <2>5. QED
        BY <1>2, <2>2, <2>3, <2>4
<1>3. QED
    BY <1>1, <1>2 DEF Queues

LEMMA TakenAt ==
    ASSUME TypeOK, NEW t \in Turns, AtWork(t), NEW i,
           turn[t].opener.id = i \/ i \in IdsOf(turn[t].pulled)
    PROVE  \E p \in Places : p[1] \in {"opener", "pulled"} /\ p[2] = t /\ i \in IdsAt(p)
<1>1. CASE turn[t].opener.id = i
    <2>1. <<"opener", t>> \in Places /\ In(<<"opener", t>>) = <<turn[t].opener>>
        BY InTask DEF TaskKinds
    <2>2. turn[t].opener \in Message
        BY MessagesOf DEF AtWork
    <2>3. i \in IdsAt(<<"opener", t>>)
        BY <1>1, <2>1, <2>2, OneMessage DEF IdsAt
    <2>4. QED
        BY <2>1, <2>3
<1>2. CASE i \in IdsOf(turn[t].pulled)
    <2>1. <<"pulled", t>> \in Places /\ i \in IdsAt(<<"pulled", t>>)
        BY <1>2, InTask DEF TaskKinds, IdsAt
    <2>2. QED
        BY <2>1
<1>3. QED
    BY <1>1, <1>2

\* What a task has taken is in no queue and with no other task.
LEMMA TakenApart ==
    ASSUME TypeOK, Once, Early, NEW t \in Turns, turn[t].pc # "free", NEW m \in Taken(t)
    PROVE  /\ ~Queues(m.id)
           /\ \A u \in Turns \ {t} : ~AnswerDue(u, m.id)
<1> DEFINE i == m.id
<1>1. turn[t].opener.id = i \/ i \in IdsOf(turn[t].pulled)
    BY MessagesOf, IdsOfSet DEF Taken
<1> HIDE DEF i
<1>2. PICK p \in Places : p[1] \in {"opener", "pulled"} /\ p[2] = t /\ i \in IdsAt(p)
    BY <1>1, TakenAt DEF AtWork
<1>3. ~Queues(i)
    <2>1. SUFFICES ASSUME Queues(i) PROVE FALSE
        OBVIOUS
    <2>2. PICK q \in Places : q[1] \notin {"opener", "pulled"} /\ i \in IdsAt(q)
        BY <2>1, QueuesAt
    <2>3. QED
        BY <1>2, <2>2 DEF Once
<1>4. ASSUME NEW u \in Turns \ {t}, AnswerDue(u, i) PROVE FALSE
    <2>1. AtWork(u) /\ (turn[u].opener.id = i \/ i \in IdsOf(turn[u].pulled))
        BY <1>4 DEF AnswerDue, AtWork
    <2>2. PICK q \in Places : q[2] = u /\ i \in IdsAt(q)
        BY <2>1, TakenAt
    <2>3. p # q
        BY <1>2, <2>2
    <2>4. QED
        BY <1>2, <2>2, <2>3 DEF Once
<1>5. QED
    BY <1>3, <1>4 DEF i

\* The message at the head of the bus is nowhere else.
LEMMA HeadApart ==
    ASSUME TypeOK, Once, Early, NEW k \in Keys, bus[k] # <<>>
    PROVE  LET i == Head(bus[k]).id IN
           /\ i \notin IdsOf(Tail(bus[k])) /\ i \notin IdsOf(owed[k]) \cup IdsOf(journal[k])
           /\ \A j \in Keys \ {k} : i \notin IdsOf(bus[j]) \cup IdsOf(owed[j]) \cup IdsOf(journal[j])
           /\ \A t \in Turns : i \notin IdsOf(turn[t].inject) \cup IdsOf(turn[t].deferred) \cup IdsOf(turn[t].hand)
           /\ \A t \in Turns : ~AnswerDue(t, i)
<1> DEFINE i == Head(bus[k]).id
           b == <<"bus", k>>
<1>1. b \in Places /\ IdsAt(b) = IdsOf(bus[k]) /\ bus[k] \in Seq(Message) /\ NoTwins(bus[k])
    BY InSession DEF Once, IdsAt, TypeOK, Messages
<1>2. i \in IdsAt(b) /\ i \notin IdsOf(Tail(bus[k]))
    BY <1>1, HeadTail
<1>k. b[1] = "bus" /\ \A p : p[1] # "bus" => p # b
    OBVIOUS
<1> HIDE DEF i
<1>3. \A p \in Places : p # b => i \notin IdsAt(p)
    BY <1>1, <1>2 DEF Once
<1>4. i \notin IdsOf(owed[k]) \cup IdsOf(journal[k])
    BY <1>3, InSession DEF IdsAt
<1>5. \A j \in Keys \ {k} : i \notin IdsOf(bus[j]) \cup IdsOf(owed[j]) \cup IdsOf(journal[j])
    BY <1>3, InSession DEF IdsAt
<1>6. \A t \in Turns : i \notin IdsOf(turn[t].inject) \cup IdsOf(turn[t].deferred) \cup IdsOf(turn[t].hand)
    BY <1>3, InTask DEF IdsAt, TaskKinds
<1>7. ASSUME NEW t \in Turns, AnswerDue(t, i) PROVE FALSE
    <2>1. AtWork(t) /\ (turn[t].opener.id = i \/ i \in IdsOf(turn[t].pulled))
        BY <1>7 DEF AnswerDue, AtWork
    <2>2. PICK p \in Places : p[1] \in {"opener", "pulled"} /\ i \in IdsAt(p)
        BY <2>1, TakenAt
    <2>3. QED
        BY <1>3, <1>k, <2>2
<1>8. QED
    BY <1>2, <1>4, <1>5, <1>6, <1>7 DEF i

\* A message a task is handing back is nowhere else.
LEMMA HandApart ==
    ASSUME TypeOK, Once, Early, NEW t \in Turns, NEW i \in IdsOf(turn[t].hand)
    PROVE  /\ \A j \in Keys : i \notin IdsOf(bus[j]) \cup IdsOf(owed[j]) \cup IdsOf(journal[j])
           /\ \A u \in Turns : i \notin IdsOf(turn[u].inject) \cup IdsOf(turn[u].deferred)
           /\ \A u \in Turns \ {t} : i \notin IdsOf(turn[u].hand)
           /\ \A u \in Turns : ~AnswerDue(u, i)
<1> DEFINE b == <<"hand", t>>
<1>1. b \in Places /\ IdsAt(b) = IdsOf(turn[t].hand)
    BY InTask DEF IdsAt, TaskKinds
<1>k. /\ \A j : <<"bus", j>> # b /\ <<"owed", j>> # b /\ <<"journal", j>> # b
      /\ \A u : <<"inject", u>> # b /\ <<"deferred", u>> # b
      /\ \A u : u # t => <<"hand", u>> # b
      /\ \A p : p[1] # "hand" => p # b
    OBVIOUS
<1> HIDE DEF b
<1>2. \A p \in Places : p # b => i \notin IdsAt(p)
    BY <1>1 DEF Once
<1>3. \A j \in Keys : i \notin IdsOf(bus[j]) \cup IdsOf(owed[j]) \cup IdsOf(journal[j])
    <2> TAKE j \in Keys
    <2>1. i \notin IdsAt(<<"bus", j>>) /\ i \notin IdsAt(<<"owed", j>>) /\ i \notin IdsAt(<<"journal", j>>)
        BY <1>2, <1>k, InSession
    <2>2. QED
        BY <2>1, InSession DEF IdsAt
<1>4. \A u \in Turns : i \notin IdsOf(turn[u].inject) \cup IdsOf(turn[u].deferred)
    <2> TAKE u \in Turns
    <2>1. <<"inject", u>> \in Places /\ <<"deferred", u>> \in Places
        BY InTask DEF TaskKinds
    <2>2. i \notin IdsAt(<<"inject", u>>) /\ i \notin IdsAt(<<"deferred", u>>)
        BY <1>2, <1>k, <2>1
    <2>3. QED
        BY <2>2, InTask DEF IdsAt
<1>5. \A u \in Turns \ {t} : i \notin IdsOf(turn[u].hand)
    <2> TAKE u \in Turns \ {t}
    <2>1. <<"hand", u>> \in Places
        BY InTask DEF TaskKinds
    <2>2. i \notin IdsAt(<<"hand", u>>)
        BY <1>2, <1>k, <2>1
    <2>3. QED
        BY <2>2, InTask DEF IdsAt
<1>6. ASSUME NEW u \in Turns, AnswerDue(u, i) PROVE FALSE
    <2>1. AtWork(u) /\ (turn[u].opener.id = i \/ i \in IdsOf(turn[u].pulled))
        BY <1>6 DEF AnswerDue, AtWork
    <2>2. PICK p \in Places : p[1] \in {"opener", "pulled"} /\ i \in IdsAt(p)
        BY <2>1, TakenAt
    <2>3. QED
        BY <1>2, <1>k, <2>2
<1>7. QED
    BY <1>3, <1>4, <1>5, <1>6

DueSomewhere(i) == Queues(i) \/ \E t \in Turns : AnswerDue(t, i)

LEMMA DueKept ==
    ASSUME Due, Fresh,
           \A i \in Ids : DueSomewhere(i)' => DueSomewhere(i) /\ fate'[i] = fate[i]
    PROVE  Due'
BY DEF Due, DueSomewhere

LEMMA DuePublish ==
    ASSUME TypeOK, Fresh, Due, NEW k \in Keys, NEW kind \in Kinds, Publish(k, kind)
    PROVE  Due'
<1> DEFINE n == Cardinality(Sent) + 1
           m == [id |-> n, key |-> k, kind |-> kind]
           s == bus[k]
<1>1. n \in Ids
    BY SentCounted, SizesAssumption DEF Publish, Ids
<1>2. m \in Message /\ m.id = n /\ s \in Seq(Message)
    BY <1>1, KindsAssumption DEF Message, TypeOK, Messages
<1>3. /\ bus' = [bus EXCEPT ![k] = Append(s, m)] /\ fate' = [fate EXCEPT ![n] = "owed"]
      /\ UNCHANGED <<turn, owed, journal>>
    BY DEF Publish
<1> HIDE DEF n, m
<1>4. bus'[k] = Append(s, m) /\ \A j \in Keys : j # k => bus'[j] = bus[j]
    BY <1>3 DEF TypeOK, Messages
<1> HIDE DEF s
<1>5. IdsOf(Append(s, m)) = IdsOf(s) \cup {n}
    BY <1>2, Appended
<1>6. ASSUME NEW i \in Ids, DueSomewhere(i)' PROVE i = n \/ DueSomewhere(i)
    <2>1. \A t \in Turns : AnswerDue(t, i)' => AnswerDue(t, i)
        BY <1>3 DEF AnswerDue
    <2>2. Queues(i)' => i = n \/ Queues(i)
        BY <1>3, <1>4, <1>5 DEF Queues, s
    <2>3. QED
        BY <1>6, <2>1, <2>2 DEF DueSomewhere
<1>7. fate'[n] = "owed" /\ \A i \in Ids : i # n => fate'[i] = fate[i]
    BY <1>1, <1>3 DEF TypeOK
<1>8. QED
    BY <1>6, <1>7 DEF Due, DueSomewhere

LEMMA DueStop ==
    ASSUME TypeOK, NoneOutlives, Once, Fresh, Due, NEW k \in Keys, ConsumeStop(k)
    PROVE  Due'
<1> DEFINE s == bus[k]
           S == UNION {Taken(t) : t \in ToSet(active[k]) \ Over}
<1>1. /\ s # <<>> /\ bus' = [bus EXCEPT ![k] = Tail(s)]
      /\ \A t \in Turns : /\ Holding(t) /\ turn'[t].pc = turn[t].pc
                          /\ turn'[t].doomed = (turn[t].doomed \/ t \in ToSet(active[k]))
      /\ UNCHANGED <<owed, journal>>
    BY StopIs
<1>2. s \in Seq(Message) /\ bus'[k] = Tail(s) /\ \A j \in Keys : j # k => bus'[j] = bus[j]
    BY <1>1 DEF TypeOK, Messages
<1>3. IdsOf(Tail(s)) \subseteq IdsOf(s)
    BY <1>1, <1>2, HeadTail
<1>4. \A i \in Ids : fate'[i] = IF Head(s).id = i THEN "answered"
                                ELSE IF \E m \in S : m.id = i THEN "stopped" ELSE fate[i]
    <2>1. fate' = Settled({Head(s)}, "answered", Settled(S, "stopped", fate))
        BY DEF ConsumeStop
    <2> HIDE DEF s, S
    <2>2. QED
        BY <2>1 DEF Settled
<1> HIDE DEF S
<1>5. ASSUME NEW i \in Ids PROVE Queues(i)' => Queues(i) /\ i # Head(s).id
    <2>1. Queues(i)' => Queues(i)
        BY <1>1, <1>2, <1>3 DEF Queues, Holding
    <2>2. Queues(i)' => i # Head(s).id
        BY <1>1, <1>2, HeadApart DEF Queues, Holding, Fresh
    <2>3. QED
        BY <2>1, <2>2
<1>6. ASSUME NEW i \in Ids, NEW t \in Turns, AnswerDue(t, i)'
      PROVE  AnswerDue(t, i) /\ i # Head(s).id /\ t \notin ToSet(active[k])
    <2>1. ~turn[t].doomed /\ t \notin ToSet(active[k])
        BY <1>1, <1>6 DEF AnswerDue
    <2>2. AnswerDue(t, i)
        BY <1>1, <1>6, <2>1 DEF AnswerDue, Holding
    <2>3. i # Head(s).id
        BY <1>1, <2>2, HeadApart DEF Fresh
    <2>4. QED
        BY <2>1, <2>2, <2>3
<1>7. ASSUME NEW i \in Ids, DueSomewhere(i)' PROVE ~\E m \in S : m.id = i
    <2>1. SUFFICES ASSUME NEW t \in ToSet(active[k]), NEW m \in Taken(t), m.id = i PROVE FALSE
        BY DEF S
    <2>2. t \in Turns /\ turn[t].pc # "free"
        BY DEF NoneOutlives, ListedOK, TypeOK, ToSet
    <2>3. ~Queues(i) /\ \A u \in Turns \ {t} : ~AnswerDue(u, i)
        BY <2>1, <2>2, TakenApart DEF Fresh
    <2>4. PICK u \in Turns : AnswerDue(u, i)'
        BY <1>5, <1>7, <2>3 DEF DueSomewhere
    <2>5. AnswerDue(u, i) /\ u # t
        BY <1>6, <2>1, <2>4
    <2>6. QED
        BY <2>3, <2>5
<1>8. \A i \in Ids : DueSomewhere(i)' => DueSomewhere(i) /\ fate'[i] = fate[i]
    <2>1. \A i \in Ids : DueSomewhere(i)' => DueSomewhere(i) /\ i # Head(s).id
        BY <1>5, <1>6 DEF DueSomewhere
    <2> HIDE DEF s
    <2>2. QED
        BY <1>4, <1>7, <2>1
<1>9. QED
    BY <1>8, DueKept

LEMMA DueCommand ==
    ASSUME TypeOK, Once, Fresh, Due, NEW k \in Keys, ConsumeCommand(k)
    PROVE  Due'
<1> DEFINE s == bus[k]
<1>1. /\ s # <<>> /\ bus' = [bus EXCEPT ![k] = Tail(s)]
      /\ fate' = Settled({Head(s)}, "answered", fate)
      /\ UNCHANGED <<turn, owed, journal>>
    BY CommandIs
<1>2. s \in Seq(Message) /\ bus'[k] = Tail(s) /\ \A j \in Keys : j # k => bus'[j] = bus[j]
    BY <1>1 DEF TypeOK, Messages
<1>3. IdsOf(Tail(s)) \subseteq IdsOf(s)
    BY <1>1, <1>2, HeadTail
<1>5. ASSUME NEW i \in Ids PROVE Queues(i)' => Queues(i) /\ i # Head(s).id
    <2>1. Queues(i)' => Queues(i)
        BY <1>1, <1>2, <1>3 DEF Queues
    <2>2. Queues(i)' => i # Head(s).id
        BY <1>1, <1>2, HeadApart DEF Queues, Fresh
    <2>3. QED
        BY <2>1, <2>2
<1>6. ASSUME NEW i \in Ids, NEW t \in Turns, AnswerDue(t, i)'
      PROVE  AnswerDue(t, i) /\ i # Head(s).id
    <2>1. AnswerDue(t, i)
        BY <1>1, <1>6 DEF AnswerDue
    <2>2. QED
        BY <1>1, <2>1, HeadApart DEF Fresh
<1>7. \A i \in Ids : DueSomewhere(i)' => DueSomewhere(i) /\ i # Head(s).id
    BY <1>5, <1>6 DEF DueSomewhere
<1> HIDE DEF s
<1>8. \A i \in Ids : fate'[i] = IF Head(s).id = i THEN "answered" ELSE fate[i]
    BY <1>1 DEF Settled
<1>9. \A i \in Ids : DueSomewhere(i)' => DueSomewhere(i) /\ fate'[i] = fate[i]
    BY <1>7, <1>8
<1>10. QED
    BY <1>9, DueKept

LEMMA DueFollowUp ==
    ASSUME TypeOK, Fresh, Due, NEW k \in Keys, ConsumeFollowUp(k)
    PROVE  Due'
<1> DEFINE s == bus[k]
           m == Head(s)
<1>1. /\ s # <<>> /\ bus' = [bus EXCEPT ![k] = Tail(s)]
      /\ UNCHANGED <<owed, journal, fate>>
    BY FollowUpIs
<1>2. PICK r \in Turns :
         /\ \A t \in Turns \ {r} : Untouched(t)
         /\ turn'[r].pc = turn[r].pc /\ turn'[r].opener = turn[r].opener /\ turn'[r].doomed = turn[r].doomed
         /\ turn'[r].pulled = turn[r].pulled /\ turn'[r].hand = turn[r].hand
         /\ \/ /\ turn'[r].inject = Append(turn[r].inject, m)
               /\ turn'[r].deferred = turn[r].deferred
            \/ /\ turn'[r].deferred = Append(turn[r].deferred, m)
               /\ turn'[r].inject = turn[r].inject
    BY FollowUpIs
<1>3. s \in Seq(Message) /\ bus'[k] = Tail(s) /\ \A j \in Keys : j # k => bus'[j] = bus[j]
    BY <1>1 DEF TypeOK, Messages
<1>4. m \in Message /\ IdsOf(s) = {m.id} \cup IdsOf(Tail(s))
    BY <1>1, <1>3, HeadTail
<1> DEFINE x == turn[r].inject
           y == turn[r].deferred
<1>5. x \in Seq(Message) /\ y \in Seq(Message)
    BY MessagesOf
<1> HIDE DEF x, y, m
<1>6. IdsOf(Append(x, m)) = IdsOf(x) \cup {m.id} /\ IdsOf(Append(y, m)) = IdsOf(y) \cup {m.id}
    BY <1>4, <1>5, Appended
<1>7. IdsOf(turn'[r].inject) \cup IdsOf(turn'[r].deferred) \subseteq IdsOf(x) \cup IdsOf(y) \cup IdsOf(s)
    <2>1. \/ turn'[r].inject = Append(x, m) /\ turn'[r].deferred = y
          \/ turn'[r].deferred = Append(y, m) /\ turn'[r].inject = x
        BY <1>2 DEF x, y
    <2>2. QED
        BY <1>4, <1>6, <2>1
<1>8. ASSUME NEW i \in Ids PROVE Queues(i)' => Queues(i)
    <2>1. ASSUME NEW j \in Keys, i \in IdsOf(bus'[j]) \cup IdsOf(owed'[j]) \cup IdsOf(journal'[j])
          PROVE  Queues(i)
        BY <1>1, <1>3, <1>4, <2>1 DEF Queues
    <2>2. ASSUME NEW t \in Turns,
                 i \in IdsOf(turn'[t].inject) \cup IdsOf(turn'[t].deferred) \cup IdsOf(turn'[t].hand)
          PROVE  Queues(i)
        <3>1. CASE t = r
            BY <1>2, <1>7, <2>2, <3>1 DEF Queues, x, y
        <3>2. CASE t # r
            BY <1>2, <2>2, <3>2 DEF Queues, Untouched
        <3>3. QED
            BY <3>1, <3>2
    <2>3. QED
        BY <2>1, <2>2 DEF Queues
<1>9. \A i \in Ids : \A t \in Turns : AnswerDue(t, i)' => AnswerDue(t, i)
    <2>1. ASSUME NEW i \in Ids, NEW t \in Turns, AnswerDue(t, i)' PROVE AnswerDue(t, i)
        <3>1. CASE t = r
            BY <1>2, <2>1, <3>1 DEF AnswerDue
        <3>2. CASE t # r
            BY <1>2, <2>1, <3>2 DEF AnswerDue, Untouched
        <3>3. QED
            BY <3>1, <3>2
    <2>2. QED
        BY <2>1
<1>10. \A i \in Ids : DueSomewhere(i)' => DueSomewhere(i) /\ fate'[i] = fate[i]
    BY <1>1, <1>8, <1>9 DEF DueSomewhere
<1>11. QED
    BY <1>10, DueKept

LEMMA DueOpener ==
    ASSUME TypeOK, NoneOutlives, Fresh, Due, NEW k \in Keys, ConsumeOpener(k)
    PROVE  Due'
<1> DEFINE s == bus[k]
           m == Head(s)
<1>1. /\ s # <<>> /\ bus' = [bus EXCEPT ![k] = Tail(s)] /\ m \in Message
      /\ UNCHANGED <<owed, journal, fate>>
    BY OpenerIs
<1>2. PICK t \in Turns :
         /\ turn'[t].opener = m
         /\ turn'[t].pulled = <<>> /\ turn'[t].inject = <<>> /\ turn'[t].deferred = <<>>
         /\ turn'[t].hand = <<>>
         /\ \A u \in Turns \ {t} : Untouched(u)
    BY OpenerIs
<1>3. s \in Seq(Message) /\ bus'[k] = Tail(s) /\ \A j \in Keys : j # k => bus'[j] = bus[j]
    BY <1>1 DEF TypeOK, Messages
<1>4. IdsOf(s) = {m.id} \cup IdsOf(Tail(s))
    BY <1>1, <1>3, HeadTail
<1>5. ASSUME NEW i \in Ids PROVE Queues(i)' => Queues(i)
    <2>1. ASSUME NEW j \in Keys, i \in IdsOf(bus'[j]) \cup IdsOf(owed'[j]) \cup IdsOf(journal'[j])
          PROVE  Queues(i)
        BY <1>1, <1>3, <1>4, <2>1 DEF Queues
    <2>2. ASSUME NEW u \in Turns,
                 i \in IdsOf(turn'[u].inject) \cup IdsOf(turn'[u].deferred) \cup IdsOf(turn'[u].hand)
          PROVE  Queues(i)
        <3>1. u # t
            BY <1>2, <2>2, NoMessages
        <3>2. QED
            BY <1>2, <2>2, <3>1 DEF Queues, Untouched
    <2>3. QED
        BY <2>1, <2>2 DEF Queues
<1>6. ASSUME NEW i \in Ids, NEW u \in Turns, AnswerDue(u, i)' PROVE DueSomewhere(i)
    <2>1. CASE u = t
        <3>1. i = m.id
            BY <1>2, <1>6, <2>1, NoMessages DEF AnswerDue
        <3>2. i \in IdsOf(s)
            BY <1>4, <3>1
        <3>3. QED
            BY <3>2 DEF DueSomewhere, Queues
    <2>2. CASE u # t
        BY <1>2, <1>6, <2>2 DEF AnswerDue, Untouched, DueSomewhere
    <2>3. QED
        BY <2>1, <2>2
<1>7. \A i \in Ids : DueSomewhere(i)' => DueSomewhere(i) /\ fate'[i] = fate[i]
    BY <1>1, <1>5, <1>6 DEF DueSomewhere
<1>8. QED
    BY <1>7, DueKept

LEMMA DueAdvance ==
    ASSUME TypeOK, Once, Fresh, Due, NEW t \in Turns, Begin(t) \/ Run(t) \/ Finish(t) \/ UnwindBody(t)
    PROVE  Due'
<1>1. /\ \A u \in Turns \ {t} : Untouched(u)
      /\ Holding(t) /\ turn'[t].doomed = turn[t].doomed
      /\ turn[t].pc \in {"created", "waiting", "running"}
      /\ Finish(t) => turn'[t].pc = "ending"
      /\ UNCHANGED <<bus, owed, journal>>
    <2>1. Finish(t) => turn'[t].pc = "ending"
        BY AdvanceIs DEF Finish, Begin, Run, UnwindBody, Undisturbed
    <2>2. QED
        BY <2>1, AdvanceIs
<1>2. ASSUME NEW i \in Ids PROVE Queues(i)' => Queues(i)
    BY <1>1 DEF Queues, Untouched, Holding
<1>3. ASSUME NEW i \in Ids, NEW u \in Turns, AnswerDue(u, i)' PROVE AnswerDue(u, i)
    <2>1. CASE u = t
        BY <1>1, <1>3, <2>1 DEF AnswerDue, Holding
    <2>2. CASE u # t
        BY <1>1, <1>3, <2>2 DEF AnswerDue, Untouched
    <2>3. QED
        BY <2>1, <2>2
<1>4. ASSUME NEW i \in Ids, DueSomewhere(i)' PROVE fate'[i] = fate[i]
    <2>1. CASE Finish(t)
        <3>1. \A j \in Ids : fate'[j] = IF \E m \in Taken(t) : m.id = j THEN "answered" ELSE fate[j]
            BY <2>1 DEF Finish, Settled
        <3>2. ASSUME NEW m \in Taken(t), m.id = i PROVE FALSE
            <4>1. ~Queues(i) /\ \A u \in Turns \ {t} : ~AnswerDue(u, i)
                BY <1>1, <3>2, TakenApart DEF Fresh
            <4>2. PICK u \in Turns : AnswerDue(u, i)'
                BY <1>2, <1>4, <4>1 DEF DueSomewhere
            <4>3. u = t
                BY <1>3, <4>1, <4>2
            <4>4. QED
                BY <1>1, <2>1, <4>2, <4>3 DEF AnswerDue
        <3>3. QED
            BY <3>1, <3>2
    <2>2. CASE ~Finish(t)
        <3>1. fate' = fate
            BY <2>2 DEF Begin, Run, UnwindBody
        <3>2. QED
            BY <3>1
    <2>3. QED
        BY <2>1, <2>2
<1>5. \A i \in Ids : DueSomewhere(i)' => DueSomewhere(i) /\ fate'[i] = fate[i]
    BY <1>2, <1>3, <1>4 DEF DueSomewhere
<1>6. QED
    BY <1>5, DueKept

LEMMA DuePull ==
    ASSUME TypeOK, Fresh, Due, NEW t \in Turns, PullSteers(t) \/ PullAll(t)
    PROVE  Due'
<1> DEFINE p == turn[t].pulled
           a == turn[t].inject
           b == turn[t].deferred
<1>1. /\ \A u \in Turns \ {t} : Untouched(u)
      /\ turn[t].pc = "running" /\ ~turn[t].doomed
      /\ turn'[t].opener = turn[t].opener /\ turn'[t].hand = turn[t].hand
      /\ UNCHANGED <<bus, owed, journal, fate>>
    BY PullIs
<1>2. /\ turn'[t].inject = Rest(a, Batch)
      /\ \/ turn'[t].pulled = p \o Take(a, Batch) /\ turn'[t].deferred = b
         \/ /\ turn'[t].pulled = p \o Take(a \o b, Batch)
            /\ turn'[t].deferred = Rest(b, Batch - Len(Take(a, Batch)))
    BY PullIs
<1>3. p \in Seq(Message) /\ a \in Seq(Message) /\ b \in Seq(Message) /\ Batch \in Nat
    BY MessagesOf, SizesAssumption
<1> DEFINE P == turn'[t].pulled
           A == turn'[t].inject
           B == turn'[t].deferred
<1> HIDE DEF p, a, b
<1>4. /\ IdsOf(P) \subseteq IdsOf(p) \cup IdsOf(a) \cup IdsOf(b)
      /\ IdsOf(A) \cup IdsOf(B) \subseteq IdsOf(a) \cup IdsOf(b)
    <2> DEFINE x == Take(a, Batch)
               y == Take(a \o b, Batch)
               z == Rest(b, Batch - Len(Take(a, Batch)))
               w == Rest(a, Batch)
    <2>1. x \in Seq(Message) /\ IdsOf(a) = IdsOf(x) \cup IdsOf(w)
        BY <1>3, TakeRest
    <2>2. y \in Seq(Message) /\ IdsOf(a) \cup IdsOf(b) = IdsOf(y) \cup IdsOf(w) \cup IdsOf(z)
        BY <1>3, TakenFromBoth, ZenonT(30)
    <2>3. A = w /\ ((P = p \o x /\ B = b) \/ (P = p \o y /\ B = z))
        BY <1>2
    <2> HIDE DEF x, y, z, w, P, A, B
    <2>4. IdsOf(p \o x) = IdsOf(p) \cup IdsOf(x) /\ IdsOf(p \o y) = IdsOf(p) \cup IdsOf(y)
        BY <1>3, <2>1, <2>2, Joined
    <2>5. CASE P = p \o x /\ B = b
        BY <2>1, <2>3, <2>4, <2>5
    <2>6. CASE P = p \o y /\ B = z
        BY <2>2, <2>3, <2>4, <2>6
    <2>7. QED
        BY <2>3, <2>5, <2>6
<1>5. ASSUME NEW i \in Ids PROVE Queues(i)' => Queues(i)
    <2>1. ASSUME NEW u \in Turns,
                 i \in IdsOf(turn'[u].inject) \cup IdsOf(turn'[u].deferred) \cup IdsOf(turn'[u].hand)
          PROVE  Queues(i)
        <3>1. CASE u = t
            BY <1>1, <1>4, <2>1, <3>1 DEF Queues, a, b
        <3>2. CASE u # t
            BY <1>1, <2>1, <3>2 DEF Queues, Untouched
        <3>3. QED
            BY <3>1, <3>2
    <2>2. QED
        BY <1>1, <2>1 DEF Queues
<1>6. ASSUME NEW i \in Ids, NEW u \in Turns, AnswerDue(u, i)' PROVE DueSomewhere(i)
    <2>1. CASE u = t
        <3>1. turn[t].opener.id = i \/ i \in IdsOf(p) \/ i \in IdsOf(a) \cup IdsOf(b)
            BY <1>1, <1>4, <1>6, <2>1 DEF AnswerDue
        <3>2. CASE turn[t].opener.id = i \/ i \in IdsOf(p)
            BY <1>1, <3>2 DEF AnswerDue, DueSomewhere, p
        <3>3. CASE i \in IdsOf(a) \cup IdsOf(b)
            BY <3>3 DEF Queues, DueSomewhere, a, b
        <3>4. QED
            BY <3>1, <3>2, <3>3
    <2>2. CASE u # t
        BY <1>1, <1>6, <2>2 DEF AnswerDue, Untouched, DueSomewhere
    <2>3. QED
        BY <2>1, <2>2
<1>7. \A i \in Ids : DueSomewhere(i)' => DueSomewhere(i) /\ fate'[i] = fate[i]
    BY <1>1, <1>5, <1>6 DEF DueSomewhere
<1>8. QED
    BY <1>7, DueKept

LEMMA GiveBackQueues ==
    ASSUME TypeOK, NoneOutlives, NEW t \in Turns, turn[t].pc # "free", GiveBack(t), NEW i, Queues(i)'
    PROVE  Queues(i)
<1>1. PICK k \in Keys : k = Key(t)
    BY GiveBackIs
<1> DEFINE L == Leftover(t)
<1>2. /\ \A u \in Turns \ {t} : turn'[u].hand = turn[u].hand
      /\ \A u \in Turns : registered[k] = u => turn'[u].inject = <<>> /\ turn'[u].deferred = <<>>
      /\ \A u \in Turns \ {t} : registered[k] # u =>
            turn'[u].inject = turn[u].inject /\ turn'[u].deferred = turn[u].deferred
      /\ L \in Seq(Message)
    BY <1>1, GiveBackIs
<1>3. UNCHANGED <<owed, journal>>
    BY DEF GiveBack
<1>4. /\ UNCHANGED bus
      /\ \/ /\ turn'[t].hand = L
            /\ registered[k] # t => turn'[t].inject = turn[t].inject /\ turn'[t].deferred = turn[t].deferred
         \/ turn'[t] = Idle
    BY <1>1, GiveBackIs
<1>5. \A j \in IdsOf(L) : Queues(j)
    <2>1. CASE registered[k] = None
        BY <1>1, <2>1, NoMessages DEF Leftover
    <2>2. CASE registered[k] # None
        <3>1. PICK r \in Turns : r = registered[k]
            BY <2>2 DEF TypeOK
        <3>2. L = turn[r].inject \o turn[r].deferred
            BY <1>1, <2>2, <3>1 DEF Leftover, Queued
        <3>3. turn[r].inject \in Seq(Message) /\ turn[r].deferred \in Seq(Message)
            BY MessagesOf
        <3>4. IdsOf(L) = IdsOf(turn[r].inject) \cup IdsOf(turn[r].deferred)
            BY <3>2, <3>3, Joined
        <3>5. QED
            BY <3>4 DEF Queues
    <2>3. QED
        BY <2>1, <2>2
<1> HIDE DEF L
<1>6. Idle.inject = <<>> /\ Idle.deferred = <<>> /\ Idle.hand = <<>> /\ IdsOf(<<>>) = {}
    BY NoMessages DEF Idle
<1>7. ASSUME NEW j \in Keys, i \in IdsOf(bus'[j]) \cup IdsOf(owed'[j]) \cup IdsOf(journal'[j])
      PROVE  Queues(i)
    BY <1>3, <1>4, <1>7 DEF Queues
<1>8. ASSUME NEW u \in Turns,
             i \in IdsOf(turn'[u].inject) \cup IdsOf(turn'[u].deferred) \cup IdsOf(turn'[u].hand)
      PROVE  Queues(i)
    <2>1. turn'[u].inject = <<>> \/ turn'[u].inject = turn[u].inject
        BY <1>2, <1>4, <1>6
    <2>2. turn'[u].deferred = <<>> \/ turn'[u].deferred = turn[u].deferred
        BY <1>2, <1>4, <1>6
    <2>3. turn'[u].hand = <<>> \/ turn'[u].hand = turn[u].hand \/ turn'[u].hand = L
        BY <1>2, <1>4, <1>6
    <2>4. CASE i \in IdsOf(L)
        BY <1>5, <2>4
    <2>5. CASE i \notin IdsOf(L)
        BY <1>6, <1>8, <2>1, <2>2, <2>3, <2>5 DEF Queues
    <2>6. QED
        BY <2>4, <2>5
<1>9. QED
    BY <1>7, <1>8 DEF Queues

LEMMA DueEnd ==
    ASSUME TypeOK, NoneOutlives, Once, Fresh, Due, NEW t \in Turns, Leave(t) \/ Refuse(t)
    PROVE  Due'
<1>1. GiveBack(t) /\ turn[t].pc # "free"
    BY DEF Leave, Refuse, Undisturbed
<1>2. /\ \A u \in Turns \ {t} :
            /\ turn'[u].pc = turn[u].pc /\ turn'[u].opener = turn[u].opener
            /\ turn'[u].pulled = turn[u].pulled /\ turn'[u].doomed = turn[u].doomed
      /\ turn'[t].pc \in {"free", "handback"}
    BY <1>1, GiveBackIs DEF Idle
<1>3. ASSUME NEW i \in Ids PROVE Queues(i)' => Queues(i)
    BY <1>1, GiveBackQueues
<1>4. ASSUME NEW i \in Ids, NEW u \in Turns, AnswerDue(u, i)' PROVE u # t /\ AnswerDue(u, i)
    BY <1>2, <1>4 DEF AnswerDue
<1>5. ASSUME NEW i \in Ids, DueSomewhere(i)' PROVE fate'[i] = fate[i]
    <2>1. CASE Leave(t)
        BY <2>1 DEF Leave
    <2>2. CASE Refuse(t)
        <3>1. \A j \in Ids : fate'[j] = IF turn[t].opener.id = j THEN "answered" ELSE fate[j]
            BY <2>2 DEF Refuse, Settled
        <3>2. ASSUME turn[t].opener.id = i PROVE FALSE
            <4>1. ~Queues(i) /\ \A u \in Turns \ {t} : ~AnswerDue(u, i)
                BY <1>1, <3>2, TakenApart DEF Fresh, Taken
            <4>2. QED
                BY <1>3, <1>4, <1>5, <4>1 DEF DueSomewhere
        <3>3. QED
            BY <3>1, <3>2
    <2>3. QED
        BY <2>1, <2>2
<1>6. \A i \in Ids : DueSomewhere(i)' => DueSomewhere(i) /\ fate'[i] = fate[i]
    BY <1>3, <1>4, <1>5 DEF DueSomewhere
<1>7. QED
    BY <1>6, DueKept

LEMMA DueClaimed ==
    ASSUME TypeOK, NoneOutlives, Once, Fresh, Due, NEW t \in Turns, HandBack(t), UNCHANGED bus,
           fate' = Settled({Head(turn[t].hand)}, "claimed", fate)
    PROVE  Due'
<1> DEFINE h == turn[t].hand
           m == Head(h)
<1>1. /\ \A u \in Turns \ {t} : Untouched(u)
      /\ h \in Seq(Message) /\ h # <<>> /\ turn[t].pc = "handback"
    BY HandBackIs
<1>2. UNCHANGED <<owed, journal>>
    BY DEF HandBack
<1>3. \/ turn'[t] = Idle
      \/ /\ turn'[t].pc = "handback"
         /\ turn'[t].inject = turn[t].inject /\ turn'[t].deferred = turn[t].deferred
         /\ turn'[t].hand = Tail(h)
    BY HandBackIs
<1>4. NoTwins(h)
    BY InTask DEF Once, TaskKinds
<1>5. IdsOf(h) = {m.id} \cup IdsOf(Tail(h)) /\ m.id \notin IdsOf(Tail(h))
    BY <1>1, <1>4, HeadTail
<1>6. /\ IdsOf(turn'[t].hand) \subseteq IdsOf(Tail(h)) /\ turn'[t].pc \in {"free", "handback"}
      /\ IdsOf(turn'[t].inject) \subseteq IdsOf(turn[t].inject)
      /\ IdsOf(turn'[t].deferred) \subseteq IdsOf(turn[t].deferred)
    <2>1. CASE turn'[t] = Idle
        BY <2>1, NoMessages DEF Idle
    <2>2. CASE turn'[t] # Idle
        BY <1>3, <2>2
    <2>3. QED
        BY <2>1, <2>2
<1>7. ASSUME NEW i \in Ids PROVE Queues(i)' => Queues(i) /\ i # m.id
    <2>1. ASSUME NEW j \in Keys, i \in IdsOf(bus'[j]) \cup IdsOf(owed'[j]) \cup IdsOf(journal'[j])
          PROVE  Queues(i) /\ i # m.id
        BY <1>2, <1>5, <2>1, HandApart DEF Queues, Fresh
    <2>2. ASSUME NEW u \in Turns,
                 i \in IdsOf(turn'[u].inject) \cup IdsOf(turn'[u].deferred) \cup IdsOf(turn'[u].hand)
          PROVE  Queues(i) /\ i # m.id
        <3>1. CASE u = t
            BY <1>5, <1>6, <2>2, <3>1, HandApart DEF Queues, Fresh
        <3>2. CASE u # t
            BY <1>1, <1>5, <2>2, <3>2, HandApart DEF Queues, Fresh, Untouched
        <3>3. QED
            BY <3>1, <3>2
    <2>3. QED
        BY <2>1, <2>2 DEF Queues
<1>8. ASSUME NEW i \in Ids, NEW u \in Turns, AnswerDue(u, i)' PROVE AnswerDue(u, i) /\ i # m.id
    <2>1. u # t
        BY <1>6, <1>8 DEF AnswerDue
    <2>2. AnswerDue(u, i)
        BY <1>1, <1>8, <2>1 DEF AnswerDue, Untouched
    <2>3. QED
        BY <1>5, <2>2, HandApart DEF Fresh
<1>9. \A i \in Ids : DueSomewhere(i)' => DueSomewhere(i) /\ i # m.id
    BY <1>7, <1>8 DEF DueSomewhere
<1>10. fate' = Settled({m}, "claimed", fate)
    OBVIOUS
<1> HIDE DEF m
<1>11. \A i \in Ids : fate'[i] = IF m.id = i THEN "claimed" ELSE fate[i]
    BY <1>10 DEF Settled
<1>12. \A i \in Ids : DueSomewhere(i)' => DueSomewhere(i) /\ fate'[i] = fate[i]
    BY <1>9, <1>11
<1>13. QED
    BY <1>12, DueKept

LEMMA DueBack ==
    ASSUME TypeOK, NoneOutlives, Fresh, Due, NEW t \in Turns, HandBack(t), UNCHANGED fate,
           bus' = [bus EXCEPT ![Key(t)] = Append(@, Head(turn[t].hand))]
    PROVE  Due'
<1>1. PICK k \in Keys : k = Key(t)
    BY HandBackIs
<1> DEFINE h == turn[t].hand
           m == Head(h)
<1>2. /\ \A u \in Turns \ {t} : Untouched(u)
      /\ h \in Seq(Message) /\ h # <<>> /\ turn[t].pc = "handback"
    BY HandBackIs
<1>3. bus' = [bus EXCEPT ![Key(t)] = Append(@, Head(turn[t].hand))]
    OBVIOUS
<1>4. UNCHANGED <<owed, journal, fate>>
    BY DEF HandBack
<1>5. \/ turn'[t] = Idle
      \/ /\ turn'[t].pc = "handback"
         /\ turn'[t].inject = turn[t].inject /\ turn'[t].deferred = turn[t].deferred
         /\ turn'[t].hand = Tail(h)
    BY HandBackIs
<1>6. bus[k] \in Seq(Message) /\ bus'[k] = Append(bus[k], m) /\ \A j \in Keys : j # k => bus'[j] = bus[j]
    BY <1>1, <1>3 DEF TypeOK, Messages
<1>7. m \in Message /\ IdsOf(h) = {m.id} \cup IdsOf(Tail(h))
    BY <1>2, HeadTail
<1> HIDE DEF m
<1>8. IdsOf(bus'[k]) = IdsOf(bus[k]) \cup {m.id}
    BY <1>6, <1>7, Appended
<1>9. IdsOf(turn'[t].hand) \subseteq IdsOf(h) /\ turn'[t].pc \in {"free", "handback"}
      /\ IdsOf(turn'[t].inject) \subseteq IdsOf(turn[t].inject)
      /\ IdsOf(turn'[t].deferred) \subseteq IdsOf(turn[t].deferred)
    <2>1. CASE turn'[t] = Idle
        BY <2>1, NoMessages DEF Idle
    <2>2. CASE turn'[t] # Idle
        BY <1>5, <1>7, <2>2
    <2>3. QED
        BY <2>1, <2>2
<1>10. ASSUME NEW i \in Ids PROVE Queues(i)' => Queues(i)
    <2>0. m.id \in IdsOf(h)
        BY <1>7
    <2>1. ASSUME NEW j \in Keys, i \in IdsOf(bus'[j]) \cup IdsOf(owed'[j]) \cup IdsOf(journal'[j])
          PROVE  Queues(i)
        <3>1. CASE j = k
            BY <1>4, <1>8, <2>0, <2>1, <3>1 DEF Queues
        <3>2. CASE j # k
            BY <1>4, <1>6, <2>1, <3>2 DEF Queues
        <3>3. QED
            BY <3>1, <3>2
    <2>2. ASSUME NEW u \in Turns,
                 i \in IdsOf(turn'[u].inject) \cup IdsOf(turn'[u].deferred) \cup IdsOf(turn'[u].hand)
          PROVE  Queues(i)
        <3>1. CASE u = t
            BY <1>9, <2>2, <3>1 DEF Queues
        <3>2. CASE u # t
            BY <1>2, <2>2, <3>2 DEF Queues, Untouched
        <3>3. QED
            BY <3>1, <3>2
    <2>3. QED
        BY <2>1, <2>2 DEF Queues
<1>11. ASSUME NEW i \in Ids, NEW u \in Turns, AnswerDue(u, i)' PROVE AnswerDue(u, i)
    <2>1. u # t
        BY <1>9, <1>11 DEF AnswerDue
    <2>2. QED
        BY <1>2, <1>11, <2>1 DEF AnswerDue, Untouched
<1>12. \A i \in Ids : DueSomewhere(i)' => DueSomewhere(i) /\ fate'[i] = fate[i]
    BY <1>4, <1>10, <1>11 DEF DueSomewhere
<1>13. QED
    BY <1>12, DueKept

LEMMA DueHandBack ==
    ASSUME TypeOK, NoneOutlives, Once, Fresh, Due, NEW t \in Turns, HandBack(t)
    PROVE  Due'
<1>1. CASE bus' = [bus EXCEPT ![Key(t)] = Append(@, Head(turn[t].hand))] /\ UNCHANGED fate
    BY <1>1, DueBack
<1>2. CASE fate' = Settled({Head(turn[t].hand)}, "claimed", fate) /\ UNCHANGED bus
    BY <1>2, DueClaimed
<1>3. QED
    BY <1>1, <1>2, HandBackIs

LEMMA DueDrop ==
    ASSUME TypeOK, Once, Fresh, Due, NEW t \in Turns, DropUnstarted(t) \/ UnwindHandBack(t)
    PROVE  Due'
<1>1. /\ \A u \in Turns \ {t} : Untouched(u)
      /\ \/ turn'[t].inject = turn[t].inject /\ turn'[t].deferred = turn[t].deferred
         \/ turn'[t].inject = <<>> /\ turn'[t].deferred = <<>>
      /\ turn'[t].pc = "free" /\ turn'[t].hand = <<>>
      /\ UNCHANGED <<bus, owed, journal>>
      /\ UNCHANGED fate \/ fate' = Settled(ToSet(turn[t].hand), "dropped", fate)
    BY DropIs
<1>2. ASSUME NEW i \in Ids PROVE Queues(i)' => Queues(i)
    BY <1>1, NoMessages DEF Queues, Untouched
<1>3. ASSUME NEW i \in Ids, NEW u \in Turns, AnswerDue(u, i)' PROVE AnswerDue(u, i)
    <2>1. u # t
        BY <1>1, <1>3 DEF AnswerDue
    <2>2. QED
        BY <1>1, <1>3, <2>1 DEF AnswerDue, Untouched
<1>6. ASSUME NEW i \in Ids, DueSomewhere(i)' PROVE i \notin IdsOf(turn[t].hand)
    <2>1. SUFFICES ASSUME i \in IdsOf(turn[t].hand) PROVE FALSE
        OBVIOUS
    <2>2. \A u \in Turns : ~AnswerDue(u, i)'
        BY <1>3, <2>1, HandApart DEF Fresh
    <2>3. ~Queues(i)'
        BY <1>1, <2>1, HandApart, NoMessages DEF Queues, Fresh, Untouched
    <2>4. QED
        BY <1>6, <2>2, <2>3 DEF DueSomewhere
<1>7. ASSUME NEW i \in Ids, i \notin IdsOf(turn[t].hand) PROVE fate'[i] = fate[i]
    <2>1. \A m \in ToSet(turn[t].hand) : m.id # i
        BY <1>7, MessagesOf, IdsOfSet
    <2>2. QED
        BY <1>1, <2>1 DEF Settled
<1>4. \A i \in Ids : DueSomewhere(i)' => DueSomewhere(i) /\ fate'[i] = fate[i]
    BY <1>2, <1>3, <1>6, <1>7 DEF DueSomewhere
<1>5. QED
    BY <1>4, DueKept

LEMMA DueReplay ==
    ASSUME TypeOK, Fresh, Due, Replay
    PROVE  Due'
<1>1. /\ bus' = [k \in Keys |-> bus[k] \o journal[k]] /\ journal' = Nothing
      /\ UNCHANGED <<owed, turn, fate>>
    BY DEF Replay
<1>2. ASSUME NEW k \in Keys
      PROVE  IdsOf(bus'[k]) = IdsOf(bus[k]) \cup IdsOf(journal[k]) /\ IdsOf(journal'[k]) = {}
    <2>1. bus[k] \in Seq(Message) /\ journal[k] \in Seq(Message)
        BY DEF TypeOK, Messages
    <2>2. bus'[k] = bus[k] \o journal[k] /\ journal'[k] = <<>>
        BY <1>1 DEF Nothing
    <2>3. QED
        BY <2>1, <2>2, Joined, NoMessages
<1>3. ASSUME NEW i \in Ids PROVE Queues(i)' => Queues(i)
    BY <1>1, <1>2 DEF Queues
<1>4. \A i \in Ids : DueSomewhere(i)' => DueSomewhere(i) /\ fate'[i] = fate[i]
    BY <1>1, <1>3 DEF DueSomewhere, AnswerDue
<1>5. QED
    BY <1>4, DueKept

LEMMA DueStep ==
    ASSUME TypeOK, NoneOutlives, Routing, Once, Due, [Next]_vars
    PROVE  Due'
<1> SUFFICES ASSUME Fresh' PROVE Due'
    BY DEF Due
<1>1. ~BeginDrain /\ ~EndDrain /\ ~Restart
    <2>1. restarts \in Nat
        BY DEF TypeOK
    <2>2. restarts' = 0 /\ gateway' \in {"starting", "serving", "closing"}
        BY DEF Fresh, Early
    <2>3. ~BeginDrain
        BY <2>2 DEF BeginDrain
    <2>4. ~EndDrain
        BY <2>2 DEF EndDrain
    <2>5. ~Restart
        BY <2>1, <2>2 DEF Restart
    <2>6. QED
        BY <2>3, <2>4, <2>5
<1>2. Fresh
    <2>1. CASE StopIntake
        BY <2>1 DEF StopIntake, Fresh, Early
    <2>2. CASE Replay
        BY <2>2 DEF Replay, Fresh, Early
    <2>3. ASSUME ~StopIntake, ~Replay PROVE UNCHANGED <<restarts, gateway>>
        BY <1>1, <2>3 DEF Next, vars, Publish, StopDone, Consume, ConsumeStop, ConsumeCommand, ConsumeFollowUp,
              ConsumeOpener, TurnStep, Begin, Run, Refuse, Leave, GiveBack, PullSteers, PullAll, Finish,
              UnwindBody, HandBack, UnwindHandBack, DropUnstarted
    <2>4. QED
        BY <2>1, <2>2, <2>3 DEF Fresh, Early
<1>3. CASE StopDone \/ StopIntake \/ UNCHANGED vars
    <2>1. UNCHANGED <<bus, owed, journal, turn, fate>>
        BY <1>3 DEF StopDone, StopIntake, vars
    <2>2. \A i \in Ids : DueSomewhere(i)' => DueSomewhere(i) /\ fate'[i] = fate[i]
        BY <2>1 DEF DueSomewhere, AnswerDue, Queues
    <2>3. QED
        BY <1>2, <2>2, DueKept
<1>4. ASSUME NEW t \in Turns, TurnStep(t) PROVE Due'
    BY <1>2, <1>4, DueAdvance, DuePull, DueEnd, DueHandBack, DueDrop DEF TurnStep
<1>5. ASSUME NEW k \in Keys, Consume(k) PROVE Due'
    BY <1>2, <1>5, DueStop, DueCommand, DueFollowUp, DueOpener DEF Consume
<1>6. QED
    BY <1>1, <1>2, <1>3, <1>4, <1>5, DuePublish, DueReplay DEF Next

LEMMA DueInvariant == Spec => []Due
<1>1. Init => Due
    <2> SUFFICES ASSUME Init, NEW i \in Ids PROVE ~Queues(i) /\ \A t \in Turns : ~AnswerDue(t, i)
        BY DEF Due
    <2>1. /\ \A k \in Keys : bus[k] = <<>> /\ owed[k] = <<>> /\ journal[k] = <<>>
          /\ \A t \in Turns : /\ turn[t].inject = <<>> /\ turn[t].deferred = <<>> /\ turn[t].hand = <<>>
                              /\ turn[t].pc = "free"
        BY DEF Init, Nothing, Idle
    <2>2. QED
        BY <2>1, NoMessages DEF Queues, AnswerDue
<1>2. TypeOK /\ NoneOutlives /\ Routing /\ OnePlace /\ Due /\ [Next]_vars => Due'
    BY DueStep DEF OnePlace
<1>3. QED
    BY <1>1, <1>2, RoutingInvariant, OnePlaceInvariant, PTL DEF Spec

\* What a later turn could take is in the queues or due an answer.
LEMMA ToBeTakenIs ==
    ASSUME TypeOK, NEW i \in ToBeTaken
    PROVE  DueSomewhere(i)
<1>1. ASSUME i \in IdsIn(bus) \cup IdsIn(owed) \cup IdsIn(journal) PROVE Queues(i)
    BY <1>1 DEF IdsIn, Queues
<1>2. ASSUME NEW t \in Turns, i \in IdsOf(Queued(t) \o turn[t].hand) PROVE Queues(i)
    <2> DEFINE a == turn[t].inject
               b == turn[t].deferred
               c == turn[t].hand
    <2>1. a \in Seq(Message) /\ b \in Seq(Message) /\ c \in Seq(Message)
        BY MessagesOf
    <2>2. i \in IdsOf((a \o b) \o c)
        BY <1>2 DEF Queued
    <2> HIDE DEF a, b, c
    <2>3. a \o b \in Seq(Message) /\ IdsOf(a \o b) = IdsOf(a) \cup IdsOf(b)
        BY <2>1, Joined
    <2>4. IdsOf((a \o b) \o c) = IdsOf(a \o b) \cup IdsOf(c)
        BY <2>1, <2>3, Joined
    <2>5. i \in IdsOf(a) \cup IdsOf(b) \cup IdsOf(c)
        BY <2>2, <2>3, <2>4
    <2>6. QED
        BY <2>5 DEF Queues, a, b, c
<1>3. ASSUME NEW t \in Turns, Undisturbed(t, "created") \/ Undisturbed(t, "waiting"), i = turn[t].opener.id
      PROVE  AnswerDue(t, i)
    BY <1>3 DEF Undisturbed, AnswerDue
<1>4. QED
    BY <1>1, <1>2, <1>3 DEF ToBeTaken, DueSomewhere

\* A message that got its outcome is nowhere a later turn could take it from: up to
\* the first shutdown, no reply is given twice whatever /stop cancels, refusals and
\* full queues send back to the bus, and interceptors delay.
THEOREM AnsweredOnce == Spec => [](Fresh => SettledOnce)
<1>1. TypeOK /\ Due => (Fresh => SettledOnce)
    <2> SUFFICES ASSUME TypeOK, Due, Fresh, NEW i \in Ids, i \in ToBeTaken PROVE fate[i] = "owed"
        BY DEF SettledOnce, Outcomes
    <2>1. DueSomewhere(i)
        BY ToBeTakenIs
    <2>2. QED
        BY <2>1 DEF Due, DueSomewhere
<1>2. QED
    BY <1>1, DueInvariant, RoutingInvariant, PTL

\* A gateway that nobody restarts.
Serving == gateway \in {"starting", "serving"} /\ restarts = 0

LEMMA ServingInvariant == MaxRestarts = 0 => (Spec => []Serving)
<1> SUFFICES ASSUME MaxRestarts = 0 PROVE Spec => []Serving
    OBVIOUS
<1>1. Init => Serving
    BY DEF Init, Serving
<1>2. Serving /\ [Next]_vars => Serving'
    <2> SUFFICES ASSUME Serving, [Next]_vars PROVE Serving'
        OBVIOUS
    <2>1. ~StopIntake /\ ~BeginDrain /\ ~EndDrain /\ ~Restart
        <3>1. ~StopIntake
            BY DEF Serving, StopIntake
        <3>2. ~BeginDrain /\ gateway # "drained"
            BY DEF Serving, BeginDrain
        <3>3. ~EndDrain
            BY DEF Serving, EndDrain
        <3>4. QED
            BY <3>1, <3>2, <3>3 DEF Restart
    <2>2. CASE Replay
        BY <2>2 DEF Replay, Serving
    <2>3. ASSUME ~Replay PROVE UNCHANGED <<restarts, gateway>>
        BY <2>1, <2>3 DEF Next, vars, Publish, StopDone, Consume, ConsumeStop, ConsumeCommand, ConsumeFollowUp,
              ConsumeOpener, TurnStep, Begin, Run, Refuse, Leave, GiveBack, PullSteers, PullAll, Finish,
              UnwindBody, HandBack, UnwindHandBack, DropUnstarted
    <2>4. QED
        BY <2>2, <2>3 DEF Serving
<1>3. QED
    BY <1>1, <1>2, PTL DEF Spec

\* A gateway that nobody restarts gives no reply twice.
THEOREM RepliesOnce == MaxRestarts = 0 => (Spec => []SettledOnce)
<1> SUFFICES ASSUME MaxRestarts = 0 PROVE Spec => []SettledOnce
    OBVIOUS
<1>1. Serving => Fresh
    BY DEF Serving, Fresh, Early
<1>2. QED
    BY <1>1, ServingInvariant, AnsweredOnce, PTL

---------------------------------------------------------------------------
(* The loop keeps its ledger                                               *)

\* What a step does to the outcomes: a message is accepted, or messages that were
\* owed an answer get their outcome.
Settles ==
    \A i \in Ids : fate'[i] = fate[i] \/ (fate[i] = "owed" /\ fate'[i] \in Outcomes)

\* No task is cancelled while it hands its leftovers back.
HandsSpared == \A t \in Turns : turn[t].pc = "handback" => ~turn[t].doomed

LEMMA StepSettles ==
    ASSUME TypeOK, NoneOutlives, Once, Due, Serving, HandsSpared, [Next]_vars,
           ~\E k \in Keys, kind \in Kinds : Publish(k, kind)
    PROVE  Settles
<1>1. \A i \in Ids : DueSomewhere(i) => fate[i] = "owed"
    BY DEF Due, Serving, Fresh, Early, DueSomewhere
<1>2. ASSUME NEW t \in Turns, ~turn[t].doomed, turn[t].pc \in {"created", "waiting", "running"},
             NEW m \in Taken(t)
      PROVE  m.id \in Ids => fate[m.id] = "owed"
    <2>1. AnswerDue(t, m.id)
        BY <1>2, MessagesOf, IdsOfSet DEF AnswerDue, Taken
    <2>2. QED
        BY <1>1, <2>1 DEF DueSomewhere
<1>3. ASSUME NEW t \in Turns, Finish(t) PROVE Settles
    <2>1. \A j \in Ids : fate'[j] = IF \E m \in Taken(t) : m.id = j THEN "answered" ELSE fate[j]
        BY <1>3 DEF Finish, Settled
    <2>2. ~turn[t].doomed /\ turn[t].pc = "running"
        BY <1>3 DEF Finish, Undisturbed
    <2>3. \A m \in Taken(t) : m.id \in Ids => fate[m.id] = "owed"
        BY <1>2, <2>2
    <2>4. QED
        BY <2>1, <2>3 DEF Settles, Outcomes
<1>4. ASSUME NEW t \in Turns, Refuse(t) PROVE Settles
    <2>1. \A j \in Ids : fate'[j] = IF turn[t].opener.id = j THEN "answered" ELSE fate[j]
        BY <1>4 DEF Refuse, Settled
    <2>2. ~turn[t].doomed /\ turn[t].pc = "waiting"
        BY <1>4 DEF Refuse, Undisturbed
    <2>3. turn[t].opener \in Taken(t)
        BY DEF Taken
    <2>4. turn[t].opener.id \in Ids => fate[turn[t].opener.id] = "owed"
        BY <1>2, <2>2, <2>3
    <2>5. QED
        BY <2>1, <2>4 DEF Settles, Outcomes
<1>5. ASSUME NEW k \in Keys, ConsumeStop(k) PROVE Settles
    <2> DEFINE s == bus[k]
               S == UNION {Taken(t) : t \in ToSet(active[k]) \ Over}
    <2>1. \A i \in Ids : fate'[i] = IF Head(s).id = i THEN "answered"
                                    ELSE IF \E m \in S : m.id = i THEN "stopped" ELSE fate[i]
        <3>1. fate' = Settled({Head(s)}, "answered", Settled(S, "stopped", fate))
            BY <1>5 DEF ConsumeStop
        <3> HIDE DEF s, S
        <3>2. QED
            BY <3>1 DEF Settled
    <2>2. Head(s).id \in Ids => fate[Head(s).id] = "owed"
        <3>1. s # <<>> /\ s \in Seq(Message)
            BY <1>5, StopIs DEF TypeOK, Messages
        <3>2. Head(s).id \in IdsOf(s)
            BY <3>1, HeadTail
        <3>3. QED
            BY <1>1, <3>2 DEF DueSomewhere, Queues
    <2>3. \A m \in S : m.id \in Ids => fate[m.id] = "owed"
        <3>1. ASSUME NEW t \in ToSet(active[k]) \ Over, NEW m \in Taken(t)
              PROVE  m.id \in Ids => fate[m.id] = "owed"
            <4>1. t \in Turns /\ turn[t].pc # "free" /\ ~turn[t].doomed
                BY DEF NoneOutlives, ListedOK, TypeOK, ToSet
            <4>2. turn[t].pc \in {"created", "waiting", "running"}
                BY <4>1 DEF Over, TypeOK, Task, TurnType
            <4>3. QED
                BY <1>2, <4>1, <4>2
        <3>2. QED
            BY <3>1
    <2> HIDE DEF s, S
    <2>4. QED
        BY <2>1, <2>2, <2>3 DEF Settles, Outcomes
<1>8. ASSUME NEW k \in Keys, ConsumeCommand(k) PROVE Settles
    <2> DEFINE s == bus[k]
    <2>1. s # <<>> /\ s \in Seq(Message) /\ fate' = Settled({Head(s)}, "answered", fate)
        BY <1>8, CommandIs DEF TypeOK, Messages
    <2>2. Head(s).id \in IdsOf(s)
        BY <2>1, HeadTail
    <2>3. Head(s).id \in Ids => fate[Head(s).id] = "owed"
        BY <1>1, <2>2 DEF DueSomewhere, Queues
    <2> HIDE DEF s
    <2>4. \A j \in Ids : fate'[j] = IF Head(s).id = j THEN "answered" ELSE fate[j]
        BY <2>1 DEF Settled
    <2>5. QED
        BY <2>3, <2>4 DEF Settles, Outcomes
<1>9. ASSUME NEW t \in Turns, HandBack(t) PROVE Settles
    <2> DEFINE h == turn[t].hand
    <2>1. /\ turn[t].pc = "handback" /\ h # <<>> /\ h \in Seq(Message)
          /\ UNCHANGED fate \/ fate' = Settled({Head(h)}, "claimed", fate)
        BY <1>9, HandBackIs
    <2>2. Head(h).id \in IdsOf(h)
        BY <2>1, HeadTail
    <2>3. Head(h).id \in Ids => fate[Head(h).id] = "owed"
        BY <1>1, <2>1, <2>2 DEF DueSomewhere, Queues
    <2> HIDE DEF h
    <2>4. CASE UNCHANGED fate
        BY <2>4 DEF Settles
    <2>5. CASE fate' = Settled({Head(h)}, "claimed", fate)
        <3>1. \A j \in Ids : fate'[j] = IF Head(h).id = j THEN "claimed" ELSE fate[j]
            BY <2>5 DEF Settled
        <3>2. QED
            BY <2>3, <3>1 DEF Settles, Outcomes
    <2>6. QED
        BY <2>1, <2>4, <2>5
<1>6. ASSUME ~\E t \in Turns : Finish(t) \/ Refuse(t) \/ HandBack(t),
             ~\E k \in Keys : ConsumeStop(k) \/ ConsumeCommand(k)
      PROVE  fate' = fate
    <2>1. ~BeginDrain /\ ~EndDrain /\ ~Restart /\ ~\E t \in Turns : UnwindHandBack(t)
        BY DEF Serving, BeginDrain, EndDrain, Restart, HandsSpared, UnwindHandBack
    <2>2. CASE StopDone \/ StopIntake \/ Replay \/ UNCHANGED vars
        BY <2>2 DEF StopDone, StopIntake, Replay, vars
    <2>3. ASSUME NEW t \in Turns, TurnStep(t) PROVE fate' = fate
        BY <1>6, <2>1, <2>3 DEF TurnStep, Begin, Run, Leave, PullSteers, PullAll,
              UnwindBody, DropUnstarted
    <2>4. ASSUME NEW k \in Keys, Consume(k) PROVE fate' = fate
        BY <1>6, <2>4 DEF Consume, ConsumeFollowUp, ConsumeOpener
    <2>5. QED
        BY <2>1, <2>2, <2>3, <2>4 DEF Next
<1>7. QED
    BY <1>3, <1>4, <1>5, <1>6, <1>8, <1>9 DEF Settles

\* What the sender is told of a message that is not lost.
Shown(f) == IF f \in Outcomes \cup {"again"} THEN "settled" ELSE f

LEMMA LedgerStep ==
    ASSUME TypeOK, NoneOutlives, OnePlace, Due, Serving, HandsSpared, [Next]_vars, Lost = {}, Lost' = {}
    PROVE  [Ledger!Next]_([i \in Ids |-> IF i \in Lost THEN "lost"
                                         ELSE IF fate[i] \in Outcomes \cup {"again"} THEN "settled"
                                         ELSE fate[i]])
<1> DEFINE L == [i \in Ids |-> IF i \in Lost THEN "lost"
                               ELSE IF fate[i] \in Outcomes \cup {"again"} THEN "settled" ELSE fate[i]]
<1>1. L = [i \in Ids |-> Shown(fate[i])] /\ L' = [i \in Ids |-> Shown(fate'[i])]
    BY DEF Shown
<1>2. ASSUME NEW k \in Keys, NEW kind \in Kinds, Publish(k, kind)
      PROVE  Ledger!Next
    <2> DEFINE n == Cardinality(Sent) + 1
    <2>1. n \in Ids /\ Cardinality(Sent) \in Nat
        BY <1>2, SentCounted, SizesAssumption DEF Publish, Ids
    <2>2. n \notin Sent
        BY <2>1 DEF OnePlace, InOrder
    <2>3. fate[n] = "unsent" /\ fate' = [fate EXCEPT ![n] = "owed"] /\ fate \in [Ids -> Fates]
        BY <1>2, <2>1, <2>2 DEF Publish, Sent, TypeOK
    <2> HIDE DEF n
    <2>4. L[n] = "unsent" /\ L' = [L EXCEPT ![n] = "owed"]
        <3>1. fate'[n] = "owed" /\ \A i \in Ids : i # n => fate'[i] = fate[i]
            BY <2>1, <2>3
        <3> HIDE DEF L
        <3>2. L[n] = "unsent"
            BY <1>1, <2>1, <2>3 DEF Shown, Outcomes
        <3>3. \A i \in Ids : L'[i] = IF i = n THEN "owed" ELSE L[i]
            BY <1>1, <3>1 DEF Shown, Outcomes
        <3>4. L' = [i \in Ids |-> L'[i]] /\ L = [i \in Ids |-> L[i]]
            BY <1>1
        <3>5. QED
            BY <2>1, <3>2, <3>3, <3>4
    <2>5. QED
        BY <2>1, <2>4 DEF Ledger!Next, Ledger!Accept
<1>3. ASSUME Settles PROVE Ledger!Next \/ L' = L
    <2> DEFINE S == {i \in Ids : fate'[i] # fate[i]}
    <2>1. \A i \in Ids : L[i] = Shown(fate[i]) /\ L'[i] = Shown(fate'[i])
        BY <1>1
    <2>2. \A i \in S : L[i] = "owed" /\ L'[i] = "settled"
        BY <1>3, <2>1 DEF Settles, Shown, Outcomes
    <2>3. \A i \in Ids \ S : L'[i] = L[i]
        BY <2>1
    <2>4. L' = [i \in Ids |-> IF i \in S THEN "settled" ELSE L[i]]
        <3>1. L' = [i \in Ids |-> L'[i]]
            BY <1>1
        <3> HIDE DEF L, S
        <3>2. QED
            BY <2>2, <2>3, <3>1
    <2>5. CASE S = {}
        <3>1. L = [i \in Ids |-> L[i]]
            BY <1>1
        <3> HIDE DEF L, S
        <3>2. QED
            BY <2>4, <2>5, <3>1
    <2>6. CASE S # {}
        <3>1. S \in SUBSET Ids
            OBVIOUS
        <3>2. QED
            BY <2>2, <2>4, <2>6, <3>1 DEF Ledger!Next, Ledger!SettleAll
    <2>7. QED
        BY <2>5, <2>6
<1>4. Ledger!Next \/ L' = L
    BY <1>2, <1>3, StepSettles DEF OnePlace
<1>5. QED
    BY <1>4

\* Nothing is cut off, dropped or missed.
NoFailures == \A i \in Ids : fate[i] \notin Failures

LEMMA NoFailuresStep ==
    ASSUME TypeOK, NoneOutlives, OnePlace, Due, Serving, HandsSpared, NoFailures, [Next]_vars
    PROVE  NoFailures'
<1>1. ASSUME NEW k \in Keys, NEW kind \in Kinds, Publish(k, kind) PROVE NoFailures'
    <2>1. fate \in [Ids -> Fates] /\ \E n : fate' = [fate EXCEPT ![n] = "owed"]
        BY <1>1 DEF Publish, TypeOK
    <2>2. QED
        BY <2>1 DEF NoFailures, Failures
<1>2. ASSUME Settles PROVE NoFailures'
    BY <1>2 DEF Settles, NoFailures, Failures, Outcomes
<1>3. QED
    BY <1>1, <1>2, StepSettles DEF OnePlace

\* Until the gateway stops, whatever came in is answered, or waits, or is in the
\* hands of a turn.
LEMMA NothingLostInvariant ==
    MaxRestarts = 0 => (Spec /\ []RoomLeft /\ []HandsSpared => []NothingLost)
<1> SUFFICES ASSUME MaxRestarts = 0
             PROVE  Spec /\ []RoomLeft /\ []HandsSpared => []NothingLost
    OBVIOUS
<1>1. Init => NoFailures
    BY DEF Init, NoFailures, Failures
<1>2. TypeOK /\ NoneOutlives /\ OnePlace /\ Due /\ Serving /\ HandsSpared /\ NoFailures /\ [Next]_vars
        => NoFailures'
    BY NoFailuresStep
<1>3. WaitingKept /\ NoFailures => NothingLost
    BY DEF WaitingKept, NoFailures, NothingLost, Lost
<1>4. Spec => []Serving
    BY ServingInvariant
<1>5. QED
    BY <1>1, <1>2, <1>3, <1>4, WaitingIsKept, RoutingInvariant, OnePlaceInvariant, DueInvariant,
       PTL DEF Spec

\* The inbound path, until its gateway stops, is the ledger of MessageLedger: every
\* message accepted is owed one outcome, and no step of the loop, of a turn or of
\* /stop drops it, settles it twice or takes its outcome back.  It takes that no queue is
\* full when a message is taken off the bus, and that no /stop or /new gets in between
\* the leftovers of a turn: both are cases in which the code does lose a message.
THEOREM LedgerIsKept ==
    MaxRestarts = 0 => (Spec /\ []RoomLeft /\ []HandsSpared => KeepsLedger)
<1> SUFFICES ASSUME MaxRestarts = 0
             PROVE  Spec /\ []RoomLeft /\ []HandsSpared => KeepsLedger
    OBVIOUS
<1>1. Init /\ NothingLost => Ledger!Init
    BY DEF Init, NothingLost, Ledger!Init, Outcomes
<1>2. TypeOK /\ NoneOutlives /\ OnePlace /\ Due /\ Serving /\ HandsSpared
        /\ NothingLost /\ NothingLost' /\ [Next]_vars
        => [Ledger!Next]_([i \in Ids |-> IF i \in Lost THEN "lost"
                                         ELSE IF fate[i] \in Outcomes \cup {"again"} THEN "settled"
                                         ELSE fate[i]])
    BY LedgerStep DEF NothingLost
<1>3. Spec /\ []RoomLeft /\ []HandsSpared => []NothingLost
    BY NothingLostInvariant
<1>4. Spec => []Serving
    BY ServingInvariant
<1>5. QED
    BY <1>1, <1>2, <1>3, <1>4, RoutingInvariant, OnePlaceInvariant, DueInvariant,
       PTL DEF Spec, KeepsLedger, Ledger!Spec

===========================================================================
