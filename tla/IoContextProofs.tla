--------------------------- MODULE IoContextProofs ---------------------------
(***************************************************************************)
(* Proofs about IoContext for every number of threads and implementations. *)
(* asio uses its scheduler as Scheduler.tla allows, so the scheduler's own *)
(* theorems hold; operations, chains and strands are conserved; run()      *)
(* never runs out of work; and no edge of epoll's is lost.                 *)
(***************************************************************************)
EXTENDS IoContext, SchedulerProofs, CountingProofs

-----------------------------------------------------------------------------
(* The invariant *)

\* Where a thread can be while it completes an operation, and what it then owes
\* the scheduler: an operation started or completed with another one while it
\* is entered, an implementation once it has invoked a handler.
ThreadPlace(t) ==
  /\ pc[t] # "complete" => step[t] = "cleanup"
  /\ step[t] = "cleanup" <=> completing[t] = None
  /\ step[t] = "cleanup" => due[t] = None
  /\ step[t] \in {"body", "leave", "finish"} => completing[t] \in ReactorOp
  /\ due[t] \in ReactorOp =>
       step[t] = "enter" /\ completing[t] \in Impl \cup ReactorOp
  /\ due[t] \in Impl => step[t] \in {"leave", "finish"}
  /\ due[t] # Descriptor
ThreadPlaces == \A t \in Thread : ThreadPlace(t)

\* What a thread's thread_info holds until the cleanup that follows.
PrivatePart(t) ==
  /\ \/ private_op_queue[t] = <<>>
     \/ pc[t] = "task_exit" /\ private_op_queue[t] = <<Descriptor>>
     \/ /\ pc[t] = "complete" /\ step[t] = "cleanup"
        /\ private_outstanding_work[t] = 1
        /\ \E i \in Impl : private_op_queue[t] = <<i>>
  /\ private_outstanding_work[t] \in {0, 1}
  /\ private_outstanding_work[t] = 1 => pc[t] = "complete" /\ step[t] = "cleanup"
PrivateParts == \A t \in Thread : PrivatePart(t)

\* The owner posts before the threads start, and destroys when they are done.
Posting == {"post_read", "post_write"}
Closed  == {"close", "shutdown", "destroyed"}

OwnerPlace ==
  /\ owner \in Posting \/ due[Owner] # None => \A t \in Thread : pc[t] = "idle"
  /\ due[Owner] # None => owner \in {"post_write", "running"} /\ due[Owner] \in Impl
  /\ owner \in Closed => \A t \in Thread : pc[t] = "done"
  /\ owner \in {"shutdown", "destroyed"} => op_queues = {}
  /\ owner = "destroyed" => op_queue_ = <<>>

\* A handler waits in the implementation of its strand.
PlacedIn(q, i) == \A n \in DOMAIN q : impl_[StrandOf(q[n])] = i
HandlersPlaced == \A i \in Impl :
  PlacedIn(ready_queue_[i], i) /\ PlacedIn(waiting_queue_[i], i)

\* The descriptor is queued once, and taken before the task can be.
DescriptorFirst(q) ==
  /\ \A m, n \in DOMAIN q : q[m] = Descriptor /\ q[n] = Descriptor => m = n
  /\ \A n \in DOMAIN q : q[n] = Descriptor =>
       \E m \in DOMAIN q : n < m /\ q[m] = Task

\* An implementation nobody has locked has no handlers.
UnlockedEmpty == \A i \in Impl :
  ~locked_[i] => ready_queue_[i] = <<>> /\ waiting_queue_[i] = <<>>

PlaceInv == ThreadPlaces /\ PrivateParts /\ OwnerPlace /\ HandlersPlaced
              /\ UnlockedEmpty /\ DescriptorFirst(op_queue_)

\* A strand's lock is what it is scheduled by, or what its holder has.
Held(i) == Cardinality({t \in Thread : Holds(t, i)})

StrandLocks == \A i \in Impl :
  owner # "destroyed" => Links(i) + Held(i) = In(TRUE, {locked_[i]})

\* How much counted work thread t has taken from the queues and not given back.
Weight(t) ==
  IF pc[t] # "complete" THEN 0
  ELSE IF step[t] = "cleanup"
       THEN IF private_op_queue[t] = <<>> THEN 1 - private_outstanding_work[t]
                                          ELSE 1
  ELSE IF completing[t] = Descriptor THEN 0
  ELSE IF completing[t] \in Impl THEN IF due[t] = None THEN 1 ELSE 2
  ELSE IF due[t] \in ReactorOp THEN 4 ELSE 2

Heavy(k) == {t \in Thread : Weight(t) >= k}
Carried  == Cardinality(Heavy(1)) + Cardinality(Heavy(2))
              + Cardinality(Heavy(3)) + Cardinality(Heavy(4))

\* outstanding_work_ until run() is stopped: one for each scheduling of a strand,
\* two for each operation on the socket.
WorkCounted == owner \in Posting \cup {"running"} =>
  outstanding_work_ = Count(op_queue_, Impl) + 2 * Count(op_queue_, ReactorOp)
                        + 2 * Cardinality(op_queues) + Carried

CountInv == StrandLocks /\ ChainsAreWhole /\ WorkCounted /\ WorkLasts

IoInv == PlaceInv /\ CountInv

-----------------------------------------------------------------------------
(* What one actor changes *)

\* Where op is counted in what c has to itself.
Alone(f, c, op) == IF c \in Thread /\ f[c] = <<op>> THEN 1 ELSE 0
Own(c, op) == Alone(private_op_queue, c, op) + In(op, {due[c]})

Pairs(f, op) == {p \in Thread \X (1 .. 2) : /\ p[2] \in DOMAIN f[p[1]]
                                            /\ f[p[1]][p[2]] = op}
Short(q) == q = <<>> \/ q = <<q[1]>>

Dues(op) == {c \in Caller : due[c] = op}
Dispatching(op) == {t \in Thread : /\ completing[t] = op
                                   /\ step[t] \in {"enter", "body"}}
Dispatched(op) == Cardinality(Dispatching(op))
Holders(i) == {t \in Thread : Holds(t, i)}

Stays(u) == pc'[u] = pc[u] \/ (pc[u] = "blocked" /\ pc'[u] = "woken")

\* All but c stay where they are, or are woken.
OthersStay(c) ==
  /\ \A u \in Thread \ {c} :
       /\ Stays(u)
       /\ step'[u] = step[u] /\ completing'[u] = completing[u]
       /\ private_op_queue'[u] = private_op_queue[u]
       /\ private_outstanding_work'[u] = private_outstanding_work[u]
  /\ \A d \in Caller \ {c} : due'[d] = due[d]

LEMMA FiniteThreads == IsFiniteSet(Thread) /\ IsFiniteSet(Caller)
BY IoContextAssumption, FS_Union, FS_Singleton DEF Caller

LEMMA PairsChange ==
  ASSUME NEW f, NEW g, NEW c, NEW op,
         \A t \in Thread : Short(f[t]) /\ Short(g[t]),
         \A t \in Thread \ {c} : g[t] = f[t]
  PROVE  /\ IsFiniteSet(Pairs(f, op))
         /\ Cardinality(Pairs(f, op)) \in Nat /\ Cardinality(Pairs(g, op)) \in Nat
         /\ Cardinality(Pairs(g, op)) =
              Cardinality(Pairs(f, op)) + Alone(g, c, op) - Alone(f, c, op)
<1>1. ASSUME NEW h, \A t \in Thread : Short(h[t])
      PROVE  /\ \A p \in Pairs(h, op) : p = <<p[1], 1>>
             /\ \A t : <<t, 1>> \in Pairs(h, op) <=> t \in Thread /\ h[t] = <<op>>
             /\ IsFiniteSet(Pairs(h, op))
  <2>1. \A t \in Thread, n \in 1 .. 2 :
          n \in DOMAIN h[t] => n = 1 /\ h[t] = <<h[t][1]>>
    BY <1>1 DEF Short
  <2>2. ASSUME NEW t
        PROVE  <<t, 1>> \in Pairs(h, op) <=> t \in Thread /\ h[t] = <<op>>
    BY <2>1 DEF Pairs
  <2>3. ASSUME NEW p \in Pairs(h, op) PROVE p = <<p[1], 1>>
    BY <2>1 DEF Pairs
  <2>4. IsFiniteSet(Thread \X (1 .. 2))
    <3>1. IsFiniteSet({1})
      BY FS_Singleton
    <3>2. {1} \cup {2} = 1 .. 2
      OBVIOUS
    <3>3. IsFiniteSet({1} \cup {2})
      BY <3>1, FS_AddElement
    <3>. QED
      BY <3>2, <3>3, FiniteThreads, FS_Product
  <2>5. Pairs(h, op) \in SUBSET (Thread \X (1 .. 2))
    BY DEF Pairs
  <2>. QED
    BY <2>2, <2>3, <2>4, <2>5, FS_Subset
<1>2. Pairs(f, op) \ {<<c, 1>>} = Pairs(g, op) \ {<<c, 1>>}
  BY <1>1
<1>3. /\ Cardinality(Pairs(f, op)) \in Nat /\ Cardinality(Pairs(g, op)) \in Nat
      /\ Cardinality(Pairs(g, op)) = Cardinality(Pairs(f, op))
           + In(<<c, 1>>, Pairs(g, op)) - In(<<c, 1>>, Pairs(f, op))
  BY <1>1, <1>2, OneChanges
<1>. QED
  BY <1>1, <1>3 DEF In, Alone

\* What an actor changes about an operation's links is what it changes in the
\* scheduler's and the descriptor's queues and in what it has to itself.
LEMMA LinksStep ==
  ASSUME PrivateParts, PrivateParts', op_queues \subseteq ReactorOp,
         op_queues' \subseteq ReactorOp, op_queue_ \in Seq(Entry),
         op_queue_' \in Seq(Entry), NEW c \in Caller, OthersStay(c), NEW op
  PROVE  /\ Links(op) \in Nat /\ Links(op)' \in Nat
         /\ Links(op)' = Links(op)
              + Count(op_queue_', {op}) - Count(op_queue_, {op})
              + Own(c, op)' - Own(c, op)
              + In(op, op_queues') - In(op, op_queues)
<1>. DEFINE q  == Cardinality(Pairs(private_op_queue, op))
            q1 == Cardinality(Pairs(private_op_queue', op))
            d  == Cardinality(Dues(op))
            d1 == Cardinality(Dues(op)')
            k  == Count(op_queue_, {op})
            k1 == Count(op_queue_', {op})
<1>1. /\ q \in Nat /\ q1 \in Nat
      /\ q1 = q + Alone(private_op_queue', c, op) - Alone(private_op_queue, c, op)
  <2>1. \A t \in Thread : Short(private_op_queue[t]) /\ Short(private_op_queue'[t])
    BY DEF PrivateParts, PrivatePart, Short
  <2>2. \A t \in Thread \ {c} : private_op_queue'[t] = private_op_queue[t]
    BY DEF OthersStay
  <2>. QED
    BY <2>1, <2>2, PairsChange
<1>2. /\ d \in Nat /\ d1 \in Nat
      /\ d1 = d + In(op, {due'[c]}) - In(op, {due[c]})
  <2>2. Dues(op) \in SUBSET Caller /\ Dues(op) \ {c} = Dues(op)' \ {c}
    BY DEF Dues, OthersStay
  <2>3. IsFiniteSet(Dues(op))
    BY <2>2, FS_Subset, FiniteThreads
  <2>4. d \in Nat /\ d1 \in Nat /\ d1 = d + In(c, Dues(op)') - In(c, Dues(op))
    BY <2>2, <2>3, OneChanges
  <2>. QED
    BY <2>4 DEF In, Dues
<1>3. k \in Nat /\ k1 \in Nat
  BY CountType
<1>. DEFINE r  == Cardinality(op_queues \cap {op})
            r1 == Cardinality(op_queues' \cap {op})
<1>4. r = In(op, op_queues) /\ r1 = In(op, op_queues') /\ r \in Nat /\ r1 \in Nat
  <2>1. ASSUME NEW ops PROVE Cardinality(ops \cap {op}) = In(op, ops)
    <3>1. ops \cap {op} = IF op \in ops THEN {op} ELSE {}
      OBVIOUS
    <3>2. Cardinality({op}) = 1 /\ Cardinality({}) = 0
      BY FS_EmptySet, FS_Singleton
    <3>. QED
      BY <3>1, <3>2 DEF In
  <2>. QED
    BY <2>1 DEF In
<1>5. Links(op) = k + q + d + r /\ Links(op)' = k1 + q1 + d1 + r1
  BY DEF Links, Pairs, Dues
<1>. DEFINE o  == Own(c, op)
            o1 == Own(c, op)'
            a  == Alone(private_op_queue, c, op)
            a1 == Alone(private_op_queue', c, op)
            e  == In(op, {due[c]})
            e1 == In(op, {due'[c]})
<1>6. /\ o = a + e /\ o1 = a1 + e1
      /\ a \in Nat /\ a1 \in Nat /\ e \in Nat /\ e1 \in Nat
  BY DEF Own, Alone, In
<1>. DEFINE n  == Links(op)
            n1 == Links(op)'
<1>7. n = k + q + d + r /\ n1 = k1 + q1 + d1 + r1
  BY <1>5
<1>8. q1 = q + a1 - a /\ d1 = d + e1 - e
  BY <1>1, <1>2
<1>9. /\ q \in Nat /\ q1 \in Nat /\ d \in Nat /\ d1 \in Nat
      /\ k \in Nat /\ k1 \in Nat /\ r \in Nat /\ r1 \in Nat
  BY <1>1, <1>2, <1>3, <1>4
<1>. HIDE DEF q, q1, d, d1, k, k1, r, r1, o, o1, a, a1, e, e1, n, n1
<1>10. n \in Nat /\ n1 \in Nat /\ n1 = n + k1 - k + o1 - o + r1 - r
  BY <1>6, <1>7, <1>8, <1>9
<1>. QED
  BY <1>4, <1>10 DEF k, k1, o, o1, n, n1

\* Who holds a strand's implementation, and who dispatches an operation.
LEMMA HoldersStep ==
  ASSUME NEW c \in Caller, OthersStay(c), impl_' = impl_, NEW x
  PROVE  /\ Held(x) \in Nat /\ Held(x)' \in Nat
         /\ Held(x)' = Held(x) + In(c, Holders(x)') - In(c, Holders(x))
         /\ Dispatched(x) \in Nat /\ Dispatched(x)' \in Nat
         /\ Dispatched(x)' = Dispatched(x) + In(c, Dispatching(x)')
                                - In(c, Dispatching(x))
<1>1. /\ Holders(x) \in SUBSET Thread /\ Dispatching(x) \in SUBSET Thread
      /\ Holders(x) \ {c} = Holders(x)' \ {c}
      /\ Dispatching(x) \ {c} = Dispatching(x)' \ {c}
  BY DEF Holders, Holds, Dispatching, OthersStay
<1>2. IsFiniteSet(Holders(x)) /\ IsFiniteSet(Dispatching(x))
  BY <1>1, FS_Subset, FiniteThreads
<1>3. /\ Held(x) \in Nat /\ Held(x)' \in Nat
      /\ Held(x)' = Held(x) + In(c, Holders(x)') - In(c, Holders(x))
  BY <1>1, <1>2, OneChanges DEF Held, Holders
<1>4. /\ Dispatched(x) \in Nat /\ Dispatched(x)' \in Nat
      /\ Dispatched(x)' = Dispatched(x) + In(c, Dispatching(x)')
                            - In(c, Dispatching(x))
  BY <1>1, <1>2, OneChanges DEF Dispatched
<1>. QED
  BY <1>3, <1>4

\* The work a caller carries: the owner none.
Load(c) == IF c \in Thread THEN Weight(c) ELSE 0

LEMMA CarriedStep ==
  ASSUME PrivateParts, PrivateParts', NEW c \in Caller, OthersStay(c)
  PROVE  /\ Carried \in Nat /\ Carried' \in Nat
         /\ Load(c) \in Nat /\ Load(c)' \in Nat
         /\ Carried' = Carried + Load(c)' - Load(c)
<1>1. \A t \in Thread : Weight(t) \in 0 .. 4
  BY DEF Weight, PrivateParts, PrivatePart
<1>2. \A t \in Thread : Weight(t)' \in 0 .. 4
  BY DEF Weight, PrivateParts, PrivatePart
<1>3. \A u \in Thread \ {c} : Weight(u)' = Weight(u)
  <2>. SUFFICES ASSUME NEW u \in Thread \ {c} PROVE Weight(u)' = Weight(u)
    OBVIOUS
  <2>1. /\ pc'[u] = "complete" <=> pc[u] = "complete"
        /\ step'[u] = step[u] /\ completing'[u] = completing[u]
        /\ private_op_queue'[u] = private_op_queue[u]
        /\ private_outstanding_work'[u] = private_outstanding_work[u]
        /\ due'[u] = due[u]
    BY DEF OthersStay, Stays, Caller
  <2>. QED
    BY <2>1 DEF Weight
<1>4. ASSUME NEW k \in 1 .. 4
      PROVE  /\ Cardinality(Heavy(k)) \in Nat /\ Cardinality(Heavy(k)') \in Nat
             /\ Cardinality(Heavy(k)') =
                  Cardinality(Heavy(k)) + In(c, Heavy(k)') - In(c, Heavy(k))
  <2>1. Heavy(k) \in SUBSET Thread /\ Heavy(k) \ {c} = Heavy(k)' \ {c}
    BY <1>3 DEF Heavy
  <2>2. IsFiniteSet(Heavy(k))
    BY <2>1, FS_Subset, FiniteThreads
  <2>. QED
    BY <2>1, <2>2, OneChanges
<1>5. Load(c) = In(c, Heavy(1)) + In(c, Heavy(2)) + In(c, Heavy(3)) + In(c, Heavy(4))
  BY <1>1 DEF Load, Heavy, In
<1>6. Load(c)' = In(c, Heavy(1)') + In(c, Heavy(2)') + In(c, Heavy(3)')
                   + In(c, Heavy(4)')
  BY <1>2 DEF Load, Heavy, In
<1>7. Load(c) \in Nat /\ Load(c)' \in Nat
  BY <1>1, <1>2 DEF Load
<1>8. \A S : In(c, S) \in Nat
  BY DEF In
<1>. QED
  BY <1>4, <1>5, <1>6, <1>7, <1>8 DEF Carried

-----------------------------------------------------------------------------
(* The strands *)

HandlersOf(s) == {h \in Handler : StrandOf(h) = s}

StrandInv == /\ StrandTypeOK /\ impl_ \in [Strand -> Impl]
             /\ HandlersPlaced /\ UnlockedEmpty

LEMMA PlacedQueues ==
  ASSUME NEW q \in Seq(Handler), NEW i, PlacedIn(q, i)
  PROVE  /\ \A h \in Handler : impl_[StrandOf(h)] = i => PlacedIn(Append(q, h), i)
         /\ \A r \in Seq(Handler) : PlacedIn(r, i) => PlacedIn(q \o r, i)
         /\ q # <<>> => impl_[StrandOf(Head(q))] = i /\ PlacedIn(Tail(q), i)
<1>1. Len(q) \in Nat /\ DOMAIN q = 1 .. Len(q)
  OBVIOUS
<1>2. ASSUME NEW r \in Seq(Handler), PlacedIn(r, i) PROVE PlacedIn(q \o r, i)
  <2>1. /\ DOMAIN (q \o r) = 1 .. Len(q) + Len(r)
        /\ \A n \in 1 .. Len(q) + Len(r) :
             (q \o r)[n] = IF n <= Len(q) THEN q[n] ELSE r[n - Len(q)]
    BY ConcatProperties
  <2>2. Len(r) \in Nat /\ DOMAIN r = 1 .. Len(r)
    OBVIOUS
  <2>3. ASSUME NEW n \in 1 .. Len(q) + Len(r)
        PROVE  impl_[StrandOf((q \o r)[n])] = i
    <3>1. CASE n <= Len(q)
      BY <1>1, <2>1, <2>3, <3>1 DEF PlacedIn
    <3>2. CASE ~(n <= Len(q))
      <4>1. n - Len(q) \in DOMAIN r
        BY <1>1, <2>2, <2>3, <3>2
      <4>. QED
        BY <1>2, <2>1, <2>3, <3>2, <4>1 DEF PlacedIn
    <3>. QED
      BY <3>1, <3>2
  <2>. QED
    BY <2>1, <2>3 DEF PlacedIn
<1>3. ASSUME NEW h \in Handler, impl_[StrandOf(h)] = i
      PROVE  PlacedIn(Append(q, h), i)
  <2>1. <<h>> \in Seq(Handler) /\ Append(q, h) = q \o <<h>>
    OBVIOUS
  <2>2. PlacedIn(<<h>>, i)
    BY <1>3 DEF PlacedIn
  <2>. QED
    BY <1>2, <2>1, <2>2
<1>4. ASSUME q # <<>>
      PROVE  impl_[StrandOf(Head(q))] = i /\ PlacedIn(Tail(q), i)
  <2>1. /\ Tail(q) \in Seq(Handler) /\ Len(Tail(q)) = Len(q) - 1
        /\ \A n \in 1 .. Len(Tail(q)) : Tail(q)[n] = q[n + 1]
    BY <1>4, HeadTailProperties
  <2>2. Len(q) \in Nat \ {0} /\ Head(q) = q[1] /\ 1 \in DOMAIN q
    BY <1>1, <1>4
  <2>3. DOMAIN Tail(q) = 1 .. Len(q) - 1
    BY <2>1
  <2>4. \A n \in DOMAIN Tail(q) : n + 1 \in DOMAIN q /\ Tail(q)[n] = q[n + 1]
    BY <1>1, <2>1, <2>2, <2>3
  <2>. QED
    BY <2>2, <2>4 DEF PlacedIn
<1>. QED
  BY <1>2, <1>3, <1>4

\* The queues of one implementation change: what that does to the handlers
\* posted through each strand.
LEMMA QueuesStep ==
  ASSUME StrandInv, impl_' = impl_, NEW i \in Impl,
         locked_' \in [Impl -> BOOLEAN],
         NEW ready \in Seq(Handler), NEW waiting \in Seq(Handler),
         ready_queue_' = [ready_queue_ EXCEPT ![i] = ready],
         waiting_queue_' = [waiting_queue_ EXCEPT ![i] = waiting],
         PlacedIn(ready, i), PlacedIn(waiting, i),
         \A j \in Impl \ {i} : locked_'[j] = locked_[j],
         ~locked_'[i] => ready = <<>> /\ waiting = <<>>
  PROVE  /\ StrandInv'
         /\ \A s \in Strand :
              /\ Posted(s) \in Nat /\ Posted(s)' \in Nat
              /\ impl_[s] # i => Posted(s)' = Posted(s)
              /\ impl_[s] = i =>
                   /\ Posted(s) = Count(ready_queue_[i], HandlersOf(s))
                                     + Count(waiting_queue_[i], HandlersOf(s))
                   /\ Posted(s)' = Count(ready, HandlersOf(s))
                                      + Count(waiting, HandlersOf(s))
<1>1. /\ ready_queue_ \in [Impl -> Seq(Handler)]
      /\ waiting_queue_ \in [Impl -> Seq(Handler)] /\ impl_ \in [Strand -> Impl]
  BY IoContextAssumption DEF StrandInv, StrandTypeOK
<1>2. /\ ready_queue_' \in [Impl -> Seq(Handler)]
      /\ waiting_queue_' \in [Impl -> Seq(Handler)] /\ impl_' \in [Strand -> Impl]
      /\ ready_queue_'[i] = ready /\ waiting_queue_'[i] = waiting
      /\ \A j \in Impl \ {i} : /\ ready_queue_'[j] = ready_queue_[j]
                               /\ waiting_queue_'[j] = waiting_queue_[j]
  BY <1>1
<1>3. HandlersPlaced'
  BY <1>2 DEF StrandInv, HandlersPlaced, PlacedIn
<1>4. UnlockedEmpty'
  BY <1>2 DEF StrandInv, UnlockedEmpty
<1>5. StrandInv'
  BY <1>2, <1>3, <1>4, IoContextAssumption DEF StrandInv, StrandTypeOK
<1>6. ASSUME NEW s \in Strand
      PROVE  /\ Posted(s) \in Nat /\ Posted(s)' \in Nat
             /\ impl_[s] # i => Posted(s)' = Posted(s)
             /\ impl_[s] = i =>
                  /\ Posted(s) = Count(ready_queue_[i], HandlersOf(s))
                                    + Count(waiting_queue_[i], HandlersOf(s))
                  /\ Posted(s)' = Count(ready, HandlersOf(s))
                                     + Count(waiting, HandlersOf(s))
  <2>. DEFINE j == impl_[s]
              H == HandlersOf(s)
  <2>1. /\ j \in Impl
        /\ ready_queue_[j] \in Seq(Handler) /\ waiting_queue_[j] \in Seq(Handler)
        /\ ready_queue_'[j] \in Seq(Handler) /\ waiting_queue_'[j] \in Seq(Handler)
    BY <1>1, <1>2
  <2>2. /\ Posted(s) = Count(ready_queue_[j], H) + Count(waiting_queue_[j], H)
        /\ Posted(s)' = Count(ready_queue_'[j], H) + Count(waiting_queue_'[j], H)
    BY DEF Posted, HandlersOf
  <2>. HIDE DEF H
  <2>3. /\ Count(ready_queue_[j], H) \in Nat /\ Count(waiting_queue_[j], H) \in Nat
        /\ Count(ready_queue_'[j], H) \in Nat
        /\ Count(waiting_queue_'[j], H) \in Nat
    BY <2>1, CountType
  <2>4. Posted(s) \in Nat /\ Posted(s)' \in Nat
    BY <2>2, <2>3
  <2>5. j # i => Posted(s)' = Posted(s)
    BY <1>2, <2>1, <2>2
  <2>6. j = i => /\ Posted(s) = Count(ready_queue_[i], H) + Count(waiting_queue_[i], H)
                 /\ Posted(s)' = Count(ready, H) + Count(waiting, H)
    BY <1>2, <2>2
  <2>. QED
    BY <2>4, <2>5, <2>6 DEF H
<1>. QED
  BY <1>5, <1>6

LEMMA InHandlersOf ==
  ASSUME NEW h \in Handler, NEW s
  PROVE  In(h, HandlersOf(s)) = In(s, {StrandOf(h)})
BY DEF In, HandlersOf

\* A handler is posted: it waits, or is ready with the strand's lock.
LEMMA PostsStep ==
  ASSUME StrandInv, impl_' = impl_, NEW i \in Impl, NEW h \in Handler,
         impl_[StrandOf(h)] = i,
         \/ enqueue_waiting(i, h)
         \/ acquire_ready(i, h)
  PROVE  /\ StrandInv' /\ locked_'[i]
         /\ \A s \in Strand :
              /\ Posted(s) \in Nat /\ Posted(s)' \in Nat
              /\ Posted(s)' = Posted(s) + In(s, {StrandOf(h)})
<1>1. /\ ready_queue_[i] \in Seq(Handler) /\ waiting_queue_[i] \in Seq(Handler)
      /\ ready_queue_ \in [Impl -> Seq(Handler)] /\ locked_ \in [Impl -> BOOLEAN]
      /\ waiting_queue_ \in [Impl -> Seq(Handler)]
      /\ PlacedIn(ready_queue_[i], i) /\ PlacedIn(waiting_queue_[i], i)
  BY IoContextAssumption DEF StrandInv, StrandTypeOK, HandlersPlaced
<1>. DEFINE ready   == Append(ready_queue_[i], h)
            waiting == Append(waiting_queue_[i], h)
<1>2. /\ ready \in Seq(Handler) /\ waiting \in Seq(Handler)
      /\ PlacedIn(ready, i) /\ PlacedIn(waiting, i)
  BY <1>1, PlacedQueues
<1>3. \A s : /\ Count(ready, HandlersOf(s)) =
                  Count(ready_queue_[i], HandlersOf(s)) + In(s, {StrandOf(h)})
             /\ Count(waiting, HandlersOf(s)) =
                  Count(waiting_queue_[i], HandlersOf(s)) + In(s, {StrandOf(h)})
  BY <1>1, CountAppend, InHandlersOf
<1>4. \A s : /\ Count(ready_queue_[i], HandlersOf(s)) \in Nat
             /\ Count(waiting_queue_[i], HandlersOf(s)) \in Nat
             /\ In(s, {StrandOf(h)}) \in Nat
             /\ impl_[s] # i => In(s, {StrandOf(h)}) = 0
  BY <1>1, CountType DEF In
<1>5. CASE enqueue_waiting(i, h)
  <2>1. /\ locked_[i] /\ locked_' = locked_
        /\ ready_queue_' = [ready_queue_ EXCEPT ![i] = ready_queue_[i]]
        /\ waiting_queue_' = [waiting_queue_ EXCEPT ![i] = waiting]
    BY <1>1, <1>5 DEF enqueue_waiting
  <2>. HIDE DEF waiting, ready
  <2>2. /\ StrandInv'
        /\ \A s \in Strand :
             /\ Posted(s) \in Nat /\ Posted(s)' \in Nat
             /\ impl_[s] # i => Posted(s)' = Posted(s)
             /\ impl_[s] = i =>
                  /\ Posted(s) = Count(ready_queue_[i], HandlersOf(s))
                                    + Count(waiting_queue_[i], HandlersOf(s))
                  /\ Posted(s)' = Count(ready_queue_[i], HandlersOf(s))
                                     + Count(waiting, HandlersOf(s))
    BY <1>1, <1>2, <2>1, QueuesStep
  <2>3. ASSUME NEW s \in Strand
        PROVE  Posted(s)' = Posted(s) + In(s, {StrandOf(h)})
    <3>1. CASE impl_[s] = i
      BY <1>3, <1>4, <2>2, <3>1
    <3>2. CASE impl_[s] # i
      <4>1. In(s, {StrandOf(h)}) = 0
        BY <1>4, <3>2
      <4>2. Posted(s)' = Posted(s) /\ Posted(s) \in Nat
        BY <2>2, <3>2
      <4>. QED
        BY <4>1, <4>2
    <3>. QED
      BY <3>1, <3>2
  <2>. QED
    BY <2>1, <2>2, <2>3
<1>6. CASE acquire_ready(i, h)
  <2>7. locked_' = [locked_ EXCEPT ![i] = TRUE]
    BY <1>6 DEF acquire_ready
  <2>1. /\ ready_queue_' = [ready_queue_ EXCEPT ![i] = ready]
        /\ waiting_queue_' = [waiting_queue_ EXCEPT ![i] = waiting_queue_[i]]
    BY <1>1, <1>6 DEF acquire_ready
  <2>. HIDE DEF waiting, ready
  <2>2. locked_' \in [Impl -> BOOLEAN] /\ locked_'[i] = TRUE
    BY <1>1, <2>7
  <2>5. \A j \in Impl \ {i} : locked_'[j] = locked_[j]
    BY <1>1, <2>7
  <2>6. ~locked_'[i] => ready = <<>> /\ waiting_queue_[i] = <<>>
    BY <2>2
  <2>3. /\ StrandInv'
        /\ \A s \in Strand :
             /\ Posted(s) \in Nat /\ Posted(s)' \in Nat
             /\ impl_[s] # i => Posted(s)' = Posted(s)
             /\ impl_[s] = i =>
                  /\ Posted(s) = Count(ready_queue_[i], HandlersOf(s))
                                    + Count(waiting_queue_[i], HandlersOf(s))
                  /\ Posted(s)' = Count(ready, HandlersOf(s))
                                     + Count(waiting_queue_[i], HandlersOf(s))
    <3>1. /\ locked_' \in [Impl -> BOOLEAN]
          /\ ready \in Seq(Handler) /\ waiting_queue_[i] \in Seq(Handler)
          /\ PlacedIn(ready, i) /\ PlacedIn(waiting_queue_[i], i)
      BY <1>1, <1>2, <2>2
    <3>. QED
      BY <2>1, <2>5, <2>6, <3>1, QueuesStep
  <2>4. ASSUME NEW s \in Strand
        PROVE  Posted(s)' = Posted(s) + In(s, {StrandOf(h)})
    <3>1. CASE impl_[s] = i
      BY <1>3, <1>4, <2>3, <3>1
    <3>2. CASE impl_[s] # i
      <4>1. In(s, {StrandOf(h)}) = 0
        BY <1>4, <3>2
      <4>2. Posted(s)' = Posted(s) /\ Posted(s) \in Nat
        BY <2>3, <3>2
      <4>. QED
        BY <4>1, <4>2
    <3>. QED
      BY <3>1, <3>2
  <2>. QED
    BY <2>2, <2>3, <2>4
<1>. QED
  BY <1>5, <1>6

PostsThrough(h, posted) ==
  \/ posted = <<>>
  \/ \E next \in Handler : posted = <<next>> /\ StrandOf(next) = StrandOf(h)

\* The next ready handler is invoked, and posts others through its strand or
\* none.
LEMMA InvokesStep ==
  ASSUME StrandInv, impl_' = impl_, NEW i \in Impl, NEW h, NEW posted,
         complete_ready(i, h, posted), PostsThrough(h, posted)
  PROVE  /\ StrandInv' /\ h \in Handler /\ impl_[StrandOf(h)] = i
         /\ locked_' = locked_
         /\ \A s \in Strand :
              /\ Posted(s) \in Nat /\ Posted(s)' \in Nat
              /\ posted = <<>> => Posted(s)' = Posted(s) - In(s, {StrandOf(h)})
              /\ posted # <<>> => Posted(s)' = Posted(s)
<1>1. /\ ready_queue_[i] \in Seq(Handler) /\ waiting_queue_[i] \in Seq(Handler)
      /\ ready_queue_ \in [Impl -> Seq(Handler)] /\ locked_ \in [Impl -> BOOLEAN]
      /\ waiting_queue_ \in [Impl -> Seq(Handler)]
      /\ PlacedIn(ready_queue_[i], i) /\ PlacedIn(waiting_queue_[i], i)
  BY IoContextAssumption DEF StrandInv, StrandTypeOK, HandlersPlaced
<1>. DEFINE ready   == Tail(ready_queue_[i])
            waiting == waiting_queue_[i] \o posted
<1>2. /\ ready_queue_[i] # <<>> /\ h = Head(ready_queue_[i]) /\ locked_' = locked_
      /\ ready_queue_' = [ready_queue_ EXCEPT ![i] = ready]
      /\ waiting_queue_' = [waiting_queue_ EXCEPT ![i] = waiting]
  BY <1>1 DEF complete_ready
<1>3. /\ h \in Handler /\ impl_[StrandOf(h)] = i
      /\ ready \in Seq(Handler) /\ PlacedIn(ready, i)
      /\ \A s : Count(ready, HandlersOf(s)) =
                  Count(ready_queue_[i], HandlersOf(s)) - In(s, {StrandOf(h)})
  <2>1. h \in Handler /\ ready \in Seq(Handler)
    BY <1>1, <1>2, CountTail
  <2>2. impl_[StrandOf(h)] = i /\ PlacedIn(ready, i)
    BY <1>1, <1>2, PlacedQueues
  <2>3. \A s : Count(ready, HandlersOf(s)) =
                 Count(ready_queue_[i], HandlersOf(s)) - In(h, HandlersOf(s))
    BY <1>1, <1>2, CountTail
  <2>. QED
    BY <2>1, <2>2, <2>3, InHandlersOf
<1>4. /\ posted \in Seq(Handler) /\ PlacedIn(posted, i)
      /\ \A s : Count(posted, HandlersOf(s)) =
                  IF posted = <<>> THEN 0 ELSE In(s, {StrandOf(h)})
  <2>1. CASE posted = <<>>
    BY <2>1, CountFew DEF PlacedIn
  <2>2. ASSUME NEW next \in Handler, posted = <<next>>, StrandOf(next) = StrandOf(h)
        PROVE  /\ posted \in Seq(Handler) /\ PlacedIn(posted, i)
               /\ \A s : Count(posted, HandlersOf(s)) =
                           IF posted = <<>> THEN 0 ELSE In(s, {StrandOf(h)})
    <3>1. posted \in Seq(Handler) /\ posted # <<>>
      BY <2>2
    <3>2. PlacedIn(posted, i)
      BY <1>3, <2>2 DEF PlacedIn
    <3>3. \A s : Count(<<next>>, HandlersOf(s)) = In(next, HandlersOf(s))
      BY CountFew
    <3>4. \A s : In(next, HandlersOf(s)) = In(s, {StrandOf(next)})
      BY InHandlersOf
    <3>. QED
      BY <2>2, <3>1, <3>2, <3>3, <3>4
  <2>. QED
    BY <2>1, <2>2 DEF PostsThrough
<1>5. /\ waiting \in Seq(Handler) /\ PlacedIn(waiting, i)
      /\ \A s : Count(waiting, HandlersOf(s)) =
           Count(waiting_queue_[i], HandlersOf(s)) + Count(posted, HandlersOf(s))
  <2>1. waiting \in Seq(Handler)
    BY <1>1, <1>4
  <2>2. PlacedIn(waiting, i)
    BY <1>1, <1>4, PlacedQueues
  <2>. QED
    BY <1>1, <1>4, <2>1, <2>2, CountConcat
<1>6. \A s : /\ Count(ready_queue_[i], HandlersOf(s)) \in Nat
             /\ Count(waiting_queue_[i], HandlersOf(s)) \in Nat
             /\ In(s, {StrandOf(h)}) \in Nat
             /\ impl_[s] # i => In(s, {StrandOf(h)}) = 0
  BY <1>1, <1>3, CountType DEF In
<1>7. locked_[i]
  BY <1>2 DEF StrandInv, UnlockedEmpty
<1>. HIDE DEF ready, waiting
<1>8. /\ StrandInv'
      /\ \A s \in Strand :
           /\ Posted(s) \in Nat /\ Posted(s)' \in Nat
           /\ impl_[s] # i => Posted(s)' = Posted(s)
           /\ impl_[s] = i =>
                /\ Posted(s) = Count(ready_queue_[i], HandlersOf(s))
                                  + Count(waiting_queue_[i], HandlersOf(s))
                /\ Posted(s)' = Count(ready, HandlersOf(s))
                                   + Count(waiting, HandlersOf(s))
  <2>1. /\ locked_' \in [Impl -> BOOLEAN]
        /\ \A j \in Impl \ {i} : locked_'[j] = locked_[j]
        /\ ~locked_'[i] => ready = <<>> /\ waiting = <<>>
    BY <1>1, <1>2, <1>7
  <2>2. /\ ready_queue_' = [ready_queue_ EXCEPT ![i] = ready]
        /\ waiting_queue_' = [waiting_queue_ EXCEPT ![i] = waiting]
    BY <1>2
  <2>3. /\ ready \in Seq(Handler) /\ PlacedIn(ready, i)
        /\ waiting \in Seq(Handler) /\ PlacedIn(waiting, i)
    BY <1>3, <1>5
  <2>. QED
    BY <2>1, <2>2, <2>3, QueuesStep
<1>9. ASSUME NEW s \in Strand
      PROVE  /\ posted = <<>> => Posted(s)' = Posted(s) - In(s, {StrandOf(h)})
             /\ posted # <<>> => Posted(s)' = Posted(s)
  <2>1. CASE impl_[s] = i
    <3>1. /\ Posted(s) = Count(ready_queue_[i], HandlersOf(s))
                            + Count(waiting_queue_[i], HandlersOf(s))
          /\ Posted(s)' = Count(ready, HandlersOf(s)) + Count(waiting, HandlersOf(s))
      BY <1>8, <2>1
    <3>2. Count(ready, HandlersOf(s)) =
            Count(ready_queue_[i], HandlersOf(s)) - In(s, {StrandOf(h)})
      BY <1>3
    <3>3. Count(waiting, HandlersOf(s)) = Count(waiting_queue_[i], HandlersOf(s))
            + (IF posted = <<>> THEN 0 ELSE In(s, {StrandOf(h)}))
      BY <1>4, <1>5
    <3>4. /\ Count(ready_queue_[i], HandlersOf(s)) \in Nat
          /\ Count(waiting_queue_[i], HandlersOf(s)) \in Nat
          /\ In(s, {StrandOf(h)}) \in Nat
      BY <1>6
    <3>. QED
      BY <3>1, <3>2, <3>3, <3>4
  <2>2. CASE impl_[s] # i
    <3>1. In(s, {StrandOf(h)}) = 0
      BY <1>6, <2>2
    <3>2. Posted(s)' = Posted(s) /\ Posted(s) \in Nat
      BY <1>8, <2>2
    <3>. QED
      BY <3>1, <3>2
  <2>. QED
    BY <2>1, <2>2
<1>. QED
  BY <1>2, <1>3, <1>8, <1>9

\* The strand's lock is given up or handed over with the handlers that wait.
LEMMA ReleaseStep ==
  ASSUME StrandInv, impl_' = impl_, NEW i \in Impl, release(i)
  PROVE  /\ StrandInv'
         /\ locked_' = [locked_ EXCEPT ![i] = MoreHandlers(i)]
         /\ \A s \in Strand : Posted(s) \in Nat /\ Posted(s)' = Posted(s)
<1>1. /\ ready_queue_[i] \in Seq(Handler) /\ waiting_queue_[i] \in Seq(Handler)
      /\ ready_queue_ \in [Impl -> Seq(Handler)] /\ locked_ \in [Impl -> BOOLEAN]
      /\ waiting_queue_ \in [Impl -> Seq(Handler)]
      /\ PlacedIn(ready_queue_[i], i) /\ PlacedIn(waiting_queue_[i], i)
  BY IoContextAssumption DEF StrandInv, StrandTypeOK, HandlersPlaced
<1>. DEFINE ready == ready_queue_[i] \o waiting_queue_[i]
            more  == MoreHandlers(i)
            none  == <<>>
<1>2. /\ ready_queue_' = [ready_queue_ EXCEPT ![i] = ready]
      /\ waiting_queue_' = [waiting_queue_ EXCEPT ![i] = none]
  BY <1>1 DEF release
<1>3. locked_' = [locked_ EXCEPT ![i] = more]
  BY DEF release
<1>4. more <=> ready # <<>>
  BY DEF MoreHandlers
<1>5. ready \in Seq(Handler) /\ none \in Seq(Handler) /\ PlacedIn(none, i)
  BY <1>1 DEF PlacedIn
<1>6. PlacedIn(ready, i)
  BY <1>1, PlacedQueues
<1>7. \A s : /\ Count(ready, HandlersOf(s)) = Count(ready_queue_[i], HandlersOf(s))
                                            + Count(waiting_queue_[i], HandlersOf(s))
             /\ Count(none, HandlersOf(s)) = 0
             /\ Count(ready, HandlersOf(s)) \in Nat
  <2>1. \A s : Count(ready, HandlersOf(s)) = Count(ready_queue_[i], HandlersOf(s))
                                            + Count(waiting_queue_[i], HandlersOf(s))
    BY <1>1, CountConcat
  <2>2. \A s : Count(none, HandlersOf(s)) = 0
    BY CountFew
  <2>3. \A s : Count(ready, HandlersOf(s)) \in Nat
    BY <1>5, CountType
  <2>. QED
    BY <2>1, <2>2, <2>3
<1>8. more \in BOOLEAN
  BY DEF MoreHandlers
<1>9. none = <<>>
  OBVIOUS
<1>. HIDE DEF ready, more, none
<1>10. /\ locked_' \in [Impl -> BOOLEAN]
       /\ \A j \in Impl \ {i} : locked_'[j] = locked_[j]
       /\ locked_'[i] = more
  BY <1>1, <1>3, <1>8
<1>11. ~locked_'[i] => ready = <<>> /\ none = <<>>
  BY <1>4, <1>9, <1>10
<1>12. /\ StrandInv'
       /\ \A s \in Strand :
            /\ Posted(s) \in Nat /\ Posted(s)' \in Nat
            /\ impl_[s] # i => Posted(s)' = Posted(s)
            /\ impl_[s] = i =>
                 /\ Posted(s) = Count(ready_queue_[i], HandlersOf(s))
                                   + Count(waiting_queue_[i], HandlersOf(s))
                 /\ Posted(s)' = Count(ready, HandlersOf(s))
                                    + Count(none, HandlersOf(s))
  BY <1>2, <1>5, <1>6, <1>10, <1>11, QueuesStep
<1>13. ASSUME NEW s \in Strand PROVE Posted(s) \in Nat /\ Posted(s)' = Posted(s)
  BY <1>7, <1>12
<1>. QED
  BY <1>3, <1>12, <1>13 DEF more

\* The lock is taken to dispatch a handler.
LEMMA LocksStep ==
  ASSUME StrandInv, impl_' = impl_, NEW i \in Impl, acquire_dispatch(i)
  PROVE  /\ StrandInv' /\ ~locked_[i]
         /\ locked_' = [locked_ EXCEPT ![i] = TRUE]
         /\ \A s \in Strand : Posted(s) \in Nat /\ Posted(s)' = Posted(s)
<1>1. /\ ~locked_[i] /\ locked_' = [locked_ EXCEPT ![i] = TRUE]
      /\ ready_queue_' = ready_queue_ /\ waiting_queue_' = waiting_queue_
  BY DEF acquire_dispatch
<1>2. locked_' \in [Impl -> BOOLEAN] /\ \A j \in Impl : ~locked_'[j] => ~locked_[j]
  BY <1>1 DEF StrandInv, StrandTypeOK
<1>3. HandlersPlaced' /\ UnlockedEmpty'
  BY <1>1, <1>2 DEF StrandInv, HandlersPlaced, PlacedIn, UnlockedEmpty
<1>4. StrandInv'
  BY <1>1, <1>2, <1>3 DEF StrandInv, StrandTypeOK
<1>5. ASSUME NEW s \in Strand PROVE Posted(s) \in Nat /\ Posted(s)' = Posted(s)
  <2>1. /\ ready_queue_[impl_[s]] \in Seq(Handler)
        /\ waiting_queue_[impl_[s]] \in Seq(Handler)
    BY IoContextAssumption DEF StrandInv, StrandTypeOK
  <2>2. Posted(s) \in Nat
    <3>1. Posted(s) = Count(ready_queue_[impl_[s]], HandlersOf(s))
                        + Count(waiting_queue_[impl_[s]], HandlersOf(s))
      BY DEF Posted, HandlersOf
    <3>2. /\ Count(ready_queue_[impl_[s]], HandlersOf(s)) \in Nat
          /\ Count(waiting_queue_[impl_[s]], HandlersOf(s)) \in Nat
      BY <2>1, CountType
    <3>. QED
      BY <3>1, <3>2
  <2>3. Posted(s)' = Posted(s)
    BY <1>1 DEF Posted
  <2>. QED
    BY <2>2, <2>3
<1>. QED
  BY <1>1, <1>4, <1>5

-----------------------------------------------------------------------------
(* The scheduler's queue *)

NoDescriptor(q) == \A n \in DOMAIN q : q[n] # Descriptor

LEMMA FirstQueues ==
  ASSUME NEW q \in Seq(Entry), DescriptorFirst(q)
  PROVE  /\ \A r \in Seq(Operation) : NoDescriptor(r) => DescriptorFirst(q \o r)
         /\ q # <<>> => DescriptorFirst(Tail(q))
         /\ NoTask(q) => NoDescriptor(q)
<1>1. Len(q) \in Nat /\ DOMAIN q = 1 .. Len(q)
  OBVIOUS
<1>2. ASSUME NEW r \in Seq(Operation), NoDescriptor(r)
      PROVE  DescriptorFirst(q \o r)
  <2>1. r \in Seq(Entry)
    BY DEF Entry
  <2>2. /\ DOMAIN (q \o r) = 1 .. Len(q) + Len(r)
        /\ \A n \in 1 .. Len(q) + Len(r) :
             (q \o r)[n] = IF n <= Len(q) THEN q[n] ELSE r[n - Len(q)]
    BY <2>1, ConcatProperties
  <2>3. Len(r) \in Nat /\ DOMAIN r = 1 .. Len(r)
    OBVIOUS
  <2>4. ASSUME NEW n \in 1 .. Len(q) + Len(r), (q \o r)[n] = Descriptor
        PROVE  n \in DOMAIN q /\ q[n] = Descriptor
    <3>1. CASE n <= Len(q)
      BY <1>1, <2>2, <2>4, <3>1
    <3>2. CASE ~(n <= Len(q))
      <4>1. n - Len(q) \in DOMAIN r
        BY <1>1, <2>3, <2>4, <3>2
      <4>. QED
        BY <1>2, <2>2, <2>4, <3>2, <4>1 DEF NoDescriptor
    <3>. QED
      BY <3>1, <3>2
  <2>5. \A m \in DOMAIN q : m \in 1 .. Len(q) + Len(r) /\ (q \o r)[m] = q[m]
    BY <1>1, <2>2, <2>3
  <2>. QED
    BY <2>2, <2>4, <2>5 DEF DescriptorFirst
<1>3. ASSUME q # <<>> PROVE DescriptorFirst(Tail(q))
  <2>1. /\ Tail(q) \in Seq(Entry) /\ Len(Tail(q)) = Len(q) - 1
        /\ \A n \in 1 .. Len(Tail(q)) : Tail(q)[n] = q[n + 1]
    BY <1>3, HeadTailProperties
  <2>2. Len(q) \in Nat \ {0} /\ DOMAIN Tail(q) = 1 .. Len(q) - 1
    BY <1>1, <1>3, <2>1
  <2>3. \A n \in DOMAIN Tail(q) :
          n \in Nat /\ n + 1 \in DOMAIN q /\ Tail(q)[n] = q[n + 1]
    BY <1>1, <2>1, <2>2
  <2>4. ASSUME NEW m \in DOMAIN Tail(q), NEW n \in DOMAIN Tail(q),
               Tail(q)[m] = Descriptor, Tail(q)[n] = Descriptor
        PROVE  m = n
    <3>1. m + 1 = n + 1
      BY <2>3, <2>4 DEF DescriptorFirst
    <3>. QED
      BY <2>3, <3>1
  <2>5. ASSUME NEW n \in DOMAIN Tail(q), Tail(q)[n] = Descriptor
        PROVE  \E m \in DOMAIN Tail(q) : n < m /\ Tail(q)[m] = Task
    <3>1. PICK k \in DOMAIN q : n + 1 < k /\ q[k] = Task
      BY <2>3, <2>5 DEF DescriptorFirst
    <3>2. /\ k - 1 \in DOMAIN Tail(q) /\ n < k - 1 /\ (k - 1) + 1 = k
      BY <1>1, <2>2, <2>3, <3>1
    <3>3. Tail(q)[k - 1] = q[(k - 1) + 1]
      BY <2>3, <3>2
    <3>. QED
      BY <3>1, <3>2, <3>3
  <2>. QED
    BY <2>4, <2>5 DEF DescriptorFirst
<1>4. NoTask(q) => NoDescriptor(q)
  BY DEF NoTask, NoDescriptor, DescriptorFirst
<1>. QED
  BY <1>2, <1>3, <1>4

\* The task is queued behind a queue without it, and behind the descriptor.
LEMMA FirstTask ==
  ASSUME NEW q \in Seq(Entry), NoDescriptor(q), NEW r \in Seq(Operation),
         r = <<>> \/ r = <<Descriptor>>
  PROVE  DescriptorFirst((q \o r) \o <<Task>>)
<1>. DEFINE p == q \o r
            z == Append(p, Task)
<1>1. Len(q) \in Nat /\ DOMAIN q = 1 .. Len(q)
  OBVIOUS
<1>2. r \in Seq(Entry) /\ Len(r) \in Nat /\ Len(r) <= 1 /\ Task \in Entry
  <2>1. r \in Seq(Entry) /\ Task \in Entry
    BY DEF Entry
  <2>2. CASE r = <<>>
    BY <2>1, <2>2
  <2>3. CASE r = <<Descriptor>>
    BY <2>1, <2>3
  <2>. QED
    BY <2>2, <2>3
<1>3. /\ p \in Seq(Entry) /\ Len(p) = Len(q) + Len(r)
      /\ \A n \in 1 .. Len(q) + Len(r) : n <= Len(q) => p[n] = q[n]
  BY <1>2, ConcatProperties
<1>. HIDE DEF p
<1>4. Len(p) \in Nat /\ Len(p) <= Len(q) + 1
  BY <1>1, <1>2, <1>3
<1>5. /\ z \in Seq(Entry) /\ Len(z) = Len(p) + 1 /\ z = p \o <<Task>>
      /\ \A n \in 1 .. Len(p) : z[n] = p[n]
      /\ z[Len(p) + 1] = Task
  BY <1>2, <1>3, AppendProperties
<1>. HIDE DEF z
<1>6. DOMAIN z = 1 .. Len(p) + 1
  BY <1>5
<1>7. Task # Descriptor
  BY SchedulerAssumption, IoContextAssumption
<1>8. ASSUME NEW n \in DOMAIN z, z[n] = Descriptor
      PROVE  n = Len(q) + 1 /\ n < Len(p) + 1
  <2>1. n # Len(p) + 1
    BY <1>5, <1>7, <1>8
  <2>2. n \in 1 .. Len(p)
    BY <1>4, <1>6, <1>8, <2>1
  <2>3. p[n] = Descriptor /\ n \in 1 .. Len(q) + Len(r)
    BY <1>3, <1>5, <1>8, <2>2
  <2>4. ~(n <= Len(q))
    BY <1>1, <1>3, <2>3 DEF NoDescriptor
  <2>. QED
    BY <1>1, <1>4, <2>2, <2>4
<1>9. Len(p) + 1 \in DOMAIN z
  BY <1>4, <1>6
<1>10. DescriptorFirst(z)
  <2>1. \A m, n \in DOMAIN z : z[m] = Descriptor /\ z[n] = Descriptor => m = n
    BY <1>8
  <2>2. \A n \in DOMAIN z : z[n] = Descriptor =>
          \E m \in DOMAIN z : n < m /\ z[m] = Task
    BY <1>5, <1>8, <1>9
  <2>. QED
    BY <2>1, <2>2 DEF DescriptorFirst
<1>. QED
  BY <1>5, <1>10 DEF p

SchedulerInv == SchedulerTypeOK /\ IInv

LEMMA FoundFirst ==
  ASSUME SchedulerInv, PrivateParts, DescriptorFirst(op_queue_), NEW t \in Thread
  PROVE  /\ Queue(t) \in Seq(Entry) /\ DescriptorFirst(Queue(t))
         /\ \A S : Task \notin S =>
              Count(Queue(t), S) = Count(op_queue_, S) + Count(private_op_queue[t], S)
<1>. DEFINE r == private_op_queue[t]
            p == op_queue_ \o r
            back == IF pc[t] = "task_exit" THEN <<Task>> ELSE <<>>
<1>1. /\ op_queue_ \in Seq(Entry) /\ r \in Seq(Operation) /\ r \in Seq(Entry)
      /\ back \in Seq(Entry) /\ p \in Seq(Entry) /\ Queue(t) = p \o back
  <2>1. op_queue_ \in Seq(Entry) /\ r \in Seq(Operation)
    BY DEF SchedulerInv, SchedulerTypeOK, Entry
  <2>2. r \in Seq(Entry) /\ <<Task>> \in Seq(Entry) /\ <<>> \in Seq(Entry)
    BY <2>1 DEF Entry
  <2>3. back \in Seq(Entry)
    BY <2>2
  <2>4. p \in Seq(Entry)
    BY <2>1, <2>2, ConcatProperties
  <2>5. Queue(t) = p \o back
    BY DEF Queue
  <2>. QED
    BY <2>1, <2>2, <2>3, <2>4, <2>5
<1>2. Queue(t) \in Seq(Entry)
  BY FoundQueue DEF SchedulerInv
<1>3. DescriptorFirst(Queue(t))
  <2>1. CASE pc[t] = "task_exit"
    <3>1. NoTask(op_queue_)
      BY <2>1 DEF SchedulerInv, IInv, TaskPlace, Running
    <3>2. NoDescriptor(op_queue_)
      BY <1>1, <3>1, FirstQueues
    <3>3. r = <<>> \/ r = <<Descriptor>>
      BY <2>1 DEF PrivateParts, PrivatePart
    <3>. QED
      BY <1>1, <2>1, <3>2, <3>3, FirstTask
  <2>2. CASE pc[t] # "task_exit"
    <3>1. r = <<>> \/ \E i \in Impl : r = <<i>>
      BY <2>2 DEF PrivateParts, PrivatePart
    <3>2. NoDescriptor(r)
      BY <3>1, IoContextAssumption DEF NoDescriptor
    <3>3. DescriptorFirst(p)
      BY <1>1, <3>2, FirstQueues
    <3>. HIDE DEF p
    <3>4. p \o <<>> = p
      BY <1>1, ConcatEmptySeq
    <3>. QED
      BY <1>1, <2>2, <3>3, <3>4
  <2>. QED
    BY <2>1, <2>2
<1>4. ASSUME NEW S, Task \notin S
      PROVE  Count(Queue(t), S) = Count(op_queue_, S) + Count(r, S)
  <2>1. Count(p, S) = Count(op_queue_, S) + Count(r, S)
    BY <1>1, CountConcat
  <2>2. Count(back, S) = 0
    BY <1>4, CountFew DEF In
  <2>. HIDE DEF p, back
  <2>3. Count(p \o back, S) = Count(p, S) + Count(back, S)
    BY <1>1, CountConcat
  <2>4. Count(p, S) \in Nat
    BY <1>1, CountType
  <2>. QED
    BY <1>1, <2>1, <2>2, <2>3, <2>4
<1>. QED
  BY <1>2, <1>3, <1>4

\* A turn of do_run_one as the queues' counts see it: the thread puts back what
\* it has to itself, and the operation it completes leaves the queue.
LEMMA RunOneQueue ==
  ASSUME SchedulerInv, PrivateParts, DescriptorFirst(op_queue_),
         NEW t \in Thread, NEW interrupted, run_one(t, interrupted)
  PROVE  /\ op_queue_' \in Seq(Entry) /\ DescriptorFirst(op_queue_')
         /\ pc'[t] \in {"done", "blocked", "poll", "wait", "complete"}
         /\ pc' = [pc EXCEPT ![t] = pc'[t]]
         /\ pc'[t] = "done" => stopped_
         /\ pc'[t] = "complete" => Head(Queue(t)) \in Operation
         /\ \A S : Task \notin S =>
              Count(op_queue_', S) =
                Count(op_queue_, S) + Count(private_op_queue[t], S)
                  - (IF pc'[t] = "complete" THEN In(Head(Queue(t)), S) ELSE 0)
<1>. DEFINE q == Queue(t)
<1>1. /\ q \in Seq(Entry) /\ DescriptorFirst(q)
      /\ \A S : Task \notin S =>
           Count(q, S) = Count(op_queue_, S) + Count(private_op_queue[t], S)
  BY FoundFirst
<1>2. /\ pc \in [Thread -> Place] /\ op_queue_ \in Seq(Entry)
      /\ private_op_queue[t] \in Seq(Operation)
  BY DEF SchedulerInv, SchedulerTypeOK, Entry
<1>3. \/ stopped_ /\ pc' = [pc EXCEPT ![t] = "done"] /\ op_queue_' = q
      \/ q = <<>> /\ pc' = [pc EXCEPT ![t] = "blocked"] /\ op_queue_' = op_queue_
      \/ /\ q # <<>> /\ Head(q) = Task /\ op_queue_' = Tail(q)
         /\ \/ pc' = [pc EXCEPT ![t] = "poll"]
            \/ pc' = [pc EXCEPT ![t] = "wait"]
      \/ /\ q # <<>> /\ Head(q) # Task /\ op_queue_' = Tail(q)
         /\ pc' = [pc EXCEPT ![t] = "complete"]
  BY DEF run_one
<1>. HIDE DEF q
<1>4. \A S : /\ Count(op_queue_, S) \in Nat /\ Count(q, S) \in Nat
             /\ Count(private_op_queue[t], S) \in Nat
  BY <1>1, <1>2, CountType
<1>5. CASE stopped_ /\ pc' = [pc EXCEPT ![t] = "done"] /\ op_queue_' = q
  <2>1. pc'[t] = "done"
    BY <1>2, <1>5
  <2>2. ASSUME NEW S, Task \notin S
        PROVE  Count(op_queue_', S) =
                 Count(op_queue_, S) + Count(private_op_queue[t], S) - 0
    BY <1>1, <1>4, <1>5, <2>2
  <2>. QED
    BY <1>1, <1>5, <2>1, <2>2
<1>6. CASE q = <<>> /\ pc' = [pc EXCEPT ![t] = "blocked"] /\ op_queue_' = op_queue_
  <2>1. pc'[t] = "blocked"
    BY <1>2, <1>6
  <2>2. \A S : Count(q, S) = 0
    BY <1>6, CountFew
  <2>3. \A S : Task \notin S => Count(private_op_queue[t], S) = 0
    BY <1>1, <1>4, <2>2
  <2>. QED
    BY <1>2, <1>4, <1>6, <2>1, <2>3
<1>7. ASSUME q # <<>>, op_queue_' = Tail(q)
      PROVE  /\ op_queue_' \in Seq(Entry) /\ DescriptorFirst(op_queue_')
             /\ Head(q) \in Entry
             /\ \A S : Task \notin S => Count(op_queue_', S) =
                  Count(op_queue_, S) + Count(private_op_queue[t], S) - In(Head(q), S)
  <2>1. DescriptorFirst(Tail(q))
    BY <1>1, <1>7, FirstQueues
  <2>2. /\ Tail(q) \in Seq(Entry) /\ Head(q) \in Entry
        /\ \A S : Count(Tail(q), S) = Count(q, S) - In(Head(q), S)
    BY <1>1, <1>7, CountTail
  <2>3. ASSUME NEW S, Task \notin S
        PROVE  Count(op_queue_', S) = Count(op_queue_, S)
                 + Count(private_op_queue[t], S) - In(Head(q), S)
    <3>1. Count(Tail(q), S) = Count(q, S) - In(Head(q), S)
      BY <2>2
    <3>2. Count(q, S) = Count(op_queue_, S) + Count(private_op_queue[t], S)
      BY <1>1, <2>3
    <3>3. Count(op_queue_', S) = Count(Tail(q), S)
      BY <1>7, Zenon
    <3>4. In(Head(q), S) \in Nat
      BY DEF In
    <3>. QED
      BY <1>4, <3>1, <3>2, <3>3, <3>4
  <2>. QED
    BY <1>7, <2>1, <2>2, <2>3
<1>8. CASE /\ q # <<>> /\ Head(q) = Task /\ op_queue_' = Tail(q)
           /\ \/ pc' = [pc EXCEPT ![t] = "poll"]
              \/ pc' = [pc EXCEPT ![t] = "wait"]
  <2>1. pc'[t] \in {"poll", "wait"} /\ pc' = [pc EXCEPT ![t] = pc'[t]]
    BY <1>2, <1>8
  <2>2. \A S : Task \notin S => In(Head(q), S) = 0
    BY <1>8 DEF In
  <2>3. \A S : Task \notin S => Count(op_queue_', S) =
           Count(op_queue_, S) + Count(private_op_queue[t], S)
    BY <1>4, <1>7, <1>8, <2>2
  <2>. QED
    BY <1>7, <1>8, <1>4, <2>1, <2>3
<1>9. CASE /\ q # <<>> /\ Head(q) # Task /\ op_queue_' = Tail(q)
           /\ pc' = [pc EXCEPT ![t] = "complete"]
  <2>1. pc'[t] = "complete"
    BY <1>2, <1>9
  <2>2. Head(q) \in Operation
    BY <1>7, <1>9 DEF Entry
  <2>. QED
    BY <1>7, <1>9, <2>1, <2>2 DEF q
<1>. QED
  BY <1>3, <1>5, <1>6, <1>8, <1>9

\* What a turn takes out of the queue, and the work it gives back.
Taken(t, S) == IF pc'[t] = "complete" THEN In(Head(Queue(t)), S) ELSE 0
GivenBack(t) == IF pc[t] = "complete" THEN 1 - private_outstanding_work[t] ELSE 0

Turned(t) ==
  /\ op_queue_' \in Seq(Entry) /\ DescriptorFirst(op_queue_')
  /\ pc'[t] \in {"lock", "done", "blocked", "poll", "wait", "complete"}
  /\ \A u \in Thread \ {t} : Stays(u)
  /\ pc'[t] = "complete" => Head(Queue(t)) \in Operation
  /\ \A S : Task \notin S =>
       Count(op_queue_', S) =
         Count(op_queue_, S) + Count(private_op_queue[t], S) - Taken(t, S)

\* run() is stopped by the last work that finishes.
Settled(t) ==
  /\ private_op_queue' = [private_op_queue EXCEPT ![t] = <<>>]
  /\ private_outstanding_work' = [private_outstanding_work EXCEPT ![t] = 0]
  /\ outstanding_work_' = outstanding_work_ - GivenBack(t)
  /\ \/ stopped_' = stopped_
     \/ /\ outstanding_work_ = 1 /\ pc[t] = "complete"
        /\ private_op_queue[t] = <<>> /\ private_outstanding_work[t] = 0

\* A thread that runs takes an operation out of the queue or none, has nothing
\* to itself any more, and gives back the work of the operation it completed.
LEMMA RunsStep ==
  ASSUME SchedulerInv, PrivateParts, DescriptorFirst(op_queue_), NEW t \in Thread,
         \/ do_run_one(t)
         \/ wait_returns(t)
         \/ task_cleanup(t)
         \/ work_cleanup(t)
  PROVE  /\ pc[t] \in {"lock", "woken", "task_exit", "complete"}
         /\ Turned(t) /\ Settled(t)
<1>1. ASSUME NEW interrupted, run_one(t, interrupted) PROVE Turned(t)
  <2>1. /\ op_queue_' \in Seq(Entry) /\ DescriptorFirst(op_queue_')
        /\ pc'[t] \in {"done", "blocked", "poll", "wait", "complete"}
        /\ pc' = [pc EXCEPT ![t] = pc'[t]]
        /\ pc'[t] = "complete" => Head(Queue(t)) \in Operation
    BY <1>1, RunOneQueue
  <2>2. \A S : Task \notin S =>
          Count(op_queue_', S) =
            Count(op_queue_, S) + Count(private_op_queue[t], S) - Taken(t, S)
    BY <1>1, RunOneQueue DEF Taken
  <2>3. \A u \in Thread \ {t} : Stays(u)
    BY <2>1 DEF SchedulerInv, SchedulerTypeOK, Stays
  <2>. QED
    BY <2>1, <2>2, <2>3 DEF Turned
<1>2. /\ op_queue_ \in Seq(Entry) /\ outstanding_work_ \in Int
      /\ pc \in [Thread -> Place]
      /\ private_op_queue \in [Thread -> Seq(Operation)]
      /\ private_outstanding_work \in [Thread -> Int]
  BY DEF SchedulerInv, SchedulerTypeOK, Entry
<1>3. ASSUME private_op_queue[t] = <<>>, op_queue_' = op_queue_,
             pc'[t] \in {"lock", "blocked"}, \A u \in Thread \ {t} : Stays(u)
      PROVE  Turned(t)
  <2>1. \A S : Count(op_queue_, S) \in Nat /\ Count(private_op_queue[t], S) = 0
    BY <1>2, <1>3, CountType, CountFew
  <2>2. \A S : Count(op_queue_', S) = Count(op_queue_, S)
    BY <1>3
  <2>3. \A S : Taken(t, S) = 0
    BY <1>3 DEF Taken
  <2>4. \A S : Count(op_queue_', S) =
                 Count(op_queue_, S) + Count(private_op_queue[t], S) - Taken(t, S)
    BY <2>1, <2>2, <2>3
  <2>. QED
    BY <1>2, <1>3, <2>4 DEF Turned
<1>4. ASSUME private_op_queue[t] = <<>>, private_outstanding_work[t] = 0,
             private_op_queue' = private_op_queue,
             private_outstanding_work' = private_outstanding_work,
             outstanding_work_' = outstanding_work_, stopped_' = stopped_,
             pc[t] # "complete"
      PROVE  Settled(t)
  <2>1. GivenBack(t) = 0
    BY <1>4 DEF GivenBack
  <2>2. /\ private_op_queue' = [private_op_queue EXCEPT ![t] = <<>>]
        /\ private_outstanding_work' = [private_outstanding_work EXCEPT ![t] = 0]
    BY <1>2, <1>4
  <2>3. outstanding_work_' = outstanding_work_ - GivenBack(t)
    BY <1>2, <1>4, <2>1
  <2>. QED
    BY <1>4, <2>2, <2>3 DEF Settled
<1>5. pc[t] \in {"lock", "woken"} =>
        private_op_queue[t] = <<>> /\ private_outstanding_work[t] = 0
  BY DEF PrivateParts, PrivatePart
<1>6. CASE do_run_one(t)
  <2>1. /\ pc[t] = "lock" /\ run_one(t, task_interrupted_)
        /\ outstanding_work_' = outstanding_work_ /\ stopped_' = stopped_
        /\ private_op_queue' = private_op_queue
        /\ private_outstanding_work' = private_outstanding_work
    BY <1>6 DEF do_run_one, privateVars
  <2>. QED
    BY <1>1, <1>4, <1>5, <2>1
<1>7. CASE wait_returns(t)
  <2>1. /\ pc[t] = "woken"
        /\ outstanding_work_' = outstanding_work_ /\ stopped_' = stopped_
        /\ private_op_queue' = private_op_queue
        /\ private_outstanding_work' = private_outstanding_work
        /\ \/ run_one(t, task_interrupted_)
           \/ pc' = [pc EXCEPT ![t] = "blocked"] /\ op_queue_' = op_queue_
    BY <1>7 DEF wait_returns, privateVars
  <2>2. Settled(t)
    BY <1>4, <1>5, <2>1
  <2>3. ASSUME pc' = [pc EXCEPT ![t] = "blocked"]
        PROVE  pc'[t] = "blocked" /\ \A u \in Thread \ {t} : Stays(u)
    BY <1>2, <2>3 DEF Stays
  <2>4. Turned(t)
    BY <1>1, <1>3, <1>5, <2>1, <2>3
  <2>. QED
    BY <2>1, <2>2, <2>4
<1>8. CASE task_cleanup(t)
  <2>1. /\ pc[t] = "task_exit" /\ run_one(t, TRUE)
        /\ outstanding_work_' = outstanding_work_ + private_outstanding_work[t]
        /\ stopped_' = stopped_
        /\ private_op_queue' = [private_op_queue EXCEPT ![t] = <<>>]
        /\ private_outstanding_work' = [private_outstanding_work EXCEPT ![t] = 0]
    BY <1>8 DEF task_cleanup
  <2>2. private_outstanding_work[t] = 0
    BY <2>1 DEF PrivateParts, PrivatePart
  <2>3. GivenBack(t) = 0
    BY <2>1 DEF GivenBack
  <2>4. outstanding_work_' = outstanding_work_ - GivenBack(t)
    BY <1>2, <2>1, <2>2, <2>3
  <2>5. Turned(t)
    BY <1>1, <2>1
  <2>. QED
    BY <2>1, <2>4, <2>5 DEF Settled
<1>9. CASE work_cleanup(t)
  <2>. DEFINE work == private_outstanding_work[t]
              lock == [pc EXCEPT ![t] = "lock"]
  <2>1. /\ pc[t] = "complete" /\ work \in {0, 1}
        /\ private_op_queue' = [private_op_queue EXCEPT ![t] = <<>>]
        /\ private_outstanding_work' = [private_outstanding_work EXCEPT ![t] = 0]
    BY <1>9 DEF work_cleanup, PrivateParts, PrivatePart
  <2>2. lock[t] = "lock" /\ \A u \in Thread \ {t} : lock[u] = pc[u]
    BY <1>2
  <2>3. GivenBack(t) = 1 - work
    BY <2>1 DEF GivenBack
  <2>4. ASSUME outstanding_work_' = outstanding_work_ + (work - 1),
               \/ stopped_' = stopped_
               \/ outstanding_work_ = 1 /\ private_op_queue[t] = <<>> /\ work = 0
        PROVE  Settled(t)
    <3>1. outstanding_work_' = outstanding_work_ - GivenBack(t)
      BY <1>2, <2>1, <2>3, <2>4
    <3>. QED
      BY <2>1, <2>4, <3>1 DEF Settled
  <2>5. ASSUME private_op_queue[t] = <<>>, op_queue_' = op_queue_,
               pc' = lock \/ stop_all_threads(lock)
        PROVE  Turned(t)
    <3>1. pc'[t] = "lock" /\ \A u \in Thread \ {t} : Stays(u)
      <4>1. CASE pc' = lock
        BY <2>2, <4>1 DEF Stays
      <4>2. CASE stop_all_threads(lock)
        BY <2>2, <4>2 DEF stop_all_threads, Stays
      <4>. QED
        BY <2>5, <4>1, <4>2
    <3>. QED
      BY <1>3, <2>5, <3>1
  <2>. HIDE DEF lock
  <2>6. CASE /\ run_one(t, task_interrupted_) /\ stopped_' = stopped_
             /\ outstanding_work_' = outstanding_work_ + (work - 1)
    BY <1>1, <2>1, <2>4, <2>6
  <2>7. CASE /\ private_op_queue[t] = <<>> /\ op_queue_' = op_queue_
             /\ outstanding_work_' = outstanding_work_ + (work - 1)
             /\ pc' = lock /\ stopped_' = stopped_
    BY <2>1, <2>4, <2>5, <2>7
  <2>8. CASE /\ private_op_queue[t] = <<>> /\ op_queue_' = op_queue_
             /\ work < 1 /\ work_finished(lock)
    <3>1. work = 0 /\ outstanding_work_' = outstanding_work_ + (work - 1)
      BY <1>2, <2>1, <2>8 DEF work_finished
    <3>2. \/ stop_all_threads(lock) /\ outstanding_work_ = 1
          \/ pc' = lock /\ stopped_' = stopped_
      BY <2>8 DEF work_finished
    <3>. QED
      BY <2>1, <2>4, <2>5, <2>8, <3>1, <3>2
  <2>9. \/ /\ run_one(t, task_interrupted_) /\ stopped_' = stopped_
           /\ outstanding_work_' = outstanding_work_ + (work - 1)
        \/ /\ private_op_queue[t] = <<>> /\ op_queue_' = op_queue_
           /\ outstanding_work_' = outstanding_work_ + (work - 1)
           /\ pc' = lock /\ stopped_' = stopped_
        \/ /\ private_op_queue[t] = <<>> /\ op_queue_' = op_queue_
           /\ work < 1 /\ work_finished(lock)
    BY <1>9 DEF work_cleanup, lock
  <2>. QED
    BY <2>6, <2>7, <2>8, <2>9
<1>. QED
  BY <1>6, <1>7, <1>8, <1>9

-----------------------------------------------------------------------------
(* asio uses its scheduler as Scheduler.tla allows *)

IoSafe == IoTypeOK /\ SchedulerInv /\ IoInv

LEMMA IoTypes ==
  ASSUME IoSafe
  PROVE  /\ op_queue_ \in Seq(Entry) /\ outstanding_work_ \in Int
         /\ pc \in [Thread -> Place]
         /\ private_op_queue \in [Thread -> Seq(Operation)]
         /\ private_outstanding_work \in [Thread -> Int]
         /\ op_queues \subseteq ReactorOp
         /\ impl_ \in [Strand -> Impl]
         /\ step \in [Thread -> {"enter", "body", "leave", "finish", "cleanup"}]
         /\ completing \in [Thread -> Operation \cup {None}]
         /\ events \in [Thread -> SUBSET ReactorOp]
         /\ due \in [Caller -> Operation \cup {None}]
         /\ Impl \subseteq Operation /\ ReactorOp \subseteq Operation
         /\ Descriptor \in Operation
         /\ StrandInv
BY IoContextAssumption DEF IoSafe, IoTypeOK, ReactorTypeOK, SchedulerInv,
   SchedulerTypeOK, Entry, StrandInv, IoInv, PlaceInv

\* What is left of a sum that is at most 1.
LEMMA QueuedOnce ==
  ASSUME IoSafe, NEW op \in ReactorOp
  PROVE  Count(op_queue_, {op}) \in 0 .. 1
<1>. DEFINE s == IF op = "read_op" THEN "m_read_strand" ELSE "m_write_strand"
<1>1. s \in Strand /\ op = IF s = "m_read_strand" THEN "read_op" ELSE "write_op"
  BY DEF Strand, ReactorOp
<1>2. InFlight(s) \in {0, 1}
  BY <1>1 DEF IoSafe, IoInv, CountInv, ChainsAreWhole
<1>. DEFINE p == Posted(s)
            k == Count(op_queue_, {op})
            d == Dispatched(op)
            a == Cardinality(Pairs(private_op_queue, op))
            b == Cardinality(Dues(op))
            e == Cardinality(op_queues \cap {op})
<1>3. InFlight(s) = p + (k + a + b + e) + d
  BY <1>1 DEF InFlight, Links, Pairs, Dues, Dispatched, Dispatching
<1>4. k \in Nat
  BY IoTypes, CountType
<1>5. p \in Nat
  <2>. DEFINE i == impl_[s]
  <2>1. /\ ready_queue_[i] \in Seq(Handler) /\ waiting_queue_[i] \in Seq(Handler)
    BY <1>1, IoTypes, IoContextAssumption DEF StrandInv, StrandTypeOK
  <2>2. /\ Count(ready_queue_[i], HandlersOf(s)) \in Nat
        /\ Count(waiting_queue_[i], HandlersOf(s)) \in Nat
    BY <2>1, CountType
  <2>. QED
    BY <2>2 DEF Posted, HandlersOf
<1>6. a \in Nat
  <2>1. PrivateParts
    BY DEF IoSafe, IoInv, PlaceInv
  <2>2. \A t \in Thread : Short(private_op_queue[t])
    <3>1. ASSUME NEW x PROVE Short(<<x>>)
      BY DEF Short
    <3>2. \A t \in Thread : \/ private_op_queue[t] = <<>>
                            \/ \E x : private_op_queue[t] = <<x>>
      BY <2>1 DEF PrivateParts, PrivatePart
    <3>. QED
      BY <3>1, <3>2 DEF Short
  <2>. QED
    BY <2>2, PairsChange
<1>7. b \in Nat /\ d \in Nat
  <2>1. Dues(op) \in SUBSET Caller /\ Dispatching(op) \in SUBSET Thread
    BY DEF Dues, Dispatching
  <2>2. IsFiniteSet(Dues(op)) /\ IsFiniteSet(Dispatching(op))
    BY <2>1, FS_Subset, FiniteThreads
  <2>. QED
    BY <2>2, FS_CardinalityType DEF Dispatched
<1>8. e \in Nat
  <2>1. IsFiniteSet({op}) /\ op_queues \cap {op} \in SUBSET {op}
    BY FS_Singleton
  <2>. QED
    BY <2>1, FS_Subset, FS_CardinalityType
<1>. HIDE DEF p, k, a, b, e, d
<1>9. k \in 0 .. 1
  BY <1>2, <1>3, <1>4, <1>5, <1>6, <1>7, <1>8
<1>. QED
  BY <1>9 DEF k

LEMMA CountTwo ==
  ASSUME NEW X, NEW q \in Seq(X), NEW x, NEW y, x # y
  PROVE  Count(q, {x, y}) = Count(q, {x}) + Count(q, {y})
<1>. DEFINE S == {n \in DOMAIN q : q[n] \in {x}}
            T == {n \in DOMAIN q : q[n] \in {y}}
<1>1. /\ {n \in DOMAIN q : q[n] \in {x, y}} = S \cup T
      /\ S \cap T = {}
  OBVIOUS
<1>2. IsFiniteSet(S) /\ IsFiniteSet(T)
  BY CountType
<1>3. /\ Cardinality(S) \in Nat /\ Cardinality(T) \in Nat
      /\ Count(q, {x}) = Cardinality(S) /\ Count(q, {y}) = Cardinality(T)
      /\ Count(q, {x, y}) = Cardinality(S \cup T)
  BY <1>1, <1>2, FS_CardinalityType DEF Count
<1>. HIDE DEF S, T
<1>4. Cardinality(S \cup T) = Cardinality(S) + Cardinality(T) - Cardinality({})
  BY <1>1, <1>2, FS_Union
<1>. QED
  BY <1>3, <1>4, FS_EmptySet

LEMMA OneThenOne ==
  ASSUME NEW a, NEW b
  PROVE  <<a>> \o <<b>> = <<a, b>>
<1>1. ASSUME NEW X, NEW s \in Seq(X), NEW r \in Seq(X), NEW z \in Seq(X),
             Len(s) = 1, Len(r) = 1, Len(z) = 2, z[1] = s[1], z[2] = r[1]
      PROVE  s \o r = z
  <2>1. /\ s \o r \in Seq(X) /\ Len(s \o r) = 2
        /\ \A i \in 1 .. 2 : (s \o r)[i] = IF i <= 1 THEN s[i] ELSE r[i - 1]
    BY <1>1, ConcatProperties
  <2>2. \A i \in 1 .. 2 : (s \o r)[i] = z[i]
    BY <1>1, <2>1
  <2>. QED
    BY <1>1, <2>1, <2>2, SeqEqual
<1>2. /\ <<a>> \in Seq({a, b}) /\ <<b>> \in Seq({a, b})
      /\ <<a, b>> \in Seq({a, b})
      /\ Len(<<a>>) = 1 /\ Len(<<b>>) = 1 /\ Len(<<a, b>>) = 2
      /\ <<a, b>>[1] = <<a>>[1] /\ <<a, b>>[2] = <<b>>[1]
  OBVIOUS
<1>. QED
  BY <1>1, <1>2

\* What the descriptor gives back when it is deregistered.
LEMMA AbortedQueue ==
  ASSUME op_queues \subseteq ReactorOp
  PROVE  /\ Aborted \in Seq(Operation)
         /\ \A op \in ReactorOp : Count(Aborted, {op}) = In(op, op_queues)
         /\ op_queues # {} =>
              \/ \E op \in Operation : Aborted = <<op>>
              \/ \E op, op2 \in Operation : Aborted = <<op, op2>>
         /\ NoDescriptor(Aborted)
         /\ Count(Aborted, Impl) = 0
<1>. DEFINE r == Only("read_op", op_queues)
            w == Only("write_op", op_queues)
<1>1. /\ r = IF "read_op" \in op_queues THEN <<"read_op">> ELSE <<>>
      /\ w = IF "write_op" \in op_queues THEN <<"write_op">> ELSE <<>>
      /\ Aborted = r \o w
  BY DEF Only, Aborted
<1>2. "read_op" \in Operation /\ "write_op" \in Operation
  BY IoContextAssumption DEF ReactorOp
<1>3. /\ r \in Seq(Operation) /\ w \in Seq(Operation)
      /\ \A S : Count(r, S) = IF "read_op" \in op_queues THEN In("read_op", S) ELSE 0
      /\ \A S : Count(w, S) = IF "write_op" \in op_queues THEN In("write_op", S) ELSE 0
  <2>1. ASSUME NEW op \in Operation
        PROVE  /\ Only(op, op_queues) \in Seq(Operation)
               /\ \A S : Count(Only(op, op_queues), S) =
                           IF op \in op_queues THEN In(op, S) ELSE 0
    <3>1. CASE op \in op_queues
      BY <3>1, CountFew DEF Only
    <3>2. CASE op \notin op_queues
      BY <3>2, CountFew DEF Only
    <3>. QED
      BY <3>1, <3>2
  <2>. QED
    BY <1>2, <2>1
<1>4. /\ Aborted \in Seq(Operation)
      /\ \A S : Count(Aborted, S) = Count(r, S) + Count(w, S)
  BY <1>1, <1>3, CountConcat
<1>5. \A op \in ReactorOp : Count(Aborted, {op}) = In(op, op_queues)
  BY <1>3, <1>4 DEF ReactorOp, In
<1>6. \/ op_queues = {} /\ Aborted = <<>>
      \/ Aborted = <<"read_op">>
      \/ Aborted = <<"write_op">>
      \/ Aborted = <<"read_op", "write_op">>
  <2>5. /\ \A a, b : <<a>> \o <<b>> = <<a, b>>
        /\ \A a : <<a>> \o <<>> = <<a>> /\ <<>> \o <<a>> = <<a>>
    <3>1. \A a, b : <<a>> \o <<b>> = <<a, b>>
      BY OneThenOne
    <3>2. ASSUME NEW a PROVE <<a>> \o <<>> = <<a>> /\ <<>> \o <<a>> = <<a>>
      <4>1. <<a>> \in Seq({a})
        OBVIOUS
      <4>. QED
        BY <4>1, ConcatEmptySeq
    <3>. QED
      BY <3>1, <3>2
  <2>1. CASE "read_op" \in op_queues /\ "write_op" \in op_queues
    BY <1>1, <2>1, <2>5, Zenon
  <2>2. CASE "read_op" \in op_queues /\ "write_op" \notin op_queues
    BY <1>1, <2>2, <2>5, Zenon
  <2>3. CASE "read_op" \notin op_queues /\ "write_op" \in op_queues
    BY <1>1, <2>3, <2>5, Zenon
  <2>4. CASE "read_op" \notin op_queues /\ "write_op" \notin op_queues
    BY <1>1, <2>4 DEF ReactorOp
  <2>. QED
    BY <2>1, <2>2, <2>3, <2>4
<1>7. NoDescriptor(Aborted)
  BY <1>6, IoContextAssumption DEF NoDescriptor, ReactorOp
<1>8. Count(Aborted, Impl) = 0
  BY <1>3, <1>4, IoContextAssumption DEF ReactorOp, In
<1>. QED
  BY <1>2, <1>4, <1>5, <1>6, <1>7, <1>8

LEMMA UsesStep ==
  ASSUME IoSafe, [IoNext]_ioVars
  PROVE  [SchedulerNext]_schedulerVars
<1>1. CASE UNCHANGED ioVars
  BY <1>1 DEF ioVars
<1>2. ASSUME NEW c \in Caller, Signals(c) PROVE SchedulerNext
  BY <1>2 DEF Signals, SchedulerNext
<1>3. ASSUME NEW c \in Caller, post_due(c) PROVE SchedulerNext
  <2>1. /\ due[c] \in Operation /\ c \notin signalling
        /\ \/ post_deferred_completions(c, <<due[c]>>)
           \/ post_immediate_completion(c, due[c])
    BY <1>3, IoTypes DEF post_due
  <2>2. Calls(c)
    BY <2>1 DEF Calls
  <2>3. c \in Thread => pc[c] = "complete"
    BY <1>3 DEF post_due, IoSafe, IoInv, PlaceInv, ThreadPlaces, ThreadPlace
  <2>. QED
    BY <2>1, <2>2, <2>3 DEF SchedulerNext, ThreadCalls, Caller
<1>4. ASSUME NEW t \in Thread, ThreadStep(t)
      PROVE  SchedulerNext \/ UNCHANGED schedulerVars
  <2>1. t \in Thread \ signalling
    BY <1>4 DEF ThreadStep, Completes, Free, start_op_queues
  <2>2. CASE thread_starts(t) \/ thread_runs(t)
    <3>1. Runs(t)
      BY <2>2 DEF thread_starts, thread_runs, Runs
    <3>. QED
      BY <2>1, <3>1 DEF SchedulerNext
  <2>3. CASE epoll_reactor_run(t)
    <3>1. task_run(t, <<>>) \/ task_run(t, <<Descriptor>>)
      BY <2>3 DEF epoll_reactor_run
    <3>2. Runs(t)
      BY <3>1, IoTypes DEF Runs
    <3>. QED
      BY <2>1, <3>2 DEF SchedulerNext
  <2>4. CASE Completes(t)
    <3>1. \/ UNCHANGED schedulerVars
          \/ \E n \in 1 .. 2 : work_started(n)
          \/ \E i \in Impl : post_continuation(t, i)
          \/ compensating_work_started(t)
          \/ on_work_finished
      <4>1. ASSUME NEW i \in Impl, complete_ready_handler(t, i)
            PROVE  UNCHANGED schedulerVars \/ \E n \in 1 .. 2 : work_started(n)
        BY <4>1 DEF complete_ready_handler, async_op
      <4>2. ASSUME NEW i \in Impl, on_do_complete_exit(t, i)
            PROVE  UNCHANGED schedulerVars \/ post_continuation(t, i)
        BY <4>2 DEF on_do_complete_exit
      <4>3. ASSUME complete_descriptor(t)
            PROVE  UNCHANGED schedulerVars \/ compensating_work_started(t)
        BY <4>3 DEF complete_descriptor
      <4>4. ASSUME complete_reactor_op(t) \/ dispatched_handler(t)
                     \/ on_dispatch_exit(t)
            PROVE  UNCHANGED schedulerVars
        BY <4>4 DEF complete_reactor_op, dispatched_handler, on_dispatch_exit
      <4>5. ASSUME handler_work_finishes(t) PROVE on_work_finished
        BY <4>5 DEF handler_work_finishes
      <4>. QED
        BY <2>4, <4>1, <4>2, <4>3, <4>4, <4>5 DEF Completes, complete_strand
    <3>2. pc[t] = "complete"
      BY <2>4 DEF Completes
    <3>3. \/ UNCHANGED schedulerVars
          \/ ThreadCalls(t)
      BY <3>1, <3>2, IoTypes DEF ThreadCalls, Calls
    <3>. QED
      BY <2>1, <3>3 DEF SchedulerNext
  <2>5. CASE start_op_queues(t)
    <3>1. step[t] = "enter" /\ work_started(1)
      BY <2>5 DEF start_op_queues
    <3>2. pc[t] = "complete"
      BY <3>1 DEF IoSafe, IoInv, PlaceInv, ThreadPlaces, ThreadPlace
    <3>3. ThreadCalls(t)
      BY <3>1, <3>2 DEF ThreadCalls, Calls
    <3>. QED
      BY <2>1, <3>3 DEF SchedulerNext
  <2>. QED
    BY <1>4, <2>2, <2>3, <2>4, <2>5 DEF ThreadStep
<1>5. ASSUME WakesSpuriously PROVE SchedulerNext
  BY <1>5 DEF WakesSpuriously, SchedulerNext
<1>6. ASSUME OwnerStep PROVE SchedulerNext \/ UNCHANGED schedulerVars
  <2>1. CASE \/ owner_posts("post_read", "do_receive", "post_write")
             \/ owner_posts("post_write", "do_send", "running")
             \/ owner_joins
    BY <2>1 DEF owner_posts, owner_joins
  <2>2. CASE owner_closes
    <3>1. \/ UNCHANGED schedulerVars
          \/ op_queues # {} /\ post_deferred_completions(Owner, Aborted)
      BY <2>2 DEF owner_closes
    <3>2. op_queues # {} /\ post_deferred_completions(Owner, Aborted) => Calls(Owner)
      BY AbortedQueue, IoTypes DEF Calls
    <3>3. Owner \notin signalling
      BY <2>2 DEF owner_closes, Free
    <3>. QED
      BY <3>1, <3>2, <3>3 DEF SchedulerNext
  <2>3. CASE owner_shuts_down
    <3>1. Count(op_queue_, ReactorOp) \in 0 .. 2
      <4>1. /\ Count(op_queue_, {"read_op"}) \in 0 .. 1
            /\ Count(op_queue_, {"write_op"}) \in 0 .. 1
        BY QueuedOnce DEF ReactorOp
      <4>2. Count(op_queue_, ReactorOp) =
              Count(op_queue_, {"read_op"}) + Count(op_queue_, {"write_op"})
        BY IoTypes, CountTwo DEF ReactorOp
      <4>. QED
        BY <4>1, <4>2
    <3>2. Owner \notin signalling /\ shutdown(Count(op_queue_, ReactorOp))
      BY <2>3 DEF owner_shuts_down, Free
    <3>. QED
      BY <3>1, <3>2 DEF SchedulerNext
  <2>. QED
    BY <1>6, <2>1, <2>2, <2>3 DEF OwnerStep
<1>7. ASSUME owner_stops PROVE SchedulerNext
  BY <1>7 DEF owner_stops, Free, SchedulerNext, Calls
<1>8. ASSUME Arrives \/ RoomToSend \/ IoTerminating PROVE UNCHANGED schedulerVars
  BY <1>8 DEF Arrives, RoomToSend, IoTerminating, ioVars
<1>. QED
  BY <1>1, <1>2, <1>3, <1>4, <1>5, <1>6, <1>7, <1>8 DEF IoNext

-----------------------------------------------------------------------------
(* What every step conserves *)

OpOf(s) == IF s = "m_read_strand" THEN "read_op" ELSE "write_op"

\* How often the chain of s is somewhere.
Expected(s) == IF \/ owner \in {"post_read", "destroyed"}
                  \/ owner = "post_write" /\ s = "m_write_strand"
               THEN 0 ELSE 1

\* The parts of the three sums that a step of c can change.
LockParts(c, i) ==
  Count(op_queue_, {i}) + Own(c, i) + In(c, Holders(i)) - In(TRUE, {locked_[i]})

ChainParts(c, op) == Count(op_queue_, {op}) + Own(c, op) + In(op, op_queues)
                       + In(c, Dispatching(op))

WorkParts(c) == Count(op_queue_, Impl) + 2 * Count(op_queue_, ReactorOp)
                  + 2 * In("read_op", op_queues) + 2 * In("write_op", op_queues)
                  + Load(c) - outstanding_work_

LEMMA OthersPlaced ==
  ASSUME ThreadPlaces, PrivateParts, NEW c \in Caller, OthersStay(c),
         c \in Thread => ThreadPlace(c)' /\ PrivatePart(c)'
  PROVE  ThreadPlaces' /\ PrivateParts'
<1>1. ASSUME NEW u \in Thread \ {c}
      PROVE  ThreadPlace(u)' /\ PrivatePart(u)'
  <2>1. /\ pc'[u] = "complete" <=> pc[u] = "complete"
        /\ pc'[u] = "task_exit" <=> pc[u] = "task_exit"
        /\ step'[u] = step[u] /\ completing'[u] = completing[u]
        /\ private_op_queue'[u] = private_op_queue[u]
        /\ private_outstanding_work'[u] = private_outstanding_work[u]
        /\ due'[u] = due[u]
    BY DEF OthersStay, Stays, Caller
  <2>2. ThreadPlace(u) /\ PrivatePart(u)
    BY DEF ThreadPlaces, PrivateParts
  <2>3. ThreadPlace(u)'
    BY <2>1, <2>2 DEF ThreadPlace
  <2>4. PrivatePart(u)'
    BY <2>1, <2>2 DEF PrivatePart
  <2>. QED
    BY <2>3, <2>4
<1>. QED
  BY <1>1 DEF ThreadPlaces, PrivateParts

LEMMA BothOps ==
  ASSUME NEW ops \in SUBSET ReactorOp
  PROVE  /\ Cardinality(ops) = In("read_op", ops) + In("write_op", ops)
         /\ IsFiniteSet(ops)
<1>1. /\ Cardinality({"read_op"}) = 1 /\ IsFiniteSet({"read_op"})
      /\ Cardinality({"write_op"}) = 1 /\ IsFiniteSet({"write_op"})
      /\ Cardinality({}) = 0 /\ IsFiniteSet({})
  BY FS_Singleton, FS_EmptySet
<1>2. /\ Cardinality({"read_op"} \cup {"write_op"}) = 2
      /\ IsFiniteSet({"read_op"} \cup {"write_op"})
  BY <1>1, FS_AddElement
<1>3. \/ ops = {}
      \/ ops = {"read_op"}
      \/ ops = {"write_op"}
      \/ ops = {"read_op"} \cup {"write_op"}
  BY DEF ReactorOp
<1>4. "read_op" # "write_op"
  OBVIOUS
<1>. QED
  BY <1>1, <1>2, <1>3, <1>4 DEF In

LEMMA Conserves ==
  ASSUME IoSafe, SchedulerInv', ReactorTypeOK', PrivateParts',
         impl_' = impl_, NEW c \in Caller, OthersStay(c),
         owner' # "destroyed" => owner # "destroyed",
         \A i \in Impl : LockParts(c, i)' = LockParts(c, i),
         \A s \in Strand : /\ Posted(s) \in Nat /\ Posted(s)' \in Nat
                           /\ (Posted(s)' + ChainParts(c, OpOf(s))') - Expected(s)' =
                                (Posted(s) + ChainParts(c, OpOf(s))) - Expected(s),
         owner' \in Posting \cup {"running"} =>
           /\ owner \in Posting \cup {"running"}
           /\ WorkParts(c)' = WorkParts(c)
  PROVE  StrandLocks' /\ ChainsAreWhole' /\ WorkCounted'
<1>1. /\ op_queue_ \in Seq(Entry) /\ op_queue_' \in Seq(Entry)
      /\ op_queues \subseteq ReactorOp /\ op_queues' \subseteq ReactorOp
      /\ PrivateParts /\ CountInv
      /\ outstanding_work_ \in Int /\ outstanding_work_' \in Int
  BY IoTypes DEF IoSafe, IoInv, PlaceInv, SchedulerInv, SchedulerTypeOK, Entry,
     ReactorTypeOK
<1>2. \A x, S : In(x, S) \in Nat
  BY DEF In
<1>3. ASSUME NEW op
      PROVE  /\ Links(op) \in Nat /\ Links(op)' \in Nat
             /\ Links(op)' = Links(op)
                  + Count(op_queue_', {op}) - Count(op_queue_, {op})
                  + Own(c, op)' - Own(c, op)
                  + In(op, op_queues') - In(op, op_queues)
             /\ Count(op_queue_', {op}) \in Nat /\ Count(op_queue_, {op}) \in Nat
             /\ Own(c, op)' \in Nat /\ Own(c, op) \in Nat
  <2>1. Own(c, op)' \in Nat /\ Own(c, op) \in Nat
    BY DEF Own, Alone, In
  <2>2. Count(op_queue_', {op}) \in Nat /\ Count(op_queue_, {op}) \in Nat
    BY <1>1, CountType
  <2>. QED
    BY <1>1, <2>1, <2>2, LinksStep
<1>4. ASSUME NEW i \in Impl, owner' # "destroyed"
      PROVE  Links(i)' + Held(i)' = In(TRUE, {locked_'[i]})
  <2>. DEFINE l  == Links(i)
              l1 == Links(i)'
              h  == Held(i)
              h1 == Held(i)'
              k  == Count(op_queue_, {i})
              k1 == Count(op_queue_', {i})
              o  == Own(c, i)
              o1 == Own(c, i)'
              m  == In(c, Holders(i))
              m1 == In(c, Holders(i)')
              b  == In(TRUE, {locked_[i]})
              b1 == In(TRUE, {locked_'[i]})
  <2>1. In(i, op_queues) = 0 /\ In(i, op_queues') = 0
    BY <1>1, IoContextAssumption DEF In
  <2>2. /\ l \in Nat /\ l1 \in Nat /\ k \in Nat /\ k1 \in Nat
        /\ o \in Nat /\ o1 \in Nat /\ l1 = l + k1 - k + o1 - o
    BY <1>3, <2>1
  <2>3. h \in Nat /\ h1 \in Nat /\ h1 = h + m1 - m
    BY HoldersStep
  <2>4. m \in Nat /\ m1 \in Nat /\ b \in Nat /\ b1 \in Nat
    BY <1>2
  <2>5. k1 + o1 + m1 - b1 = k + o + m - b
    BY DEF LockParts
  <2>6. l + h = b
    BY <1>1, <1>4 DEF CountInv, StrandLocks
  <2>. HIDE DEF l, l1, h, h1, k, k1, o, o1, m, m1, b, b1
  <2>7. l1 + h1 = b1
    BY <2>2, <2>3, <2>4, <2>5, <2>6
  <2>. QED
    BY <2>7 DEF l1, h1, b1
<1>5. ASSUME NEW s \in Strand
      PROVE  InFlight(s)' = Expected(s)'
  <2>. DEFINE op == OpOf(s)
              p  == Posted(s)
              p1 == Posted(s)'
              l  == Links(op)
              l1 == Links(op)'
              d  == Dispatched(op)
              d1 == Dispatched(op)'
              k  == Count(op_queue_, {op})
              k1 == Count(op_queue_', {op})
              o  == Own(c, op)
              o1 == Own(c, op)'
              r  == In(op, op_queues)
              r1 == In(op, op_queues')
              m  == In(c, Dispatching(op))
              m1 == In(c, Dispatching(op)')
              e  == Expected(s)
              e1 == Expected(s)'
  <2>1. InFlight(s) = p + l + d
    BY DEF InFlight, OpOf, Dispatched, Dispatching
  <2>2. InFlight(s)' = p1 + l1 + d1
    BY DEF InFlight, OpOf, Dispatched, Dispatching
  <2>3. InFlight(s) = e
    BY <1>1 DEF CountInv, ChainsAreWhole, Expected
  <2>4. /\ l \in Nat /\ l1 \in Nat /\ k \in Nat /\ k1 \in Nat
        /\ o \in Nat /\ o1 \in Nat /\ l1 = l + k1 - k + o1 - o + r1 - r
    BY <1>3
  <2>5. d \in Nat /\ d1 \in Nat /\ d1 = d + m1 - m
    BY HoldersStep
  <2>6. m \in Nat /\ m1 \in Nat /\ r \in Nat /\ r1 \in Nat
    BY <1>2
  <2>7. (p1 + (k1 + o1 + r1 + m1)) - e1 = (p + (k + o + r + m)) - e
    BY DEF ChainParts
  <2>8. p \in Nat /\ p1 \in Nat
    OBVIOUS
  <2>9. e \in Nat /\ e1 \in Nat
    BY DEF Expected
  <2>10. e = p + l + d
    BY <2>1, <2>3
  <2>. HIDE DEF p, p1, l, l1, d, d1, k, k1, o, o1, r, r1, m, m1, e, e1
  <2>11. p1 + l1 + d1 = e1
    BY <2>4, <2>5, <2>6, <2>7, <2>8, <2>9, <2>10
  <2>. QED
    BY <2>2, <2>11 DEF p1, l1, d1, e1
<1>6. WorkCounted'
  <2>. SUFFICES ASSUME owner' \in Posting \cup {"running"}
                PROVE  outstanding_work_' =
                         Count(op_queue_', Impl) + 2 * Count(op_queue_', ReactorOp)
                           + 2 * Cardinality(op_queues') + Carried'
    BY DEF WorkCounted
  <2>. DEFINE w  == outstanding_work_
              w1 == outstanding_work_'
              i  == Count(op_queue_, Impl)
              i1 == Count(op_queue_', Impl)
              r  == Count(op_queue_, ReactorOp)
              r1 == Count(op_queue_', ReactorOp)
              x  == In("read_op", op_queues)
              x1 == In("read_op", op_queues')
              y  == In("write_op", op_queues)
              y1 == In("write_op", op_queues')
              n  == Carried
              n1 == Carried'
              l  == Load(c)
              l1 == Load(c)'
  <2>1. w = i + 2 * r + 2 * (x + y) + n
    <3>1. Cardinality(op_queues) = x + y
      BY <1>1, BothOps
    <3>2. w = i + 2 * r + 2 * Cardinality(op_queues) + n
      BY <1>1 DEF CountInv, WorkCounted
    <3>. QED
      BY <3>1, <3>2
  <2>2. Cardinality(op_queues') = x1 + y1
    BY <1>1, BothOps
  <2>3. i + 2 * r + 2 * x + 2 * y + l - w = i1 + 2 * r1 + 2 * x1 + 2 * y1 + l1 - w1
    BY DEF WorkParts
  <2>4. n \in Nat /\ n1 \in Nat /\ l \in Nat /\ l1 \in Nat /\ n1 = n + l1 - l
    BY <1>1, CarriedStep
  <2>5. /\ i \in Nat /\ i1 \in Nat /\ r \in Nat /\ r1 \in Nat
        /\ x \in Nat /\ x1 \in Nat /\ y \in Nat /\ y1 \in Nat
        /\ w \in Int /\ w1 \in Int
    BY <1>1, <1>2, CountType
  <2>. HIDE DEF w, w1, i, i1, r, r1, x, x1, y, y1, n, n1, l, l1
  <2>6. w1 = i1 + 2 * r1 + 2 * (x1 + y1) + n1
    BY <2>1, <2>3, <2>4, <2>5
  <2>. QED
    BY <2>2, <2>6 DEF w1, i1, r1, x1, y1, n1
<1>7. StrandLocks' /\ ChainsAreWhole'
  BY <1>4, <1>5 DEF StrandLocks, ChainsAreWhole, Expected
<1>. QED
  BY <1>6, <1>7

-----------------------------------------------------------------------------
(* From what a step changes to the invariant *)

OwnerAt == {"post_read", "post_write", "running", "join", "close", "shutdown",
            "destroyed"}

HandlerTypeOK ==
  /\ owner \in OwnerAt
  /\ step \in [Thread -> {"enter", "body", "leave", "finish", "cleanup"}]
  /\ completing \in [Thread -> Operation \cup {None}]
  /\ events \in [Thread -> SUBSET ReactorOp]
  /\ due \in [Caller -> Operation \cup {None}]

LEMMA PostedType ==
  ASSUME StrandInv, NEW s \in Strand
  PROVE  Posted(s) \in Nat
<1>. DEFINE i == impl_[s]
<1>1. /\ ready_queue_[i] \in Seq(Handler) /\ waiting_queue_[i] \in Seq(Handler)
  BY IoContextAssumption DEF StrandInv, StrandTypeOK
<1>2. /\ Count(ready_queue_[i], HandlersOf(s)) \in Nat
      /\ Count(waiting_queue_[i], HandlersOf(s)) \in Nat
  BY <1>1, CountType
<1>. QED
  BY <1>2 DEF Posted, HandlersOf

LEMMA PostedNextType ==
  ASSUME StrandInv', NEW s \in Strand
  PROVE  Posted(s)' \in Nat
<1>. DEFINE i == impl_'[s]
<1>1. /\ ready_queue_'[i] \in Seq(Handler) /\ waiting_queue_'[i] \in Seq(Handler)
  BY IoContextAssumption DEF StrandInv, StrandTypeOK
<1>2. /\ Count(ready_queue_'[i], HandlersOf(s)) \in Nat
      /\ Count(waiting_queue_'[i], HandlersOf(s)) \in Nat
  BY <1>1, CountType
<1>. QED
  BY <1>2 DEF Posted, HandlersOf

LEMMA SafeNext ==
  ASSUME IoSafe, SchedulerInv', ReactorTypeOK', StrandInv', HandlerTypeOK',
         impl_' = impl_, NEW c \in Caller, OthersStay(c),
         c \in Thread => ThreadPlace(c)' /\ PrivatePart(c)',
         OwnerPlace', DescriptorFirst(op_queue_'), WorkLasts',
         owner' # "destroyed" => owner # "destroyed",
         \A i \in Impl : LockParts(c, i)' = LockParts(c, i),
         \A s \in Strand : (Posted(s)' + ChainParts(c, OpOf(s))') - Expected(s)' =
                             (Posted(s) + ChainParts(c, OpOf(s))) - Expected(s),
         owner' \in Posting \cup {"running"} =>
           /\ owner \in Posting \cup {"running"}
           /\ WorkParts(c)' = WorkParts(c)
  PROVE  IoSafe'
<1>1. ThreadPlaces' /\ PrivateParts'
  BY OthersPlaced DEF IoSafe, IoInv, PlaceInv
<1>2. \A s \in Strand : Posted(s) \in Nat /\ Posted(s)' \in Nat
  <2>1. \A s \in Strand : Posted(s) \in Nat
    BY IoTypes, PostedType
  <2>2. \A s \in Strand : Posted(s)' \in Nat
    BY PostedNextType
  <2>. QED
    BY <2>1, <2>2
<1>3. StrandLocks' /\ ChainsAreWhole' /\ WorkCounted'
  BY <1>1, <1>2, Conserves
<1>4. IoTypeOK'
  BY DEF IoTypeOK, SchedulerInv, StrandInv, HandlerTypeOK, OwnerAt
<1>5. PlaceInv'
  BY <1>1 DEF PlaceInv, StrandInv
<1>. QED
  BY <1>3, <1>4, <1>5 DEF IoSafe, IoInv, CountInv

\* A thread in run(): its owner waits for it, or does nothing.
LEMMA ThreadSafeNext ==
  ASSUME IoSafe, SchedulerInv', ReactorTypeOK', StrandInv',
         NEW t \in Thread, pc[t] \notin {"idle", "done"}, OthersStay(t),
         owner' = owner, impl_' = impl_,
         step' \in [Thread -> {"enter", "body", "leave", "finish", "cleanup"}],
         completing' \in [Thread -> Operation \cup {None}],
         events' \in [Thread -> SUBSET ReactorOp],
         due' \in [Caller -> Operation \cup {None}],
         ThreadPlace(t)', PrivatePart(t)', DescriptorFirst(op_queue_'),
         owner = "running" /\ stopped_' => stopped_,
         \A i \in Impl : LockParts(t, i)' = LockParts(t, i),
         \A s \in Strand : Posted(s)' + ChainParts(t, OpOf(s))' =
                             Posted(s) + ChainParts(t, OpOf(s)),
         WorkParts(t)' = WorkParts(t)
  PROVE  IoSafe'
<1>1. t \in Caller /\ Owner \in Caller \ {t}
  BY SchedulerAssumption DEF Caller
<1>2. owner \in {"running", "join"} /\ due[Owner] = None
  <2>1. OwnerPlace /\ owner \in OwnerAt
    BY DEF IoSafe, IoInv, PlaceInv, IoTypeOK, OwnerAt
  <2>. QED
    BY <2>1 DEF OwnerPlace, OwnerAt, Posting, Closed
<1>3. due'[Owner] = None
  BY <1>1, <1>2 DEF OthersStay
<1>4. OwnerPlace'
  BY <1>2, <1>3 DEF OwnerPlace, Posting, Closed
<1>5. WorkLasts'
  <2>1. WorkLasts
    BY DEF IoSafe, IoInv, CountInv
  <2>. QED
    BY <1>2, <2>1 DEF WorkLasts
<1>6. HandlerTypeOK'
  BY <1>2 DEF HandlerTypeOK, OwnerAt
<1>7. \A s : Expected(s)' = Expected(s)
  BY DEF Expected
<1>8. ASSUME NEW s \in Strand
      PROVE  (Posted(s)' + ChainParts(t, OpOf(s))') - Expected(s)' =
               (Posted(s) + ChainParts(t, OpOf(s))) - Expected(s)
  BY <1>7
<1>. QED
  BY <1>1, <1>4, <1>5, <1>6, <1>8, SafeNext

\* Nothing that is counted moves.
LEMMA QuietStep ==
  ASSUME IoSafe, SchedulerInv', ReactorTypeOK', NEW c \in Caller,
         UNCHANGED <<op_queue_, outstanding_work_, privateVars, op_queues,
                     strandVars, impl_, handlerVars, due>>,
         \A u \in Thread \ {c} : Stays(u),
         c \in Thread => \/ Stays(c)
                         \/ pc[c] = "idle" /\ pc'[c] \in {"lock", "done"},
         owner' \in OwnerAt, OwnerPlace', WorkLasts',
         owner' = owner \/ {owner, owner'} \subseteq OwnerAt \ (Posting \cup {"destroyed"}),
         owner' = "running" => owner = "running"
  PROVE  IoSafe'
<1>1. OthersStay(c)
  BY DEF OthersStay, handlerVars, privateVars
<1>2. /\ op_queue_' = op_queue_ /\ outstanding_work_' = outstanding_work_
      /\ private_op_queue' = private_op_queue /\ op_queues' = op_queues
      /\ private_outstanding_work' = private_outstanding_work
      /\ locked_' = locked_ /\ ready_queue_' = ready_queue_
      /\ waiting_queue_' = waiting_queue_ /\ impl_' = impl_
      /\ step' = step /\ completing' = completing /\ events' = events
      /\ due' = due
  BY DEF privateVars, strandVars, handlerVars
<1>3. StrandInv' /\ HandlerTypeOK'
  <2>1. StrandInv /\ HandlerTypeOK
    BY IoTypes DEF IoSafe, IoTypeOK, HandlerTypeOK, OwnerAt
  <2>2. StrandInv'
    BY <1>2, <2>1 DEF StrandInv, StrandTypeOK, HandlersPlaced, PlacedIn,
       UnlockedEmpty
  <2>. QED
    BY <1>2, <2>1, <2>2 DEF HandlerTypeOK
<1>4. ASSUME c \in Thread
      PROVE  /\ pc'[c] = "complete" <=> pc[c] = "complete"
             /\ pc'[c] = "task_exit" <=> pc[c] = "task_exit"
  BY <1>4 DEF Stays
<1>5. c \in Thread => ThreadPlace(c)' /\ PrivatePart(c)'
  <2>1. c \in Thread => ThreadPlace(c) /\ PrivatePart(c)
    BY DEF IoSafe, IoInv, PlaceInv, ThreadPlaces, PrivateParts
  <2>2. c \in Thread => ThreadPlace(c)'
    BY <1>2, <1>4, <2>1 DEF ThreadPlace
  <2>3. c \in Thread => PrivatePart(c)'
    BY <1>2, <1>4, <2>1 DEF PrivatePart
  <2>. QED
    BY <2>2, <2>3
<1>6. DescriptorFirst(op_queue_')
  BY <1>2 DEF IoSafe, IoInv, PlaceInv
<1>7. \A i \in Impl : LockParts(c, i)' = LockParts(c, i)
  BY <1>2 DEF LockParts, Own, Alone, Holders, Holds
<1>8. ASSUME NEW s \in Strand
      PROVE  (Posted(s)' + ChainParts(c, OpOf(s))') - Expected(s)' =
               (Posted(s) + ChainParts(c, OpOf(s))) - Expected(s)
  <2>1. Posted(s)' = Posted(s)
    BY <1>2 DEF Posted
  <2>2. ChainParts(c, OpOf(s))' = ChainParts(c, OpOf(s))
    BY <1>2 DEF ChainParts, Own, Alone, Dispatching
  <2>3. Expected(s)' = Expected(s)
    BY DEF Expected, OwnerAt, Posting
  <2>. QED
    BY <2>1, <2>2, <2>3
<1>9. WorkParts(c)' = WorkParts(c)
  <2>1. Load(c)' = Load(c)
    BY <1>2, <1>4 DEF Load, Weight
  <2>. QED
    BY <1>2, <2>1 DEF WorkParts
<1>10. /\ owner' # "destroyed" => owner # "destroyed"
       /\ owner' \in Posting \cup {"running"} => owner \in Posting \cup {"running"}
  BY DEF OwnerAt, Posting
<1>. QED
  BY <1>1, <1>2, <1>3, <1>5, <1>6, <1>7, <1>8, <1>9, <1>10, SafeNext

-----------------------------------------------------------------------------
(* The work there is *)

LEMMA CountZero ==
  ASSUME NEW X, NEW q \in Seq(X), NEW S
  PROVE  Count(q, S) = 0 <=> \A n \in DOMAIN q : q[n] \notin S
<1>1. IsFiniteSet({n \in DOMAIN q : q[n] \in S})
  BY CountType
<1>2. Cardinality({n \in DOMAIN q : q[n] \in S}) = 0 <=>
        {n \in DOMAIN q : q[n] \in S} = {}
  BY <1>1, FS_EmptySet
<1>. QED
  BY <1>2 DEF Count

\* Work that is counted elsewhere than in a cleanup that has nothing to put back.
WorkElsewhere ==
  \/ Count(op_queue_, Impl) # 0 \/ Count(op_queue_, ReactorOp) # 0
  \/ op_queues # {}
  \/ \E u \in Thread : /\ Weight(u) >= 1
                       /\ step[u] # "cleanup" \/ private_op_queue[u] # <<>>

LEMMA WorkOfCompleting ==
  ASSUME IoSafe, NEW u \in Thread, completing[u] \in Impl \cup ReactorOp
  PROVE  Weight(u) >= 1 /\ step[u] # "cleanup"
<1>1. completing[u] # None /\ ThreadPlace(u)
  BY IoContextAssumption DEF IoSafe, IoInv, PlaceInv, ThreadPlaces
<1>2. step[u] # "cleanup" /\ pc[u] = "complete" /\ completing[u] # Descriptor
  BY <1>1, IoContextAssumption DEF ThreadPlace
<1>. QED
  BY <1>2 DEF Weight

LEMMA LinkedElsewhere ==
  ASSUME IoSafe, due[Owner] = None, NEW op \in Impl \cup ReactorOp, Links(op) # 0
  PROVE  WorkElsewhere
<1>1. /\ op # None /\ op # Descriptor /\ None \notin Impl /\ None \notin ReactorOp
      /\ Descriptor \notin Impl /\ Descriptor \notin ReactorOp
  BY IoContextAssumption
<1>2. PrivateParts /\ ThreadPlaces
  BY DEF IoSafe, IoInv, PlaceInv
<1>3. CASE Count(op_queue_, {op}) # 0
  <2>1. op_queue_ \in Seq(Entry)
    BY IoTypes
  <2>2. \E n \in DOMAIN op_queue_ : op_queue_[n] = op
    BY <1>3, <2>1, CountZero
  <2>3. Count(op_queue_, Impl) # 0 \/ Count(op_queue_, ReactorOp) # 0
    BY <2>1, <2>2, CountZero
  <2>. QED
    BY <2>3 DEF WorkElsewhere
<1>4. CASE Pairs(private_op_queue, op) # {}
  <2>1. PICK u \in Thread, n \in 1 .. 2 :
          n \in DOMAIN private_op_queue[u] /\ private_op_queue[u][n] = op
    BY <1>4 DEF Pairs
  <2>2. private_op_queue[u] # <<>> /\ private_op_queue[u] # <<Descriptor>>
    BY <1>1, <2>1
  <2>3. /\ pc[u] = "complete" /\ step[u] = "cleanup"
        /\ private_outstanding_work[u] = 1
    BY <1>2, <2>2 DEF PrivateParts, PrivatePart
  <2>4. Weight(u) = 1
    BY <2>2, <2>3 DEF Weight
  <2>. QED
    BY <2>2, <2>4 DEF WorkElsewhere
<1>5. CASE Dues(op) # {}
  <2>1. PICK c \in Caller : due[c] = op
    BY <1>5 DEF Dues
  <2>2. c \in Thread
    BY <1>1, <2>1 DEF Caller
  <2>3. completing[c] \in Impl \cup ReactorOp
    BY <1>2, <2>1, <2>2 DEF ThreadPlaces, ThreadPlace
  <2>. QED
    BY <2>2, <2>3, WorkOfCompleting DEF WorkElsewhere
<1>6. CASE op_queues \cap {op} # {}
  BY <1>6 DEF WorkElsewhere
<1>7. CASE /\ Count(op_queue_, {op}) = 0 /\ Pairs(private_op_queue, op) = {}
           /\ Dues(op) = {} /\ op_queues \cap {op} = {}
  <2>1. Links(op) = 0 + 0 + 0 + 0
    BY <1>7, FS_EmptySet DEF Links, Pairs, Dues
  <2>. QED
    BY <2>1
<1>. QED
  BY <1>3, <1>4, <1>5, <1>6, <1>7

LEMMA ChainElsewhere ==
  ASSUME IoSafe, owner = "running", due[Owner] = None
  PROVE  WorkElsewhere
<1>. DEFINE s == "m_read_strand"
            i == impl_[s]
<1>1. /\ s \in Strand /\ i \in Impl /\ StrandInv
      /\ InFlight(s) = Posted(s) + Links("read_op") + Dispatched("read_op")
      /\ InFlight(s) = 1 /\ "read_op" \in ReactorOp
  BY IoTypes DEF Strand, IoSafe, IoInv, CountInv, ChainsAreWhole, InFlight,
     Dispatched, Dispatching, ReactorOp
<1>2. CASE Links("read_op") # 0
  BY <1>1, <1>2, LinkedElsewhere
<1>3. CASE Dispatched("read_op") # 0
  <2>1. Dispatching("read_op") # {}
    BY <1>3, FS_EmptySet DEF Dispatched
  <2>2. PICK u \in Thread : completing[u] = "read_op"
    BY <2>1 DEF Dispatching
  <2>. QED
    BY <1>1, <2>2, WorkOfCompleting DEF WorkElsewhere
<1>4. CASE Links("read_op") = 0 /\ Dispatched("read_op") = 0
  <2>1. Posted(s) # 0
    BY <1>1, <1>4
  <2>2. locked_[i]
    <3>1. ASSUME ready_queue_[i] = <<>>, waiting_queue_[i] = <<>>
          PROVE  Posted(s) = 0
      BY <3>1, CountFew DEF Posted
    <3>. QED
      BY <1>1, <2>1, <3>1 DEF StrandInv, UnlockedEmpty
  <2>3. Links(i) + Held(i) = 1
    <3>1. Links(i) + Held(i) = In(TRUE, {locked_[i]})
      BY <1>1 DEF IoSafe, IoInv, CountInv, StrandLocks
    <3>2. locked_[i] = TRUE
      BY <1>1, <2>2 DEF StrandInv, StrandTypeOK
    <3>. QED
      BY <3>1, <3>2 DEF In
  <2>4. CASE Links(i) # 0
    BY <1>1, <2>4, LinkedElsewhere
  <2>5. CASE Held(i) # 0
    <3>1. Holders(i) # {}
      BY <2>5, FS_EmptySet DEF Held, Holders
    <3>2. PICK u \in Thread : completing[u] \in Impl \cup ReactorOp
      BY <1>1, <3>1 DEF Holders, Holds
    <3>. QED
      BY <3>2, WorkOfCompleting DEF WorkElsewhere
  <2>6. Links(i) # 0 \/ Held(i) # 0
    BY <2>3
  <2>. QED
    BY <2>4, <2>5, <2>6
<1>. QED
  BY <1>2, <1>3, <1>4

LEMMA WorkThere ==
  ASSUME IoSafe, owner = "running", due[Owner] = None
  PROVE  /\ outstanding_work_ >= 1
         /\ \A t \in Thread : Weight(t) >= 2 => outstanding_work_ >= 2
         /\ \A t \in Thread : Weight(t) >= 1 =>
              \/ step[t] # "cleanup" \/ private_op_queue[t] # <<>>
              \/ outstanding_work_ >= 2
<1>. DEFINE i == Count(op_queue_, Impl)
            r == Count(op_queue_, ReactorOp)
            n == Cardinality(op_queues)
            h == Cardinality(Heavy(1))
            k == Cardinality(Heavy(2))
<1>1. \A m \in 1 .. 4 : IsFiniteSet(Heavy(m)) /\ Cardinality(Heavy(m)) \in Nat
  <2>1. \A m : Heavy(m) \in SUBSET Thread
    BY DEF Heavy
  <2>. QED
    BY <2>1, FiniteThreads, FS_Subset, FS_CardinalityType
<1>2. i \in Nat /\ r \in Nat /\ n \in Nat /\ h \in Nat /\ k \in Nat
  <2>1. i \in Nat /\ r \in Nat
    BY IoTypes, CountType
  <2>2. n \in Nat
    BY IoTypes, BothOps, FS_CardinalityType
  <2>. QED
    BY <1>1, <2>1, <2>2
<1>3. outstanding_work_ >= i + 2 * r + 2 * n + h + k
  <2>1. outstanding_work_ = i + 2 * r + 2 * n + Carried
    BY DEF IoSafe, IoInv, CountInv, WorkCounted
  <2>2. PICK l \in Nat : Carried = h + k + l
    <3>. DEFINE l == Cardinality(Heavy(3))
                m == Cardinality(Heavy(4))
    <3>1. Carried = h + k + l + m /\ l \in Nat /\ m \in Nat
      BY <1>1 DEF Carried
    <3>. HIDE DEF h, k, l, m
    <3>2. Carried = h + k + (l + m) /\ l + m \in Nat
      BY <1>2, <3>1
    <3>. QED
      BY <3>2
  <2>. HIDE DEF i, r, n, h, k
  <2>. QED
    BY <1>2, <2>1, <2>2
<1>4. ASSUME NEW t \in Thread PROVE Weight(t) \in Nat
  <2>1. private_outstanding_work[t] = 0 \/ private_outstanding_work[t] = 1
    BY DEF IoSafe, IoInv, PlaceInv, PrivateParts, PrivatePart
  <2>2. Weight(t) \in {0, 1, 2, 4}
    BY <2>1 DEF Weight
  <2>. QED
    BY <2>2
<1>5. ASSUME NEW t \in Thread, Weight(t) >= 1 PROVE h >= 1
  <2>1. t \in Heavy(1)
    BY <1>5 DEF Heavy
  <2>2. h # 0
    BY <1>1, <2>1, FS_EmptySet
  <2>. QED
    BY <1>2, <2>2
<1>6. ASSUME NEW t \in Thread, Weight(t) >= 2 PROVE k >= 1
  <2>1. t \in Heavy(2)
    BY <1>6 DEF Heavy
  <2>2. k # 0
    BY <1>1, <2>1, FS_EmptySet
  <2>. QED
    BY <1>2, <2>2
<1>7. ASSUME NEW t \in Thread, NEW u \in Thread, t # u, Weight(t) >= 1,
             Weight(u) >= 1
      PROVE  h >= 2
  <2>1. {t} \cup {u} \in SUBSET Heavy(1)
    BY <1>7 DEF Heavy
  <2>2. Cardinality({t} \cup {u}) = 2
    <3>1. Cardinality({t}) = 1 /\ IsFiniteSet({t})
      BY FS_Singleton
    <3>. QED
      BY <1>7, <3>1, FS_AddElement
  <2>3. Cardinality({t} \cup {u}) <= h
    BY <1>1, <2>1, FS_Subset
  <2>. QED
    BY <1>2, <2>2, <2>3
<1>8. op_queues # {} => n # 0
  BY IoTypes, BothOps, FS_EmptySet
<1>9. WorkElsewhere
  BY ChainElsewhere
<1>. HIDE DEF i, r, n, h, k
<1>10. outstanding_work_ \in Int
  BY IoTypes
<1>11. CASE \E u \in Thread : /\ Weight(u) >= 1
                              /\ step[u] # "cleanup" \/ private_op_queue[u] # <<>>
  <2>1. PICK u \in Thread : /\ Weight(u) >= 1
                            /\ step[u] # "cleanup" \/ private_op_queue[u] # <<>>
    BY <1>11
  <2>2. h >= 1
    BY <1>5, <2>1
  <2>3. ASSUME NEW t \in Thread, Weight(t) >= 2 PROVE outstanding_work_ >= 2
    <3>1. k >= 1
      BY <1>6, <2>3
    <3>. QED
      BY <1>2, <1>3, <1>10, <2>2, <3>1
  <2>4. ASSUME NEW t \in Thread, Weight(t) >= 1, step[t] = "cleanup",
               private_op_queue[t] = <<>>
        PROVE  outstanding_work_ >= 2
    <3>1. h >= 2
      BY <1>7, <2>1, <2>4
    <3>. QED
      BY <1>2, <1>3, <1>10, <3>1
  <2>5. outstanding_work_ >= 1
    BY <1>2, <1>3, <1>10, <2>2
  <2>. QED
    BY <2>3, <2>4, <2>5
<1>12. CASE i # 0 \/ r # 0 \/ n # 0
  <2>1. outstanding_work_ >= 1 /\ (h >= 1 => outstanding_work_ >= 2)
    BY <1>2, <1>3, <1>10, <1>12
  <2>2. \A t \in Thread : Weight(t) >= 2 => Weight(t) >= 1
    BY <1>4
  <2>. QED
    BY <1>5, <2>1, <2>2
<1>. QED
  BY <1>8, <1>9, <1>11, <1>12 DEF WorkElsewhere, i, r

-----------------------------------------------------------------------------
(* The steps that move nothing *)

LEMMA OwnerIsCaller == Owner \in Caller /\ Owner \notin Thread
BY SchedulerAssumption DEF Caller

LEMMA OwnerPlaceKept ==
  ASSUME IoSafe, \A t \in Thread : Stays(t), owner' = owner, due' = due,
         op_queues' = op_queues, op_queue_' = op_queue_
  PROVE  OwnerPlace'
<1>1. OwnerPlace
  BY DEF IoSafe, IoInv, PlaceInv
<1>. QED
  BY <1>1 DEF OwnerPlace, Stays

LEMMA WakesStep ==
  ASSUME IoSafe, SchedulerInv',
         (\E c \in Caller : Signals(c)) \/ WakesSpuriously
  PROVE  IoSafe'
<1>1. /\ UNCHANGED <<op_queue_, outstanding_work_, stopped_, privateVars>>
      /\ UNCHANGED <<reactorVars, strandVars, impl_, owner, handlerVars, due>>
      /\ \/ pc' = pc
         \/ \E t \in Thread : pc[t] = "blocked" /\ pc' = [pc EXCEPT ![t] = "woken"]
  BY DEF Signals, cond_signal, WakesSpuriously, spurious_wakeup
<1>2. \A t \in Thread : Stays(t)
  BY <1>1, IoTypes DEF Stays
<1>3. /\ UNCHANGED <<op_queue_, outstanding_work_, privateVars, op_queues,
                     strandVars, impl_, handlerVars, due>>
      /\ owner' = owner /\ stopped_' = stopped_ /\ due' = due
      /\ op_queues' = op_queues /\ op_queue_' = op_queue_
  BY <1>1 DEF reactorVars
<1>4. ReactorTypeOK'
  BY <1>1 DEF IoSafe, IoTypeOK, ReactorTypeOK, reactorVars, kernelVars
<1>5. OwnerPlace'
  BY <1>2, <1>3, OwnerPlaceKept
<1>6. WorkLasts' /\ owner' \in OwnerAt
  BY <1>3 DEF IoSafe, IoTypeOK, IoInv, CountInv, WorkLasts, OwnerAt
<1>. QED
  BY <1>2, <1>3, <1>4, <1>5, <1>6, OwnerIsCaller, QuietStep

LEMMA StillStep ==
  ASSUME IoSafe, SchedulerInv',
         Arrives \/ RoomToSend \/ UNCHANGED ioVars
  PROVE  IoSafe'
<1>1. /\ UNCHANGED schedulerVars /\ op_queues' = op_queues
      /\ UNCHANGED <<strandVars, impl_, owner, handlerVars, due>>
  BY DEF Arrives, RoomToSend, ioVars, reactorVars, datagram_arrives, room_to_send
<1>2. ReactorTypeOK'
  <2>1. ReactorTypeOK
    BY DEF IoSafe, IoTypeOK
  <2>2. CASE datagram_arrives
    BY <2>1, <2>2, ReactorAssumption DEF ReactorTypeOK, datagram_arrives
  <2>3. CASE room_to_send
    BY <2>1, <2>3 DEF ReactorTypeOK, room_to_send
  <2>4. CASE UNCHANGED ioVars
    BY <2>1, <2>4 DEF ReactorTypeOK, ioVars, reactorVars, kernelVars
  <2>. QED
    BY <2>2, <2>3, <2>4 DEF Arrives, RoomToSend
<1>3. /\ \A t \in Thread : Stays(t)
      /\ UNCHANGED <<op_queue_, outstanding_work_, privateVars, op_queues,
                     strandVars, impl_, handlerVars, due>>
      /\ owner' = owner /\ stopped_' = stopped_ /\ due' = due
      /\ op_queues' = op_queues /\ op_queue_' = op_queue_
  BY <1>1 DEF Stays, schedulerVars
<1>4. OwnerPlace'
  BY <1>3, OwnerPlaceKept
<1>5. WorkLasts' /\ owner' \in OwnerAt
  BY <1>3 DEF IoSafe, IoTypeOK, IoInv, CountInv, WorkLasts, OwnerAt
<1>. QED
  BY <1>2, <1>3, <1>4, <1>5, OwnerIsCaller, QuietStep

LEMMA OwnerWaitsStep ==
  ASSUME IoSafe, SchedulerInv', owner_stops \/ owner_joins
  PROVE  IoSafe'
<1>1. /\ Free(Owner) /\ owner \in {"running", "join"}
      /\ UNCHANGED <<op_queue_, outstanding_work_, privateVars>>
      /\ UNCHANGED <<reactorVars, strandVars, impl_, handlerVars, due>>
      /\ \/ owner' = "join"
         \/ owner' = "close" /\ \A t \in Thread : pc'[t] = "done"
  BY DEF owner_stops, stop, owner_joins, schedulerVars
<1>2. \A t \in Thread : Stays(t)
  <2>1. CASE owner_stops
    BY <2>1 DEF owner_stops, stop, stop_all_threads, Stays
  <2>2. CASE owner_joins
    BY <2>2 DEF owner_joins, schedulerVars, Stays
  <2>. QED
    BY <2>1, <2>2
<1>3. /\ UNCHANGED <<op_queue_, outstanding_work_, privateVars, op_queues,
                     strandVars, impl_, handlerVars, due>>
      /\ due' = due
  BY <1>1 DEF reactorVars
<1>4. ReactorTypeOK'
  BY <1>1 DEF IoSafe, IoTypeOK, ReactorTypeOK, reactorVars, kernelVars
<1>5. OwnerPlace'
  BY <1>1, <1>3 DEF Free, OwnerPlace, Posting, Closed
<1>6. WorkLasts' /\ owner' \in OwnerAt /\ owner' # "running"
  BY <1>1 DEF WorkLasts, OwnerAt
<1>7. {owner, owner'} \subseteq OwnerAt \ (Posting \cup {"destroyed"})
  BY <1>1 DEF OwnerAt, Posting
<1>. QED
  BY <1>2, <1>3, <1>4, <1>5, <1>6, <1>7, OwnerIsCaller, QuietStep

\* run() is entered: there is work, or the owner has called stop().
LEMMA StartsStep ==
  ASSUME IoSafe, SchedulerInv', NEW t \in Thread, thread_starts(t),
         UNCHANGED <<strandVars, impl_, owner, due>>
  PROVE  IoSafe'
<1>1. /\ owner \notin Posting /\ due[Owner] = None /\ pc[t] = "idle"
      /\ UNCHANGED <<op_queue_, outstanding_work_, privateVars>>
      /\ UNCHANGED <<reactorVars, handlerVars>>
      /\ \/ outstanding_work_ = 0 /\ stop_all_threads([pc EXCEPT ![t] = "done"])
         \/ pc' = [pc EXCEPT ![t] = "lock"] /\ stopped_' = stopped_
  BY DEF thread_starts, run, Free, Posting
<1>2. pc \in [Thread -> Place] /\ owner \in OwnerAt
  BY IoTypes DEF IoSafe, IoTypeOK, OwnerAt
<1>3. pc'[t] \in {"lock", "done"} /\ \A u \in Thread \ {t} : Stays(u)
  <2>1. CASE stop_all_threads([pc EXCEPT ![t] = "done"])
    BY <1>2, <2>1 DEF stop_all_threads, Stays
  <2>2. CASE pc' = [pc EXCEPT ![t] = "lock"]
    BY <1>2, <2>2 DEF Stays
  <2>. QED
    BY <1>1, <2>1, <2>2
<1>4. owner \in {"running", "join"}
  <2>1. owner \notin Closed
    BY <1>1 DEF IoSafe, IoInv, PlaceInv, OwnerPlace
  <2>. QED
    BY <1>1, <1>2, <2>1 DEF OwnerAt, Posting, Closed
<1>5. WorkLasts'
  <2>1. WorkLasts
    BY DEF IoSafe, IoInv, CountInv
  <2>2. owner = "running" => outstanding_work_ # 0
    BY <1>1, IoTypes, WorkThere
  <2>. QED
    BY <1>1, <1>4, <2>1, <2>2 DEF WorkLasts
<1>6. OwnerPlace'
  BY <1>1, <1>4 DEF OwnerPlace, Posting, Closed
<1>7. ReactorTypeOK'
  BY <1>1 DEF IoSafe, IoTypeOK, ReactorTypeOK, reactorVars, kernelVars
<1>8. UNCHANGED <<op_queue_, outstanding_work_, privateVars, op_queues,
                  strandVars, impl_, handlerVars, due>>
  BY <1>1 DEF reactorVars
<1>. QED
  BY <1>1, <1>2, <1>3, <1>5, <1>6, <1>7, <1>8, QuietStep DEF Caller

-----------------------------------------------------------------------------
(* A thread runs *)

\* What a thread has to itself, in numbers.
LEMMA PrivateCounts ==
  ASSUME PrivateParts, NEW t \in Thread
  PROVE  /\ \A op : Count(private_op_queue[t], {op}) = Alone(private_op_queue, t, op)
         /\ Count(private_op_queue[t], ReactorOp) = 0
         /\ Count(private_op_queue[t], Impl) =
              IF private_op_queue[t] = <<>> \/ pc[t] = "task_exit" THEN 0 ELSE 1
         /\ private_op_queue[t] = <<>>
              \/ pc[t] \in {"task_exit", "complete"}
<1>1. /\ Descriptor \notin ReactorOp /\ Descriptor \notin Impl
      /\ \A i \in Impl : i \notin ReactorOp
  BY IoContextAssumption
<1>2. PrivatePart(t)
  BY DEF PrivateParts
<1>3. CASE private_op_queue[t] = <<>>
  <2>1. \A S : Count(private_op_queue[t], S) = 0
    BY <1>3, CountFew
  <2>. QED
    BY <1>3, <2>1 DEF Alone
<1>4. ASSUME NEW x, private_op_queue[t] = <<x>>
      PROVE  /\ private_op_queue[t] # <<>>
             /\ \A S : Count(private_op_queue[t], S) = In(x, S)
             /\ \A op : Count(private_op_queue[t], {op}) =
                          Alone(private_op_queue, t, op)
  <2>1. \A S : Count(private_op_queue[t], S) = In(x, S)
    BY <1>4, CountFew
  <2>2. \A op : Alone(private_op_queue, t, op) = In(x, {op})
    BY <1>4 DEF Alone, In
  <2>. QED
    BY <1>4, <2>1, <2>2
<1>5. CASE pc[t] = "task_exit" /\ private_op_queue[t] = <<Descriptor>>
  BY <1>1, <1>4, <1>5 DEF In
<1>6. CASE pc[t] = "complete" /\ \E i \in Impl : private_op_queue[t] = <<i>>
  <2>1. PICK i \in Impl : private_op_queue[t] = <<i>>
    BY <1>6
  <2>. QED
    BY <1>1, <1>4, <1>6, <2>1 DEF In
<1>. QED
  BY <1>2, <1>3, <1>5, <1>6 DEF PrivatePart

LEMMA RunsSafe ==
  ASSUME IoSafe, SchedulerInv', NEW t \in Thread, thread_runs(t),
         UNCHANGED <<strandVars, impl_, owner, due>>
  PROVE  IoSafe'
<1>. DEFINE op == Head(Queue(t))
            on == pc'[t] = "complete"
<1>1. /\ PrivateParts /\ ThreadPlaces /\ OwnerPlace
      /\ DescriptorFirst(op_queue_) /\ SchedulerInv
  BY DEF IoSafe, IoInv, PlaceInv
<1>2. /\ step[t] = "cleanup" /\ completing[t] = None /\ due[t] = None
      /\ \/ do_run_one(t)
         \/ wait_returns(t)
         \/ task_cleanup(t)
         \/ work_cleanup(t)
  BY <1>1 DEF thread_runs, ThreadPlaces, ThreadPlace
<1>3. /\ pc[t] \in {"lock", "woken", "task_exit", "complete"}
      /\ Turned(t) /\ Settled(t)
  BY <1>1, <1>2, RunsStep
<1>4. /\ ~on => IsComplete(t)
      /\ on => /\ completing' = [completing EXCEPT ![t] = op]
               /\ step' = [step EXCEPT ![t] = "enter"]
               /\ events' = [events EXCEPT ![t] =
                               IF op = Descriptor THEN task_result_ ELSE {}]
      /\ op_queues' = op_queues /\ due' = due /\ owner' = owner /\ impl_' = impl_
      /\ locked_' = locked_ /\ ready_queue_' = ready_queue_
      /\ waiting_queue_' = waiting_queue_
      /\ UNCHANGED <<kernelVars, registered_out, tried>>
      /\ task_result_' = {} \/ task_result_' = task_result_
  BY DEF thread_runs, Enters, strandVars
<1>5. on => op \in Operation
  BY <1>3 DEF Turned
<1>. HIDE DEF op
<1>6. /\ step' \in [Thread -> {"enter", "body", "leave", "finish", "cleanup"}]
      /\ completing' \in [Thread -> Operation \cup {None}]
      /\ \A u \in Thread \ {t} : step'[u] = step[u] /\ completing'[u] = completing[u]
      /\ ~on => step'[t] = "cleanup" /\ completing'[t] = None
      /\ on => step'[t] = "enter" /\ completing'[t] = op
  <2>1. /\ step \in [Thread -> {"enter", "body", "leave", "finish", "cleanup"}]
        /\ completing \in [Thread -> Operation \cup {None}]
    BY IoTypes
  <2>2. CASE on
    BY <1>4, <1>5, <2>1, <2>2
  <2>3. CASE ~on
    BY <1>4, <2>1, <2>3 DEF IsComplete, Enters
  <2>. QED
    BY <2>2, <2>3
<1>7. events' \in [Thread -> SUBSET ReactorOp]
  <2>1. events \in [Thread -> SUBSET ReactorOp] /\ task_result_ \subseteq ReactorOp
    BY DEF IoSafe, IoTypeOK, ReactorTypeOK
  <2>. QED
    BY <1>4, <2>1 DEF IsComplete
<1>8. due' \in [Caller -> Operation \cup {None}]
  BY <1>4, IoTypes
<1>9. ReactorTypeOK'
  <2>1. ReactorTypeOK
    BY DEF IoSafe, IoTypeOK
  <2>. QED
    BY <1>4, <2>1 DEF ReactorTypeOK, kernelVars
<1>10. /\ private_op_queue'[t] = <<>> /\ private_outstanding_work'[t] = 0
       /\ \A u \in Thread \ {t} :
            /\ private_op_queue'[u] = private_op_queue[u]
            /\ private_outstanding_work'[u] = private_outstanding_work[u]
  BY <1>3, IoTypes DEF Settled
<1>11. OthersStay(t)
  BY <1>3, <1>4, <1>6, <1>10 DEF OthersStay, Turned
<1>12. ThreadPlace(t)' /\ PrivatePart(t)'
  <2>1. on => op # None
    BY <1>5, IoContextAssumption
  <2>2. None \notin ReactorOp /\ None \notin Impl /\ None # Descriptor
    BY IoContextAssumption
  <2>3. ThreadPlace(t)'
    BY <1>2, <1>4, <1>6, <2>1, <2>2 DEF ThreadPlace
  <2>. QED
    BY <1>10, <2>3 DEF PrivatePart
<1>13. StrandInv'
  <2>1. StrandInv
    BY IoTypes
  <2>. QED
    BY <1>4, <2>1 DEF StrandInv, StrandTypeOK, HandlersPlaced, PlacedIn, UnlockedEmpty
<1>14. owner = "running" /\ stopped_' => stopped_
  <2>. SUFFICES ASSUME owner = "running", stopped_' # stopped_ PROVE FALSE
    BY DEF SchedulerInv, SchedulerTypeOK
  <2>1. /\ outstanding_work_ = 1 /\ pc[t] = "complete"
        /\ private_op_queue[t] = <<>> /\ private_outstanding_work[t] = 0
    BY <1>3 DEF Settled
  <2>2. Weight(t) = 1
    BY <1>2, <2>1 DEF Weight
  <2>3. due[Owner] = None
    BY <1>1, <2>1 DEF OwnerPlace
  <2>. QED
    BY <1>2, <2>1, <2>2, <2>3, WorkThere
<1>15. \A S : Taken(t, S) = IF on THEN In(op, S) ELSE 0
  BY DEF Taken, op
<1>. HIDE DEF on
<1>16. ASSUME NEW x \in Operation
       PROVE  /\ Count(op_queue_', {x}) = Count(op_queue_, {x})
                   + Alone(private_op_queue, t, x) - Taken(t, {x})
              /\ Count(op_queue_, {x}) \in Nat /\ Taken(t, {x}) \in Nat
              /\ Own(t, x) = Alone(private_op_queue, t, x) /\ Own(t, x) \in Nat
              /\ Own(t, x)' = 0
  <2>1. Task \notin {x} /\ x # None
    BY SchedulerAssumption, IoContextAssumption
  <2>2. Count(op_queue_', {x}) =
          Count(op_queue_, {x}) + Count(private_op_queue[t], {x}) - Taken(t, {x})
    BY <1>3, <2>1 DEF Turned
  <2>3. Count(private_op_queue[t], {x}) = Alone(private_op_queue, t, x)
    BY <1>1, PrivateCounts
  <2>4. Own(t, x) = Alone(private_op_queue, t, x) /\ Own(t, x) \in Nat
    BY <1>2, <2>1 DEF Own, Alone, In
  <2>5. Own(t, x)' = 0
    BY <1>2, <1>4, <1>10, <2>1 DEF Own, Alone, In
  <2>6. Count(op_queue_, {x}) \in Nat /\ Taken(t, {x}) \in Nat
    BY IoTypes, CountType DEF Taken, In
  <2>. QED
    BY <2>2, <2>3, <2>4, <2>5, <2>6
<1>17. ASSUME NEW i \in Impl PROVE LockParts(t, i)' = LockParts(t, i)
  <2>1. i \in Operation /\ i \notin ReactorOp /\ i # None
    BY IoContextAssumption
  <2>2. In(t, Holders(i)) = 0
    BY <1>2 DEF In, Holders, Holds
  <2>3. In(t, Holders(i)') = Taken(t, {i})
    BY <1>6, <1>15 DEF In, Holders, Holds
  <2>4. In(TRUE, {locked_'[i]}) = In(TRUE, {locked_[i]})
    BY <1>4 DEF In
  <2>. DEFINE k == Count(op_queue_, {i})
              a == Alone(private_op_queue, t, i)
              n == Taken(t, {i})
              b == In(TRUE, {locked_[i]})
  <2>5. k \in Nat /\ a \in Nat /\ n \in Nat /\ b \in Nat
    BY <1>16, <2>1 DEF In
  <2>6. /\ LockParts(t, i) = k + a + 0 - b
        /\ LockParts(t, i)' = (k + a - n) + 0 + n - b
    BY <1>16, <2>1, <2>2, <2>3, <2>4 DEF LockParts
  <2>. HIDE DEF k, a, n, b
  <2>. QED
    BY <2>5, <2>6
<1>18. ASSUME NEW s \in Strand
       PROVE  Posted(s)' + ChainParts(t, OpOf(s))' = Posted(s) + ChainParts(t, OpOf(s))
  <2>. DEFINE x == OpOf(s)
  <2>1. x \in Operation /\ x # None
    BY IoContextAssumption DEF OpOf, ReactorOp
  <2>2. In(t, Dispatching(x)) = 0
    BY <1>2, <2>1 DEF In, Dispatching
  <2>3. In(t, Dispatching(x)') = Taken(t, {x})
    BY <1>6, <1>15, <2>1 DEF In, Dispatching
  <2>4. In(x, op_queues') = In(x, op_queues) /\ In(x, op_queues) \in Nat
    BY <1>4 DEF In
  <2>5. Posted(s)' = Posted(s)
    BY <1>4 DEF Posted
  <2>. HIDE DEF x
  <2>6. ChainParts(t, x)' = ChainParts(t, x)
    BY <1>16, <2>1, <2>2, <2>3, <2>4 DEF ChainParts
  <2>. QED
    BY <2>5, <2>6 DEF x
<1>19. WorkParts(t)' = WorkParts(t)
  <2>. DEFINE i  == Count(op_queue_, Impl)
              i1 == Count(op_queue_', Impl)
              r  == Count(op_queue_, ReactorOp)
              r1 == Count(op_queue_', ReactorOp)
              a  == Count(private_op_queue[t], Impl)
              m  == Taken(t, Impl)
              n  == Taken(t, ReactorOp)
              g  == GivenBack(t)
  <2>1. Task \notin Impl /\ Task \notin ReactorOp
    BY SchedulerAssumption, IoContextAssumption
  <2>2. i1 = i + a - m /\ r1 = r + Count(private_op_queue[t], ReactorOp) - n
    BY <1>3, <2>1 DEF Turned
  <2>3. Count(private_op_queue[t], ReactorOp) = 0 /\ a \in {0, 1}
    BY <1>1, PrivateCounts
  <2>4. i \in Nat /\ r \in Nat /\ m \in Nat /\ n \in Nat
    BY IoTypes, CountType DEF Taken, In
  <2>5. Load(t) = g + a /\ g \in Int
    <3>1. private_outstanding_work[t] = 0 \/ private_outstanding_work[t] = 1
      BY <1>1 DEF PrivateParts, PrivatePart
    <3>2. /\ a = IF private_op_queue[t] = <<>> \/ pc[t] = "task_exit" THEN 0 ELSE 1
          /\ private_op_queue[t] = <<>> \/ pc[t] \in {"task_exit", "complete"}
      BY <1>1, PrivateCounts
    <3>3. private_op_queue[t] # <<>> /\ pc[t] = "complete" =>
            private_outstanding_work[t] = 1
      BY <1>1 DEF PrivateParts, PrivatePart
    <3>. HIDE DEF a
    <3>4. CASE pc[t] # "complete"
      BY <3>2, <3>4 DEF Load, Weight, GivenBack
    <3>5. CASE pc[t] = "complete" /\ private_op_queue[t] = <<>>
      BY <1>2, <3>1, <3>2, <3>5 DEF Load, Weight, GivenBack
    <3>6. CASE pc[t] = "complete" /\ private_op_queue[t] # <<>>
      BY <1>2, <3>2, <3>3, <3>6 DEF Load, Weight, GivenBack
    <3>. QED
      BY <3>4, <3>5, <3>6
  <2>6. Load(t)' = m + 2 * n
    <3>1. CASE ~on
      <4>1. m = 0 /\ n = 0
        BY <1>15, <3>1
      <4>2. Load(t)' = 0
        BY <3>1 DEF Load, Weight, on
      <4>. QED
        BY <4>1, <4>2
    <3>2. CASE on
      <4>1. m = In(op, Impl) /\ n = In(op, ReactorOp) /\ op \in Operation
        BY <1>5, <1>15, <3>2
      <4>2. Load(t)' = IF op = Descriptor THEN 0 ELSE IF op \in Impl THEN 1 ELSE 2
        <5>1. /\ pc'[t] = "complete" /\ step'[t] = "enter" /\ completing'[t] = op
              /\ due'[t] = None /\ None \notin ReactorOp
          BY <1>2, <1>4, <1>6, <3>2, IoContextAssumption DEF on
        <5>. QED
          BY <5>1 DEF Load, Weight
      <4>3. op \in Impl \cup ReactorOp \cup {Descriptor}
        BY <4>1, IoContextAssumption
      <4>4. /\ Descriptor \notin Impl /\ Descriptor \notin ReactorOp
            /\ Impl \cap ReactorOp = {}
        BY IoContextAssumption
      <4>5. CASE op \in Impl
        BY <4>1, <4>2, <4>4, <4>5 DEF In
      <4>6. CASE op \in ReactorOp
        BY <4>1, <4>2, <4>4, <4>6 DEF In
      <4>7. CASE op = Descriptor
        BY <4>1, <4>2, <4>4, <4>7 DEF In
      <4>. QED
        BY <4>3, <4>5, <4>6, <4>7
    <3>. QED
      BY <3>1, <3>2
  <2>7. outstanding_work_' = outstanding_work_ - g /\ outstanding_work_ \in Int
    BY <1>3, IoTypes DEF Settled
  <2>8. /\ In("read_op", op_queues') = In("read_op", op_queues)
        /\ In("write_op", op_queues') = In("write_op", op_queues)
        /\ In("read_op", op_queues) \in Nat /\ In("write_op", op_queues) \in Nat
    BY <1>4 DEF In
  <2>. DEFINE x == In("read_op", op_queues)
              y == In("write_op", op_queues)
              l == Load(t)
              l1 == Load(t)'
              w == outstanding_work_
  <2>9. /\ WorkParts(t) = i + 2 * r + 2 * x + 2 * y + l - w
        /\ WorkParts(t)' = i1 + 2 * r1 + 2 * x + 2 * y + l1 - (w - g)
    BY <2>7, <2>8 DEF WorkParts
  <2>10. /\ x \in Nat /\ y \in Nat /\ w \in Int /\ i1 = i + a - m /\ r1 = r - n
         /\ l = g + a /\ l1 = m + 2 * n /\ g \in Int /\ a \in Nat
         /\ i \in Nat /\ r \in Nat /\ m \in Nat /\ n \in Nat
    BY <2>2, <2>3, <2>4, <2>5, <2>6, <2>7, <2>8
  <2>. HIDE DEF i, i1, r, r1, a, m, n, g, x, y, l, l1, w
  <2>11. i1 + 2 * r1 + 2 * x + 2 * y + l1 - (w - g) = i + 2 * r + 2 * x + 2 * y + l - w
    BY <2>10
  <2>. QED
    BY <2>9, <2>11
<1>20. DescriptorFirst(op_queue_') /\ pc[t] \notin {"idle", "done"}
  BY <1>3 DEF Turned
<1>. QED
  BY <1>4, <1>6, <1>7, <1>8, <1>9, <1>11, <1>12, <1>13, <1>14, <1>17, <1>18,
     <1>19, <1>20, ThreadSafeNext

\* epoll_wait returns with the descriptor or without it.
LEMMA PollsSafe ==
  ASSUME IoSafe, SchedulerInv', NEW t \in Thread, epoll_reactor_run(t),
         UNCHANGED <<strandVars, impl_, owner, due>>
  PROVE  IoSafe'
<1>. DEFINE ops == IF ReadyEvents # {} THEN <<Descriptor>> ELSE <<>>
<1>1. /\ pc[t] \in {"poll", "wait"}
      /\ private_op_queue' = [private_op_queue EXCEPT ![t] = ops]
      /\ pc' = [pc EXCEPT ![t] = "task_exit"]
      /\ op_queue_' = op_queue_ /\ outstanding_work_' = outstanding_work_
      /\ stopped_' = stopped_
      /\ private_outstanding_work' = private_outstanding_work
      /\ task_result_' = (IF ReadyEvents # {} THEN ReadyEvents ELSE task_result_)
      /\ readied' = FALSE /\ datagrams' = datagrams /\ writable' = writable
      /\ registered_out' = registered_out /\ op_queues' = op_queues
      /\ tried' = tried
      /\ step' = step /\ completing' = completing /\ events' = events
      /\ locked_' = locked_ /\ ready_queue_' = ready_queue_
      /\ waiting_queue_' = waiting_queue_ /\ impl_' = impl_
      /\ owner' = owner /\ due' = due
  BY DEF epoll_reactor_run, task_run, epoll_wait, handlerVars, strandVars
<1>2. /\ PrivateParts /\ ThreadPlaces /\ DescriptorFirst(op_queue_)
  BY DEF IoSafe, IoInv, PlaceInv
<1>3. /\ private_op_queue[t] = <<>> /\ private_outstanding_work[t] = 0
      /\ step[t] = "cleanup" /\ completing[t] = None /\ due[t] = None
  <2>1. PrivatePart(t) /\ ThreadPlace(t)
    BY <1>2 DEF PrivateParts, ThreadPlaces
  <2>. QED
    BY <1>1, <2>1 DEF PrivatePart, ThreadPlace
<1>4. /\ private_op_queue'[t] = ops /\ pc'[t] = "task_exit"
      /\ ops = <<>> \/ ops = <<Descriptor>>
      /\ \A u \in Thread \ {t} : /\ private_op_queue'[u] = private_op_queue[u]
                                 /\ pc'[u] = pc[u]
  BY <1>1, IoTypes
<1>. HIDE DEF ops
<1>5. OthersStay(t)
  BY <1>1, <1>4 DEF OthersStay, Stays
<1>6. ThreadPlace(t)' /\ PrivatePart(t)'
  <2>1. ThreadPlace(t)'
    BY <1>1, <1>3, <1>4, IoContextAssumption DEF ThreadPlace
  <2>. QED
    BY <1>1, <1>3, <1>4, <2>1 DEF PrivatePart
<1>7. ReactorTypeOK'
  <2>1. ReactorTypeOK /\ ReadyEvents \subseteq ReactorOp
    BY DEF IoSafe, IoTypeOK, ReadyEvents, Events, ReactorOp
  <2>. QED
    BY <1>1, <2>1 DEF ReactorTypeOK
<1>8. StrandInv'
  <2>1. StrandInv
    BY IoTypes
  <2>. QED
    BY <1>1, <2>1 DEF StrandInv, StrandTypeOK, HandlersPlaced, PlacedIn, UnlockedEmpty
<1>9. ASSUME NEW x \in Operation, x # Descriptor
      PROVE  Own(t, x)' = Own(t, x)
  <2>1. private_op_queue'[t] # <<x>> /\ private_op_queue[t] # <<x>>
    BY <1>3, <1>4, <1>9
  <2>2. due'[t] = due[t]
    BY <1>1
  <2>. QED
    BY <2>1, <2>2 DEF Own, Alone
<1>10. ASSUME NEW i \in Impl PROVE LockParts(t, i)' = LockParts(t, i)
  <2>1. i \in Operation /\ i # Descriptor
    BY IoContextAssumption
  <2>2. Holders(i)' = Holders(i)
    BY <1>1 DEF Holders, Holds
  <2>. QED
    BY <1>1, <1>9, <2>1, <2>2 DEF LockParts
<1>11. ASSUME NEW s \in Strand
       PROVE  Posted(s)' + ChainParts(t, OpOf(s))' = Posted(s) + ChainParts(t, OpOf(s))
  <2>1. OpOf(s) \in Operation /\ OpOf(s) # Descriptor
    BY IoContextAssumption DEF OpOf, ReactorOp
  <2>2. Posted(s)' = Posted(s)
    BY <1>1 DEF Posted
  <2>3. Dispatching(OpOf(s))' = Dispatching(OpOf(s))
    BY <1>1 DEF Dispatching
  <2>4. ChainParts(t, OpOf(s))' = ChainParts(t, OpOf(s))
    BY <1>1, <1>9, <2>1, <2>3 DEF ChainParts
  <2>. QED
    BY <2>2, <2>4
<1>12. WorkParts(t)' = WorkParts(t)
  <2>1. Load(t)' = Load(t)
    BY <1>1, <1>4 DEF Load, Weight
  <2>. QED
    BY <1>1, <2>1 DEF WorkParts
<1>13. /\ pc[t] \notin {"idle", "done"} /\ DescriptorFirst(op_queue_')
       /\ owner = "running" /\ stopped_' => stopped_
       /\ step' \in [Thread -> {"enter", "body", "leave", "finish", "cleanup"}]
       /\ completing' \in [Thread -> Operation \cup {None}]
       /\ events' \in [Thread -> SUBSET ReactorOp]
       /\ due' \in [Caller -> Operation \cup {None}]
  BY <1>1, <1>2, IoTypes
<1>. QED
  BY <1>1, <1>5, <1>6, <1>7, <1>8, <1>10, <1>11, <1>12, <1>13, ThreadSafeNext

-----------------------------------------------------------------------------
(* What is due is queued *)

LEMMA PostsDueSafe ==
  ASSUME IoSafe, SchedulerInv', NEW c \in Caller, post_due(c)
  PROVE  IoSafe'
<1>. DEFINE x == due[c]
            deferred == c \in Thread /\ step[c] = "enter" /\ completing[c] \in ReactorOp
            l  == Load(c)
            l1 == Load(c)'
<1>1. /\ x # None /\ due' = [due EXCEPT ![c] = None]
      /\ op_queues' = op_queues /\ UNCHANGED reactorVars
      /\ step' = step /\ completing' = completing /\ events' = events
      /\ locked_' = locked_ /\ ready_queue_' = ready_queue_
      /\ waiting_queue_' = waiting_queue_ /\ impl_' = impl_ /\ owner' = owner
      /\ pc' = pc /\ stopped_' = stopped_ /\ private_op_queue' = private_op_queue
      /\ private_outstanding_work' = private_outstanding_work
      /\ deferred => /\ op_queue_' = op_queue_ \o <<x>>
                     /\ outstanding_work_' = outstanding_work_
      /\ ~deferred => /\ op_queue_' = Append(op_queue_, x)
                      /\ outstanding_work_' = outstanding_work_ + 1
  BY DEF post_due, post_deferred_completions, post_immediate_completion,
     reactorVars, strandVars, handlerVars, privateVars
<1>2. /\ PrivateParts /\ ThreadPlaces /\ OwnerPlace /\ DescriptorFirst(op_queue_)
      /\ op_queue_ \in Seq(Entry) /\ x \in Operation /\ owner \in OwnerAt
  BY <1>1, IoTypes DEF IoSafe, IoInv, PlaceInv, IoTypeOK, OwnerAt
<1>3. due' \in [Caller -> Operation \cup {None}] /\ due'[c] = None
      /\ \A d \in Caller \ {c} : due'[d] = due[d]
  BY <1>1, IoTypes
<1>4. ASSUME c \in Thread
      PROVE  /\ x # Descriptor /\ OwnerPlace'
             /\ c \in Thread => ThreadPlace(c)' /\ PrivatePart(c)'
             /\ x \in Impl => l1 = l /\ l \in Nat /\ ~deferred
             /\ x \in ReactorOp /\ deferred => l = 4 /\ l1 = 2
             /\ x \in ReactorOp /\ ~deferred => l = 2 /\ l1 = 1
  <2>1. ThreadPlace(c)
    BY <1>2, <1>4 DEF ThreadPlaces
  <2>2. pc[c] = "complete" /\ step[c] # "cleanup" /\ x # Descriptor
    BY <1>1, <2>1 DEF ThreadPlace
  <2>3. x \in ReactorOp => step[c] = "enter" /\ completing[c] \in Impl \cup ReactorOp
    BY <2>1 DEF ThreadPlace
  <2>4. x \in Impl => ~deferred /\ completing[c] \in ReactorOp
    <3>1. x \in Impl => step[c] \in {"leave", "finish"}
      BY <2>1 DEF ThreadPlace
    <3>. QED
      BY <2>1, <3>1 DEF ThreadPlace
  <2>5. /\ x \in Impl => l = 2 /\ l1 = 2 /\ ~deferred
        /\ x \in ReactorOp /\ deferred => l = 4 /\ l1 = 2
        /\ x \in ReactorOp /\ ~deferred => l = 2 /\ l1 = 1
    <3>1. /\ None \notin ReactorOp /\ None \notin Impl /\ Impl \cap ReactorOp = {}
          /\ Descriptor \notin Impl /\ Descriptor \notin ReactorOp
      BY IoContextAssumption
    <3>. QED
      BY <1>1, <1>3, <1>4, <2>2, <2>3, <2>4, <3>1 DEF Load, Weight
  <2>6. ThreadPlace(c)' /\ PrivatePart(c)'
    <3>1. PrivatePart(c)
      BY <1>2, <1>4 DEF PrivateParts
    <3>2. ThreadPlace(c)'
      BY <1>1, <1>3, <2>1, IoContextAssumption DEF ThreadPlace
    <3>3. PrivatePart(c)'
      BY <1>1, <3>1 DEF PrivatePart
    <3>. QED
      BY <3>2, <3>3
  <2>7. c # Owner /\ owner \in {"running", "join"} /\ due[Owner] = None
    <3>1. c # Owner
      BY <1>4, OwnerIsCaller
    <3>. QED
      BY <1>2, <1>4, <2>2, <3>1 DEF OwnerPlace, OwnerAt, Posting, Closed
  <2>8. OwnerPlace'
    <3>1. due'[Owner] = None
      BY <1>3, <2>7, OwnerIsCaller
    <3>. QED
      BY <1>1, <2>7, <3>1 DEF OwnerPlace, Posting, Closed
  <2>. QED
    BY <2>2, <2>5, <2>6, <2>8
<1>5. ASSUME c \notin Thread
      PROVE  /\ x # Descriptor /\ OwnerPlace'
             /\ c \in Thread => ThreadPlace(c)' /\ PrivatePart(c)'
             /\ x \in Impl => l1 = l /\ l \in Nat /\ ~deferred
             /\ x \in ReactorOp /\ deferred => l = 4 /\ l1 = 2
             /\ x \in ReactorOp /\ ~deferred => l = 2 /\ l1 = 1
  <2>1. c = Owner /\ x \in Impl /\ ~deferred /\ owner \in {"post_write", "running"}
    BY <1>1, <1>2, <1>5 DEF Caller, OwnerPlace
  <2>2. x # Descriptor /\ x \notin ReactorOp /\ Load(c) = 0 /\ Load(c)' = 0
    BY <1>5, <2>1, IoContextAssumption DEF Load
  <2>3. OwnerPlace'
    BY <1>1, <1>2, <1>3, <2>1 DEF OwnerPlace, Closed
  <2>. QED
    BY <1>5, <2>1, <2>2, <2>3
<1>6. WorkLasts' /\ HandlerTypeOK' /\ ReactorTypeOK' /\ StrandInv'
  <2>1. WorkLasts /\ HandlerTypeOK /\ ReactorTypeOK /\ StrandInv
    BY IoTypes DEF IoSafe, IoInv, CountInv, IoTypeOK, HandlerTypeOK, OwnerAt
  <2>2. WorkLasts' /\ HandlerTypeOK'
    BY <1>1, <1>3, <2>1 DEF WorkLasts, HandlerTypeOK
  <2>3. ReactorTypeOK'
    BY <1>1, <2>1 DEF ReactorTypeOK, reactorVars, kernelVars
  <2>4. StrandInv'
    BY <1>1, <2>1 DEF StrandInv, StrandTypeOK, HandlersPlaced, PlacedIn, UnlockedEmpty
  <2>. QED
    BY <2>2, <2>3, <2>4
<1>7. OthersStay(c)
  BY <1>1, <1>3 DEF OthersStay, Stays
<1>8. /\ x # Descriptor /\ OwnerPlace'
      /\ c \in Thread => ThreadPlace(c)' /\ PrivatePart(c)'
      /\ x \in Impl => l1 = l /\ l \in Nat /\ ~deferred
      /\ x \in ReactorOp /\ deferred => l = 4 /\ l1 = 2
      /\ x \in ReactorOp /\ ~deferred => l = 2 /\ l1 = 1
  BY <1>4, <1>5
<1>. HIDE DEF x, deferred, l, l1
<1>9. /\ op_queue_' = op_queue_ \o <<x>>
      /\ \A S : /\ Count(op_queue_', S) = Count(op_queue_, S) + In(x, S)
                /\ Count(op_queue_, S) \in Nat
  <2>1. x \in Entry /\ <<x>> \in Seq(Operation)
    BY <1>2 DEF Entry
  <2>2. op_queue_' = Append(op_queue_, x) /\ op_queue_' = op_queue_ \o <<x>>
    BY SMTT(30), <1>1, <1>2, <2>1
  <2>. QED
    BY <1>2, <2>1, <2>2, CountAppend, CountType
<1>10. DescriptorFirst(op_queue_')
  <2>1. <<x>> \in Seq(Operation) /\ NoDescriptor(<<x>>)
    BY <1>2, <1>8 DEF NoDescriptor
  <2>. QED
    BY <1>2, <1>9, <2>1, FirstQueues
<1>11. ASSUME NEW y \in Operation
       PROVE  Count(op_queue_', {y}) + Own(c, y)' = Count(op_queue_, {y}) + Own(c, y)
  <2>. DEFINE a == Alone(private_op_queue, c, y)
              k == Count(op_queue_, {y})
              e == In(x, {y})
  <2>1. y # None
    BY IoContextAssumption
  <2>2. Own(c, y) = a + e
    BY DEF Own, In, x
  <2>3. Own(c, y)' = a
    <3>1. In(y, {due'[c]}) = 0 /\ Alone(private_op_queue', c, y) = a
      BY <1>1, <1>3, <2>1 DEF In
    <3>2. a \in Nat
      BY DEF Alone
    <3>. QED
      BY <3>1, <3>2 DEF Own
  <2>4. k \in Nat /\ a \in Nat /\ e \in Nat /\ Count(op_queue_', {y}) = k + e
    BY <1>9 DEF Alone, In
  <2>. HIDE DEF a, k, e
  <2>5. (k + e) + a = k + (a + e)
    BY <2>4
  <2>. QED
    BY <2>2, <2>3, <2>4, <2>5 DEF k
<1>12. ASSUME NEW i \in Impl PROVE LockParts(c, i)' = LockParts(c, i)
  <2>1. i \in Operation
    BY IoContextAssumption
  <2>2. Holders(i)' = Holders(i) /\ locked_'[i] = locked_[i]
    BY <1>1 DEF Holders, Holds
  <2>. DEFINE n == Count(op_queue_, {i}) + Own(c, i)
              n1 == Count(op_queue_', {i}) + Own(c, i)'
              h == In(c, Holders(i))
              b == In(TRUE, {locked_[i]})
  <2>3. n1 = n /\ h \in Nat /\ b \in Nat /\ n \in Nat
    <3>1. n \in Nat
      BY <1>9 DEF Own, Alone, In
    <3>. QED
      BY <1>11, <2>1, <3>1 DEF In
  <2>4. LockParts(c, i) = n + h - b /\ LockParts(c, i)' = n1 + h - b
    BY <2>2 DEF LockParts
  <2>. QED
    BY <2>3, <2>4
<1>13. ASSUME NEW s \in Strand
       PROVE  (Posted(s)' + ChainParts(c, OpOf(s))') - Expected(s)' =
                (Posted(s) + ChainParts(c, OpOf(s))) - Expected(s)
  <2>. DEFINE y == OpOf(s)
              n == Count(op_queue_, {y}) + Own(c, y)
              n1 == Count(op_queue_', {y}) + Own(c, y)'
              h == In(c, Dispatching(y))
              b == In(y, op_queues)
  <2>1. y \in Operation
    BY IoContextAssumption DEF OpOf, ReactorOp
  <2>2. Dispatching(y)' = Dispatching(y)
    BY <1>1 DEF Dispatching
  <2>3. n1 = n
    BY <1>11, <2>1
  <2>4. ChainParts(c, y) = n + b + h /\ ChainParts(c, y)' = n1 + b + h
    BY <1>1, <2>2 DEF ChainParts
  <2>5. Posted(s)' = Posted(s) /\ Expected(s)' = Expected(s)
    BY <1>1 DEF Posted, Expected
  <2>6. ChainParts(c, y)' = ChainParts(c, y)
    BY <2>3, <2>4
  <2>. HIDE DEF y
  <2>7. (Posted(s)' + ChainParts(c, y)') - Expected(s)' =
          (Posted(s) + ChainParts(c, y)) - Expected(s)
    BY <2>5, <2>6
  <2>. QED
    BY <2>7 DEF y
<1>14. WorkParts(c)' = WorkParts(c)
  <2>. DEFINE i  == Count(op_queue_, Impl)
              i1 == Count(op_queue_', Impl)
              r  == Count(op_queue_, ReactorOp)
              r1 == Count(op_queue_', ReactorOp)
              n  == In("read_op", op_queues)
              m  == In("write_op", op_queues)
              w  == outstanding_work_
              w1 == outstanding_work_'
  <2>1. /\ WorkParts(c) = i + 2 * r + 2 * n + 2 * m + l - w
        /\ WorkParts(c)' = i1 + 2 * r1 + 2 * n + 2 * m + l1 - w1
    BY <1>1 DEF WorkParts, l, l1
  <2>2. /\ i \in Nat /\ r \in Nat /\ i1 = i + In(x, Impl) /\ r1 = r + In(x, ReactorOp)
        /\ n \in Nat /\ m \in Nat /\ w \in Int
    BY <1>9, IoTypes DEF In
  <2>3. x \in Impl \cup ReactorOp /\ Impl \cap ReactorOp = {}
    BY <1>2, <1>8, IoContextAssumption
  <2>4. /\ deferred => w1 = w
        /\ ~deferred => w1 = w + 1
    BY <1>1
  <2>5. /\ x \in Impl => l1 = l /\ l \in Nat /\ ~deferred
        /\ x \in ReactorOp /\ deferred => l = 4 /\ l1 = 2
        /\ x \in ReactorOp /\ ~deferred => l = 2 /\ l1 = 1
    BY <1>8
  <2>. HIDE DEF i, i1, r, r1, n, m, w, w1
  <2>6. CASE x \in Impl
    <3>1. i1 = i + 1 /\ r1 = r + 0 /\ w1 = w + 1 /\ l1 = l /\ l \in Nat
      BY <2>2, <2>3, <2>4, <2>5, <2>6 DEF In
    <3>. QED
      BY <2>1, <2>2, <3>1
  <2>7. CASE x \in ReactorOp
    <3>1. i1 = i + 0 /\ r1 = r + 1
      BY <2>2, <2>3, <2>7 DEF In
    <3>2. CASE deferred
      BY <2>1, <2>2, <2>4, <2>5, <2>7, <3>1, <3>2
    <3>3. CASE ~deferred
      BY <2>1, <2>2, <2>4, <2>5, <2>7, <3>1, <3>3
    <3>. QED
      BY <3>2, <3>3
  <2>. QED
    BY <2>3, <2>6, <2>7
<1>. QED
  BY <1>1, <1>6, <1>7, <1>8, <1>10, <1>12, <1>13, <1>14, SafeNext

-----------------------------------------------------------------------------
(* The owner posts, and destroys *)

LEMMA OwnerPostsSafe ==
  ASSUME IoSafe, SchedulerInv', NEW at, NEW h, NEW then, owner_posts(at, h, then),
         \/ at = "post_read" /\ h = "do_receive" /\ then = "post_write"
         \/ at = "post_write" /\ h = "do_send" /\ then = "running"
  PROVE  IoSafe'
<1>. DEFINE i == impl_[StrandOf(h)]
<1>1. /\ owner = at /\ owner' = then /\ due[Owner] = None
      /\ UNCHANGED <<schedulerVars, reactorVars, handlerVars>>
      /\ op_queue_' = op_queue_ /\ outstanding_work_' = outstanding_work_
      /\ stopped_' = stopped_ /\ pc' = pc /\ private_op_queue' = private_op_queue
      /\ private_outstanding_work' = private_outstanding_work
      /\ op_queues' = op_queues /\ impl_' = impl_
      /\ step' = step /\ completing' = completing /\ events' = events
      /\ \/ enqueue_waiting(i, h) /\ due' = due
         \/ acquire_ready(i, h) /\ due' = [due EXCEPT ![Owner] = i]
  BY DEF owner_posts, do_post, Free, schedulerVars, privateVars, reactorVars,
     handlerVars
<1>2. /\ h \in Handler /\ StrandOf(h) \in Strand
      /\ i \in Impl /\ i \in Operation /\ i # None /\ StrandInv
  BY IoTypes, IoContextAssumption DEF Handler, StrandOf, Strand
<1>3. /\ StrandInv' /\ locked_'[i]
      /\ \A s \in Strand : /\ Posted(s) \in Nat /\ Posted(s)' \in Nat
                           /\ Posted(s)' = Posted(s) + In(s, {StrandOf(h)})
  BY <1>1, <1>2, PostsStep
<1>4. /\ due' \in [Caller -> Operation \cup {None}]
      /\ \A d \in Caller \ {Owner} : due'[d] = due[d]
      /\ due'[Owner] \in {None, i}
  BY <1>1, <1>2, IoTypes
<1>5. OthersStay(Owner)
  BY <1>1, <1>4 DEF OthersStay, Stays
<1>6. /\ OwnerPlace /\ WorkLasts /\ ReactorTypeOK /\ HandlerTypeOK
      /\ DescriptorFirst(op_queue_)
  BY DEF IoSafe, IoInv, PlaceInv, CountInv, IoTypeOK, HandlerTypeOK, OwnerAt
<1>7. OwnerPlace'
  BY <1>1, <1>2, <1>4, <1>6 DEF OwnerPlace, Posting, Closed
<1>8. WorkLasts' /\ HandlerTypeOK' /\ ReactorTypeOK'
  <2>1. WorkLasts' /\ HandlerTypeOK'
    BY <1>1, <1>4, <1>6 DEF WorkLasts, HandlerTypeOK, OwnerAt
  <2>. QED
    BY <1>1, <1>6, <2>1 DEF ReactorTypeOK, reactorVars, kernelVars
<1>9. \A x \in Operation : Own(Owner, x) = 0 /\ Own(Owner, x)' = In(x, {due'[Owner]})
  <2>1. \A x \in Operation : x # None
    BY IoContextAssumption
  <2>2. \A x \in Operation : /\ Alone(private_op_queue, Owner, x) = 0
                             /\ Alone(private_op_queue', Owner, x) = 0
                             /\ In(x, {due[Owner]}) = 0
    BY <1>1, <2>1, OwnerIsCaller DEF Alone, In
  <2>3. \A x : In(x, {due'[Owner]}) \in Nat
    BY DEF In
  <2>4. ASSUME NEW x \in Operation
        PROVE  Own(Owner, x) = 0 /\ Own(Owner, x)' = In(x, {due'[Owner]})
    <3>1. Own(Owner, x) = 0 + 0
      BY <2>2 DEF Own
    <3>2. Own(Owner, x)' = 0 + In(x, {due'[Owner]})
      BY <2>2 DEF Own
    <3>. DEFINE e == In(x, {due'[Owner]})
                o == Own(Owner, x)
                o1 == Own(Owner, x)'
    <3>3. e \in Nat /\ o = 0 + 0 /\ o1 = 0 + e
      BY <2>3, <3>1, <3>2
    <3>. HIDE DEF e, o, o1
    <3>4. o = 0 /\ o1 = e
      BY <3>3
    <3>. QED
      BY <3>4 DEF e, o, o1
  <2>. QED
    BY <2>4
<1>10. ASSUME NEW j \in Impl PROVE LockParts(Owner, j)' = LockParts(Owner, j)
  <2>. DEFINE k == Count(op_queue_, {j})
              n == In(Owner, Holders(j))
              b == In(TRUE, {locked_[j]})
              b1 == In(TRUE, {locked_'[j]})
              o1 == Own(Owner, j)'
  <2>1. j \in Operation /\ j # None
    BY IoContextAssumption
  <2>2. Holders(j)' = Holders(j)
    BY <1>1 DEF Holders, Holds
  <2>3. b1 = b + o1 /\ o1 \in Nat
    <3>1. o1 = In(j, {due'[Owner]})
      BY <1>9, <2>1
    <3>2. CASE enqueue_waiting(i, h) /\ due' = due
      <4>1. due'[Owner] = None /\ locked_' = locked_
        BY <1>1, <3>2 DEF enqueue_waiting
      <4>2. o1 = 0 /\ b1 = b
        BY <2>1, <3>1, <4>1 DEF In
      <4>3. b \in Nat
        BY DEF In
      <4>. HIDE DEF b, b1, o1
      <4>. QED
        BY <4>2, <4>3
    <3>3. CASE acquire_ready(i, h) /\ due' = [due EXCEPT ![Owner] = i]
      <4>1. /\ due'[Owner] = i
            /\ ~locked_[i] /\ locked_' = [locked_ EXCEPT ![i] = TRUE]
            /\ locked_ \in [Impl -> BOOLEAN]
        BY <1>2, <3>3, IoTypes, OwnerIsCaller DEF acquire_ready, StrandInv, StrandTypeOK
      <4>2. CASE j = i
        <5>1. locked_[j] = FALSE /\ locked_'[j] = TRUE
          BY <4>1, <4>2
        <5>2. b = 0
          BY <5>1 DEF In
        <5>3. b1 = 1
          BY <5>1 DEF In
        <5>4. o1 = 1
          BY <3>1, <4>1, <4>2 DEF In
        <5>. HIDE DEF b, b1, o1
        <5>. QED
          BY <5>2, <5>3, <5>4
      <4>3. CASE j # i
        <5>1. locked_'[j] = locked_[j]
          BY <4>1, <4>3
        <5>2. b1 = b /\ b \in Nat
          BY <5>1 DEF In
        <5>3. o1 = 0
          BY <3>1, <4>1, <4>3 DEF In
        <5>. HIDE DEF b, b1, o1
        <5>. QED
          BY <5>2, <5>3
      <4>. QED
        BY <4>2, <4>3
    <3>. QED
      BY <1>1, <3>2, <3>3
  <2>4. k \in Nat /\ n \in Nat /\ b \in Nat
    BY IoTypes, CountType DEF In
  <2>5. LockParts(Owner, j) = k + 0 + n - b /\ LockParts(Owner, j)' = k + o1 + n - b1
    BY <1>1, <1>9, <2>1, <2>2 DEF LockParts
  <2>. HIDE DEF k, n, b, b1, o1
  <2>. QED
    BY <2>3, <2>4, <2>5
<1>11. ASSUME NEW s \in Strand
       PROVE  (Posted(s)' + ChainParts(Owner, OpOf(s))') - Expected(s)' =
                (Posted(s) + ChainParts(Owner, OpOf(s))) - Expected(s)
  <2>. DEFINE x == OpOf(s)
              g == ChainParts(Owner, x)
              g1 == ChainParts(Owner, x)'
              a == In(s, {StrandOf(h)})
              e == Expected(s)
              e1 == Expected(s)'
              p == Posted(s)
              p1 == Posted(s)'
  <2>1. x \in Operation /\ x \notin Impl /\ x # None
    BY IoContextAssumption DEF OpOf, ReactorOp
  <2>2. Own(Owner, x)' = 0 /\ Own(Owner, x) = 0
    BY <1>2, <1>4, <1>9, <2>1 DEF In
  <2>3. Dispatching(x)' = Dispatching(x)
    BY <1>1 DEF Dispatching
  <2>. HIDE DEF x
  <2>4. g1 = g
    BY <1>1, <2>2, <2>3 DEF ChainParts
  <2>5. g \in Nat
    <3>1. /\ Count(op_queue_, {x}) \in Nat /\ In(x, op_queues) \in Nat
          /\ In(Owner, Dispatching(x)) \in Nat
      BY IoTypes, CountType DEF In
    <3>. QED
      BY <2>2, <3>1 DEF ChainParts
  <2>6. e1 = e + a /\ e \in Nat /\ a \in Nat
    BY <1>1 DEF Expected, In, StrandOf, Strand
  <2>7. p1 = p + a /\ p \in Nat
    BY <1>3
  <2>. HIDE DEF g, g1, e, e1, p, p1, a
  <2>8. (p1 + g1) - e1 = (p + g) - e
    BY <2>4, <2>5, <2>6, <2>7
  <2>. QED
    BY <2>8 DEF g, g1, e, e1, p, p1, x
<1>12. WorkParts(Owner)' = WorkParts(Owner)
  BY <1>1, OwnerIsCaller DEF WorkParts, Load
<1>13. /\ owner' # "destroyed" /\ owner # "destroyed" /\ owner \in Posting
       /\ DescriptorFirst(op_queue_') /\ Owner \in Caller /\ Owner \notin Thread
  BY <1>1, <1>6, OwnerIsCaller DEF Posting
<1>. QED
  BY <1>1, <1>3, <1>5, <1>7, <1>8, <1>10, <1>11, <1>12, <1>13, SafeNext

LEMMA OwnerClosesSafe ==
  ASSUME IoSafe, SchedulerInv', owner_closes
  PROVE  IoSafe'
<1>. DEFINE ops == IF op_queues # {} THEN Aborted ELSE <<>>
<1>1. /\ owner = "close" /\ owner' = "shutdown" /\ due[Owner] = None
      /\ UNCHANGED <<strandVars, impl_, handlerVars, due>>
      /\ outstanding_work_' = outstanding_work_
      /\ stopped_' = stopped_ /\ pc' = pc /\ private_op_queue' = private_op_queue
      /\ private_outstanding_work' = private_outstanding_work
      /\ op_queues' = {} /\ impl_' = impl_ /\ due' = due
      /\ step' = step /\ completing' = completing
      /\ op_queues # {} => op_queue_' = op_queue_ \o Aborted
      /\ op_queues = {} => op_queue_' = op_queue_
      /\ deregister_descriptor
  BY DEF owner_closes, post_deferred_completions, Free, schedulerVars, privateVars,
     deregister_descriptor, handlerVars
<1>2. /\ op_queue_ \in Seq(Entry) /\ op_queues \subseteq ReactorOp /\ StrandInv
      /\ OwnerPlace /\ WorkLasts /\ ReactorTypeOK /\ HandlerTypeOK
      /\ DescriptorFirst(op_queue_)
  BY IoTypes DEF IoSafe, IoInv, PlaceInv, CountInv, IoTypeOK, HandlerTypeOK, OwnerAt
<1>3. /\ ops \in Seq(Operation) /\ NoDescriptor(ops)
      /\ \A x \in ReactorOp : Count(ops, {x}) = In(x, op_queues)
      /\ \A i \in Impl : Count(ops, {i}) = 0
      /\ op_queue_' = op_queue_ \o ops
  <2>1. CASE op_queues # {}
    <3>1. ASSUME NEW i \in Impl PROVE Count(Aborted, {i}) = 0
      <4>1. Aborted \in Seq(Operation) /\ Count(Aborted, Impl) = 0
        BY <1>2, AbortedQueue
      <4>. QED
        BY <4>1, CountZero
    <3>. QED
      BY <1>1, <1>2, <2>1, <3>1, AbortedQueue
  <2>2. CASE op_queues = {}
    <3>1. op_queue_ = op_queue_ \o <<>>
      BY <1>2, ConcatEmptySeq
    <3>. QED
      BY <1>1, <2>2, <3>1, CountFew DEF NoDescriptor, In
  <2>. QED
    BY <2>1, <2>2
<1>. HIDE DEF ops
<1>4. /\ DescriptorFirst(op_queue_')
      /\ \A S : /\ Count(op_queue_', S) = Count(op_queue_, S) + Count(ops, S)
                /\ Count(op_queue_, S) \in Nat
  <2>1. DescriptorFirst(op_queue_')
    BY <1>2, <1>3, FirstQueues
  <2>2. ops \in Seq(Entry)
    BY <1>3 DEF Entry
  <2>3. ASSUME NEW S
        PROVE  /\ Count(op_queue_', S) = Count(op_queue_, S) + Count(ops, S)
               /\ Count(op_queue_, S) \in Nat
    <3>1. Count(op_queue_ \o ops, S) = Count(op_queue_, S) + Count(ops, S)
      BY <1>2, <2>2, CountConcat
    <3>2. Count(op_queue_, S) \in Nat
      BY <1>2, CountType
    <3>. QED
      BY <1>3, <3>1, <3>2
  <2>. QED
    BY <2>1, <2>3
<1>5. OthersStay(Owner)
  BY <1>1 DEF OthersStay, Stays
<1>6. OwnerPlace'
  BY <1>1, <1>2 DEF OwnerPlace, Posting, Closed
<1>7. WorkLasts' /\ HandlerTypeOK' /\ ReactorTypeOK' /\ StrandInv'
  <2>1. WorkLasts' /\ HandlerTypeOK'
    BY <1>1, <1>2 DEF WorkLasts, HandlerTypeOK, OwnerAt, handlerVars
  <2>2. ReactorTypeOK'
    <3>1. 0 \in 0 .. SocketBound
      BY ReactorAssumption
    <3>. QED
      BY <1>1, <1>2, <3>1 DEF ReactorTypeOK, deregister_descriptor, kernelVars
  <2>3. StrandInv'
    BY <1>1, <1>2 DEF StrandInv, StrandTypeOK, HandlersPlaced, PlacedIn,
       UnlockedEmpty, strandVars
  <2>. QED
    BY <2>1, <2>2, <2>3
<1>8. \A x : Own(Owner, x)' = Own(Owner, x) /\ Own(Owner, x) \in Nat
  BY <1>1 DEF Own, Alone, In
<1>9. ASSUME NEW i \in Impl PROVE LockParts(Owner, i)' = LockParts(Owner, i)
  <2>1. Holders(i)' = Holders(i) /\ locked_' = locked_
    BY <1>1 DEF Holders, Holds, strandVars
  <2>2. Count(op_queue_', {i}) = Count(op_queue_, {i})
    BY <1>3, <1>4
  <2>. QED
    BY <1>8, <2>1, <2>2 DEF LockParts
<1>10. ASSUME NEW s \in Strand
       PROVE  (Posted(s)' + ChainParts(Owner, OpOf(s))') - Expected(s)' =
                (Posted(s) + ChainParts(Owner, OpOf(s))) - Expected(s)
  <2>. DEFINE x == OpOf(s)
              k == Count(op_queue_, {x})
              o == Own(Owner, x)
              r == In(x, op_queues)
              d == In(Owner, Dispatching(x))
  <2>1. x \in ReactorOp
    BY DEF OpOf, ReactorOp
  <2>2. Dispatching(x)' = Dispatching(x)
    BY <1>1 DEF Dispatching
  <2>. HIDE DEF x
  <2>3. Count(op_queue_', {x}) = k + r /\ In(x, op_queues') = 0
    BY <1>1, <1>3, <1>4, <2>1 DEF In
  <2>4. ChainParts(Owner, x) = k + o + r + d
    BY DEF ChainParts
  <2>5. ChainParts(Owner, x)' = (k + r) + o + 0 + d
    BY <1>8, <2>2, <2>3 DEF ChainParts
  <2>6. k \in Nat /\ o \in Nat /\ r \in Nat /\ d \in Nat
    BY <1>4, <1>8 DEF In
  <2>. HIDE DEF k, o, r, d
  <2>7. ChainParts(Owner, x)' = ChainParts(Owner, x)
    BY <2>4, <2>5, <2>6
  <2>8. Posted(s)' = Posted(s)
    BY <1>1 DEF Posted, strandVars
  <2>9. Expected(s)' = Expected(s)
    BY <1>1 DEF Expected
  <2>10. (Posted(s)' + ChainParts(Owner, x)') - Expected(s)' =
           (Posted(s) + ChainParts(Owner, x)) - Expected(s)
    BY <2>7, <2>8, <2>9
  <2>. QED
    BY <2>10 DEF x
<1>11. /\ owner # "destroyed" /\ owner' \notin Posting \cup {"running"}
       /\ Owner \in Caller /\ Owner \notin Thread
  BY <1>1, OwnerIsCaller DEF Posting
<1>. QED
  BY <1>1, <1>4, <1>5, <1>6, <1>7, <1>9, <1>10, <1>11, SafeNext

LEMMA OwnerShutsDownSafe ==
  ASSUME IoSafe, SchedulerInv', owner_shuts_down
  PROVE  IoSafe'
<1>1. /\ owner = "shutdown" /\ owner' = "destroyed" /\ due[Owner] = None
      /\ UNCHANGED <<reactorVars, impl_, handlerVars, due>>
      /\ op_queue_' = <<>> /\ pc' = pc /\ privateVars' = privateVars
      /\ ready_queue_' = [i \in Impl |-> <<>>]
      /\ waiting_queue_' = [i \in Impl |-> <<>>] /\ locked_' = locked_
      /\ private_op_queue' = private_op_queue
      /\ private_outstanding_work' = private_outstanding_work
      /\ op_queues' = op_queues /\ due' = due /\ impl_' = impl_
      /\ step' = step /\ completing' = completing /\ events' = events
  BY DEF owner_shuts_down, shutdown, strand_shutdown, Free, privateVars,
     reactorVars, handlerVars
<1>2. /\ StrandInv /\ OwnerPlace /\ ReactorTypeOK /\ HandlerTypeOK
      /\ ThreadPlaces /\ PrivateParts
  BY IoTypes DEF IoSafe, IoInv, PlaceInv, IoTypeOK, HandlerTypeOK, OwnerAt
<1>3. \A t \in Thread : /\ pc[t] = "done" /\ private_op_queue[t] = <<>>
                        /\ completing[t] = None /\ due[t] = None
  <2>1. \A t \in Thread : pc[t] = "done"
    BY <1>1, <1>2 DEF OwnerPlace, Closed
  <2>. QED
    BY <1>2, <2>1 DEF ThreadPlaces, ThreadPlace, PrivateParts, PrivatePart
<1>4. op_queues = {}
  BY <1>1, <1>2 DEF OwnerPlace
<1>5. IoTypeOK'
  <2>1. StrandTypeOK'
    BY <1>1, <1>2 DEF StrandInv, StrandTypeOK
  <2>2. ReactorTypeOK'
    BY <1>1, <1>2 DEF ReactorTypeOK, reactorVars, kernelVars
  <2>3. HandlerTypeOK'
    BY <1>1, <1>2 DEF HandlerTypeOK, OwnerAt
  <2>4. impl_' \in [Strand -> Impl]
    BY <1>1, <1>2 DEF StrandInv
  <2>. QED
    BY <2>1, <2>2, <2>3, <2>4 DEF IoTypeOK, SchedulerInv, HandlerTypeOK, OwnerAt
<1>6. PlaceInv'
  <2>1. ThreadPlaces' /\ PrivateParts'
    BY <1>1, <1>2 DEF ThreadPlaces, ThreadPlace, PrivateParts, PrivatePart
  <2>2. OwnerPlace'
    BY <1>1, <1>2 DEF OwnerPlace, Posting, Closed
  <2>3. HandlersPlaced' /\ UnlockedEmpty' /\ DescriptorFirst(op_queue_')
    BY <1>1 DEF HandlersPlaced, PlacedIn, UnlockedEmpty, DescriptorFirst
  <2>. QED
    BY <2>1, <2>2, <2>3 DEF PlaceInv
<1>7. ASSUME NEW s \in Strand PROVE InFlight(s)' = 0
  <2>. DEFINE x == IF s = "m_read_strand" THEN "read_op" ELSE "write_op"
  <2>1. x # None
    BY IoContextAssumption DEF ReactorOp
  <2>2. Posted(s)' = 0
    <3>1. impl_'[s] \in Impl
      BY <1>1, <1>2 DEF StrandInv
    <3>2. /\ ready_queue_'[impl_'[s]] = <<>> /\ waiting_queue_'[impl_'[s]] = <<>>
      BY <1>1, <3>1
    <3>. QED
      BY <3>2, CountFew DEF Posted
  <2>3. Count(op_queue_', {x}) = 0
    BY <1>1, CountFew
  <2>4. {p \in Thread \X (1 .. 2) : /\ p[2] \in DOMAIN private_op_queue'[p[1]]
                                    /\ private_op_queue'[p[1]][p[2]] = x} = {}
    BY <1>1, <1>3
  <2>5. {c \in Caller : due'[c] = x} = {}
    BY <1>1, <1>3, <2>1 DEF Caller
  <2>6. op_queues' \cap {x} = {}
    BY <1>1, <1>4
  <2>7. {t \in Thread : completing'[t] = x /\ step'[t] \in {"enter", "body"}} = {}
    BY <1>1, <1>3, <2>1
  <2>8. Cardinality({}) = 0
    BY FS_EmptySet
  <2>. HIDE DEF x
  <2>9. Links(x)' = 0
    <3>1. Links(x)' = 0 + 0 + 0 + 0
      BY <2>3, <2>4, <2>5, <2>6, <2>8 DEF Links
    <3>. QED
      BY <3>1
  <2>10. InFlight(s)' = 0 + 0 + 0
    BY <2>2, <2>7, <2>8, <2>9 DEF InFlight, x
  <2>. QED
    BY <2>10
<1>8. CountInv'
  <2>1. ChainsAreWhole'
    BY <1>1, <1>7 DEF ChainsAreWhole
  <2>2. StrandLocks' /\ WorkCounted' /\ WorkLasts'
    BY <1>1 DEF StrandLocks, WorkCounted, WorkLasts, Posting
  <2>. QED
    BY <2>1, <2>2 DEF CountInv
<1>. QED
  BY <1>5, <1>6, <1>8 DEF IoSafe, IoInv

-----------------------------------------------------------------------------
(* A thread completes an operation *)

LEMMA FinitePairs ==
  ASSUME IoSafe, NEW op
  PROVE  IsFiniteSet(Pairs(private_op_queue, op))
<1>1. PrivateParts
  BY DEF IoSafe, IoInv, PlaceInv
<1>2. ASSUME NEW x PROVE Short(<<x>>)
  BY DEF Short
<1>3. \A t \in Thread : private_op_queue[t] = <<>>
                         \/ \E x : private_op_queue[t] = <<x>>
  BY <1>1 DEF PrivateParts, PrivatePart
<1>4. \A t \in Thread : Short(private_op_queue[t])
  BY <1>2, <1>3 DEF Short
<1>. QED
  BY <1>4, PairsChange

LEMMA LinkParts ==
  ASSUME IoSafe, NEW op
  PROVE  /\ Count(op_queue_, {op}) \in Nat
         /\ Cardinality(Pairs(private_op_queue, op)) \in Nat
         /\ Cardinality(Dues(op)) \in Nat
         /\ Cardinality(op_queues \cap {op}) \in Nat
<1>1. PrivateParts /\ op_queues \subseteq ReactorOp /\ op_queue_ \in Seq(Entry)
  BY IoTypes DEF IoSafe, IoInv, PlaceInv
<1>2. Count(op_queue_, {op}) \in Nat
  BY <1>1, CountType
<1>3. Cardinality(Pairs(private_op_queue, op)) \in Nat
  <2>1. \A t \in Thread : Short(private_op_queue[t])
    <3>1. ASSUME NEW x PROVE Short(<<x>>)
      BY DEF Short
    <3>2. \A t \in Thread : private_op_queue[t] = <<>>
                             \/ \E x : private_op_queue[t] = <<x>>
      BY <1>1 DEF PrivateParts, PrivatePart
    <3>. QED
      BY <3>1, <3>2 DEF Short
  <2>. QED
    BY <2>1, PairsChange
<1>4. Cardinality(Dues(op)) \in Nat
  <2>1. IsFiniteSet(Dues(op))
    BY FiniteThreads, FS_Subset DEF Dues
  <2>. QED
    BY <2>1, FS_CardinalityType
<1>5. Cardinality(op_queues \cap {op}) \in Nat
  <2>1. IsFiniteSet(op_queues)
    BY <1>1, BothOps
  <2>2. IsFiniteSet(op_queues \cap {op})
    BY <2>1, FS_Subset
  <2>. QED
    BY <2>2, FS_CardinalityType
<1>. QED
  BY <1>2, <1>3, <1>4, <1>5

LEMMA LinksType ==
  ASSUME IoSafe, NEW op
  PROVE  Links(op) \in Nat
<1>. DEFINE k == Count(op_queue_, {op})
            q == Cardinality(Pairs(private_op_queue, op))
            d == Cardinality(Dues(op))
            r == Cardinality(op_queues \cap {op})
<1>1. k \in Nat /\ q \in Nat /\ d \in Nat /\ r \in Nat
  BY LinkParts
<1>2. Links(op) = k + q + d + r
  BY DEF Links, Pairs, Dues
<1>. HIDE DEF k, q, d, r
<1>. QED
  BY <1>1, <1>2

\* Who holds an implementation has its lock.
LEMMA HeldIsLocked ==
  ASSUME IoSafe, owner # "destroyed", NEW t \in Thread, NEW i \in Impl, Holds(t, i)
  PROVE  /\ locked_[i] = TRUE
         /\ Links(i) = 0
         /\ \A u \in Thread : Holds(u, i) => u = t
<1>1. Links(i) + Held(i) = In(TRUE, {locked_[i]})
  BY DEF IoSafe, IoInv, CountInv, StrandLocks
<1>2. Links(i) \in Nat
  BY LinksType
<1>3. Held(i) \in Nat /\ Held(i) # 0 /\ IsFiniteSet(Holders(i))
  <2>1. IsFiniteSet(Holders(i)) /\ t \in Holders(i)
    BY FiniteThreads, FS_Subset DEF Holders
  <2>2. Cardinality(Holders(i)) \in Nat /\ Cardinality(Holders(i)) # 0
    BY <2>1, FS_CardinalityType, FS_EmptySet
  <2>. QED
    BY <2>1, <2>2 DEF Held, Holders
<1>4. In(TRUE, {locked_[i]}) \in {0, 1} /\ (In(TRUE, {locked_[i]}) = 1 => locked_[i] = TRUE)
  <2>1. In(TRUE, {locked_[i]}) \in {0, 1}
    BY DEF In
  <2>2. locked_[i] # TRUE => In(TRUE, {locked_[i]}) = 0
    BY DEF In
  <2>. DEFINE n == In(TRUE, {locked_[i]})
              l == locked_[i]
  <2>3. n \in {0, 1} /\ (l # TRUE => n = 0)
    BY <2>1, <2>2
  <2>. HIDE DEF n, l
  <2>4. n = 1 => l = TRUE
    <3>1. n = 0 => n # 1
      OBVIOUS
    <3>. QED
      BY <2>3, <3>1, Zenon
  <2>. QED
    BY <2>3, <2>4 DEF n, l
<1>5. Held(i) = 1 /\ Links(i) = 0 /\ In(TRUE, {locked_[i]}) = 1
  <2>. DEFINE l == Links(i)
              h == Held(i)
              b == In(TRUE, {locked_[i]})
  <2>1. l + h = b /\ l \in Nat /\ h \in Nat /\ h # 0 /\ b \in {0, 1}
    BY <1>1, <1>2, <1>3, <1>4
  <2>. HIDE DEF l, h, b
  <2>2. h = 1 /\ l = 0 /\ b = 1
    BY <2>1
  <2>. QED
    BY <2>2 DEF l, h, b
<1>6. ASSUME NEW u \in Thread, Holds(u, i) PROVE u = t
  <2>1. Cardinality(Holders(i)) = 1
    BY <1>5 DEF Held, Holders
  <2>2. PICK x : Holders(i) = {x}
    BY <1>3, <2>1, FS_Singleton
  <2>3. t \in Holders(i) /\ u \in Holders(i)
    BY <1>6 DEF Holders
  <2>. QED
    BY <2>2, <2>3
<1>. QED
  BY <1>4, <1>5, <1>6

LEMMA Completing ==
  ASSUME IoSafe, NEW t \in Thread, pc[t] = "complete", Free(t), step[t] # "cleanup"
  PROVE  /\ due[t] = None /\ private_op_queue[t] = <<>>
         /\ private_outstanding_work[t] = 0
         /\ ThreadPlace(t) /\ PrivatePart(t) /\ ReactorTypeOK
         /\ completing[t] \in Operation /\ t \in Caller
         /\ owner \in {"running", "join"} /\ due[Owner] = None
         /\ \A x \in Operation : x # None /\ Own(t, x) = 0
         /\ None \notin ReactorOp /\ None \notin Impl /\ Impl \cap ReactorOp = {}
         /\ Descriptor \notin Impl /\ Descriptor \notin ReactorOp
<1>1. ThreadPlace(t) /\ PrivatePart(t) /\ OwnerPlace /\ owner \in OwnerAt
  BY DEF IoSafe, IoInv, PlaceInv, ThreadPlaces, PrivateParts, IoTypeOK, OwnerAt
<1>2. due[t] = None
  BY DEF Free
<1>3. private_op_queue[t] = <<>> /\ private_outstanding_work[t] = 0
  BY <1>1 DEF PrivatePart
<1>4. /\ None \notin ReactorOp /\ None \notin Impl /\ Impl \cap ReactorOp = {}
      /\ Descriptor \notin Impl /\ Descriptor \notin ReactorOp
      /\ \A x \in Operation : x # None
  BY IoContextAssumption
<1>5. completing[t] \in Operation
  BY <1>1, IoTypes DEF ThreadPlace
<1>6. owner \in {"running", "join"} /\ due[Owner] = None
  BY <1>1 DEF OwnerPlace, OwnerAt, Posting, Closed
<1>7. ASSUME NEW x \in Operation PROVE Own(t, x) = 0
  <2>1. Alone(private_op_queue, t, x) = 0 /\ In(x, {due[t]}) = 0
    BY <1>2, <1>3, <1>4 DEF Alone, In
  <2>2. Own(t, x) = 0 + 0
    BY <2>1 DEF Own
  <2>. QED
    BY <2>2
<1>. QED
  BY <1>1, <1>2, <1>3, <1>4, <1>5, <1>6, <1>7 DEF Caller, IoSafe, IoTypeOK

\* What completing leaves to be shown of a step.
LEMMA CompletingNext ==
  ASSUME IoSafe, SchedulerInv', ReactorTypeOK', StrandInv', NEW t \in Thread,
         pc[t] = "complete", Free(t), step[t] # "cleanup",
         OthersStay(t), owner' = owner, impl_' = impl_, op_queue_' = op_queue_,
         step' \in [Thread -> {"enter", "body", "leave", "finish", "cleanup"}],
         completing' \in [Thread -> Operation \cup {None}],
         events' \in [Thread -> SUBSET ReactorOp],
         due' \in [Caller -> Operation \cup {None}],
         ThreadPlace(t)', PrivatePart(t)',
         owner = "running" /\ stopped_' => stopped_,
         \A i \in Impl :
           In(TRUE, {locked_[i]}) + Own(t, i)' + In(t, Holders(i)') =
             In(TRUE, {locked_'[i]}) + In(t, Holders(i)),
         \A s \in Strand : Posted(s)' + (Own(t, OpOf(s))' + In(OpOf(s), op_queues')
                                           + In(t, Dispatching(OpOf(s))')) =
                             Posted(s) + (In(OpOf(s), op_queues)
                                           + In(t, Dispatching(OpOf(s)))),
         (2 * In("read_op", op_queues') + 2 * In("write_op", op_queues') + Weight(t)')
             - outstanding_work_' =
           (2 * In("read_op", op_queues) + 2 * In("write_op", op_queues) + Weight(t))
             - outstanding_work_
  PROVE  IoSafe'
<1>1. \A x \in Operation : Own(t, x) = 0
  BY Completing
<1>2. DescriptorFirst(op_queue_')
  BY DEF IoSafe, IoInv, PlaceInv
<1>3. \A S : Count(op_queue_', S) = Count(op_queue_, S) /\ Count(op_queue_, S) \in Nat
  BY IoTypes, CountType
<1>4. \A x : Own(t, x)' \in Nat
  <2>1. ASSUME NEW x PROVE Own(t, x)' \in Nat
    <3>. DEFINE a == Alone(private_op_queue', t, x)
                e == In(x, {due'[t]})
    <3>1. a \in Nat /\ e \in Nat
      BY DEF Alone, In
    <3>2. Own(t, x)' = a + e
      BY DEF Own
    <3>. HIDE DEF a, e
    <3>. QED
      BY <3>1, <3>2
  <2>. QED
    BY <2>1
<1>5. ASSUME NEW i \in Impl PROVE LockParts(t, i)' = LockParts(t, i)
  <2>. DEFINE k  == Count(op_queue_, {i})
              o1 == Own(t, i)'
              h  == In(t, Holders(i))
              h1 == In(t, Holders(i)')
              b  == In(TRUE, {locked_[i]})
              b1 == In(TRUE, {locked_'[i]})
  <2>1. i \in Operation
    BY IoContextAssumption
  <2>2. LockParts(t, i) = k + 0 + h - b /\ LockParts(t, i)' = k + o1 + h1 - b1
    BY <1>1, <1>3, <2>1 DEF LockParts
  <2>3. /\ k \in Nat /\ o1 \in Nat /\ h \in Nat /\ h1 \in Nat /\ b \in Nat /\ b1 \in Nat
        /\ b + o1 + h1 = b1 + h
    BY <1>3, <1>4 DEF In
  <2>. HIDE DEF k, o1, h, h1, b, b1
  <2>. QED
    BY <2>2, <2>3
<1>6. ASSUME NEW s \in Strand
      PROVE  Posted(s)' + ChainParts(t, OpOf(s))' = Posted(s) + ChainParts(t, OpOf(s))
  <2>. DEFINE x  == OpOf(s)
              k  == Count(op_queue_, {x})
              o1 == Own(t, x)'
              n  == In(x, op_queues)
              n1 == In(x, op_queues')
              d  == In(t, Dispatching(x))
              d1 == In(t, Dispatching(x)')
              p  == Posted(s)
              p1 == Posted(s)'
  <2>1. x \in Operation
    BY IoContextAssumption DEF OpOf, ReactorOp
  <2>2. p1 + (o1 + n1 + d1) = p + (n + d)
    OBVIOUS
  <2>3. p \in Nat /\ p1 \in Nat
    BY IoTypes, PostedType, PostedNextType
  <2>4. k \in Nat /\ o1 \in Nat /\ n \in Nat /\ n1 \in Nat /\ d \in Nat /\ d1 \in Nat
    BY <1>3, <1>4 DEF In
  <2>. HIDE DEF x
  <2>5. ChainParts(t, x) = k + 0 + n + d /\ ChainParts(t, x)' = k + o1 + n1 + d1
    BY <1>1, <1>3, <2>1 DEF ChainParts
  <2>. HIDE DEF k, o1, n, n1, d, d1, p, p1
  <2>6. p1 + ChainParts(t, x)' = p + ChainParts(t, x)
    BY <2>2, <2>3, <2>4, <2>5
  <2>. QED
    BY <2>6 DEF x, p, p1
<1>7. WorkParts(t)' = WorkParts(t)
  <2>. DEFINE i  == Count(op_queue_, Impl)
              r  == Count(op_queue_, ReactorOp)
              n  == 2 * In("read_op", op_queues)
              m  == 2 * In("write_op", op_queues)
              l  == Weight(t)
              w  == outstanding_work_
              n1 == 2 * In("read_op", op_queues')
              m1 == 2 * In("write_op", op_queues')
              l1 == Weight(t)'
              w1 == outstanding_work_'
  <2>1. /\ WorkParts(t) = i + 2 * r + n + m + l - w
        /\ WorkParts(t)' = i + 2 * r + n1 + m1 + l1 - w1
    BY <1>3 DEF WorkParts, Load
  <2>2. (n1 + m1 + l1) - w1 = (n + m + l) - w
    OBVIOUS
  <2>3. i \in Nat /\ r \in Nat /\ n \in Nat /\ m \in Nat /\ n1 \in Nat /\ m1 \in Nat
    BY <1>3 DEF In
  <2>4. w \in Int /\ w1 \in Int
    BY IoTypes DEF SchedulerInv, SchedulerTypeOK
  <2>5. l \in Int /\ l1 \in Int
    <3>1. /\ private_outstanding_work[t] \in Int
          /\ private_outstanding_work'[t] \in Int
      BY IoTypes DEF SchedulerInv, SchedulerTypeOK
    <3>2. Weight(t) \in Int
      BY <3>1 DEF Weight
    <3>3. Weight(t)' \in Int
      BY <3>1 DEF Weight
    <3>. QED
      BY <3>2, <3>3
  <2>. HIDE DEF i, r, n, m, l, w, n1, m1, l1, w1
  <2>. QED
    BY <2>1, <2>2, <2>3, <2>4, <2>5
<1>. QED
  BY <1>2, <1>5, <1>6, <1>7, ThreadSafeNext

LEMMA OwnNext ==
  ASSUME NEW t, private_op_queue'[t] = <<>>, NEW x
  PROVE  Own(t, x)' = In(x, {due'[t]})
<1>1. Alone(private_op_queue', t, x) = 0
  BY DEF Alone
<1>2. In(x, {due'[t]}) \in Nat
  BY DEF In
<1>. DEFINE e == In(x, {due'[t]})
            o == Own(t, x)'
<1>3. o = 0 + e /\ e \in Nat
  BY <1>1, <1>2 DEF Own
<1>. HIDE DEF e, o
<1>4. o = e
  BY <1>3
<1>. QED
  BY <1>4 DEF e, o

LEMMA PerformedType ==
  ASSUME ReactorTypeOK, NEW ops, \A op \in ops : Performs(op), performed(ops)
  PROVE  datagrams' \in 0 .. SocketBound /\ writable' \in BOOLEAN
<1>1. datagrams \in 0 .. SocketBound /\ writable \in BOOLEAN /\ SocketBound \in Nat
  BY ReactorAssumption DEF ReactorTypeOK
<1>2. "read_op" \in ops => datagrams > 0
  BY DEF Performs, Events
<1>3. datagrams' \in 0 .. SocketBound
  <2>1. datagrams' = IF "read_op" \in ops THEN datagrams - 1 ELSE datagrams
    BY DEF performed
  <2>. QED
    BY <1>1, <1>2, <2>1
<1>4. writable' = writable \/ writable' = FALSE
  BY DEF performed
<1>. QED
  BY <1>1, <1>3, <1>4

\* A chain and the operation its handlers start.
LEMMA ChainOf ==
  ASSUME NEW h, NEW op, Starts(h, op) \/ (HandlerOf(op) = h /\ op \in ReactorOp),
         NEW s \in Strand
  PROVE  In(OpOf(s), {op}) = In(s, {StrandOf(h)})
BY DEF Starts, HandlerOf, ReactorOp, Strand, OpOf, StrandOf, In

LEMMA ReadyHandlerSafe ==
  ASSUME IoSafe, SchedulerInv', NEW t \in Thread, pc[t] = "complete", Free(t),
         step[t] = "enter", completing[t] \in Impl,
         complete_ready_handler(t, completing[t]), UNCHANGED <<impl_, owner>>
  PROVE  IoSafe'
<1>. DEFINE i == completing[t]
<1>1. /\ due[t] = None /\ private_op_queue[t] = <<>> /\ t \in Caller
      /\ ThreadPlace(t) /\ PrivatePart(t) /\ ReactorTypeOK /\ StrandInv
      /\ None \notin ReactorOp /\ None \notin Impl /\ Impl \cap ReactorOp = {}
      /\ Descriptor \notin Impl /\ Descriptor \notin ReactorOp
  BY Completing, IoTypes
<1>2. PICK h \in Handler :
        \/ /\ \E next \in Handler : PostsNext(h, next) /\ complete_ready(i, h, <<next>>)
           /\ UNCHANGED <<schedulerVars, reactorVars, due>>
        \/ /\ complete_ready(i, h, <<>>)
           /\ \E op \in ReactorOp : Starts(h, op) /\ async_op(t, op)
  BY DEF complete_ready_handler
<1>3. /\ step' = step /\ completing' = completing /\ events' = events
      /\ impl_' = impl_ /\ owner' = owner
      /\ op_queue_' = op_queue_ /\ pc' = pc /\ stopped_' = stopped_
      /\ private_op_queue' = private_op_queue
      /\ private_outstanding_work' = private_outstanding_work
  BY <1>2 DEF complete_ready_handler, handlerVars, async_op, work_started, privateVars,
     schedulerVars
<1>4. \A j \in Impl : In(t, Holders(j)') = In(t, Holders(j))
  BY <1>3 DEF Holders, Holds, In
<1>5. \A x : In(t, Dispatching(x)') = In(t, Dispatching(x)) /\ In(t, Dispatching(x)) \in Nat
  BY <1>3 DEF Dispatching, In
<1>6. \A x : Own(t, x)' = In(x, {due'[t]})
  BY <1>1, <1>3, OwnNext
<1>7. owner = "running" /\ stopped_' => stopped_
  BY <1>3
<1>8. Weight(t) = 1 /\ private_op_queue'[t] = <<>>
  BY <1>1, <1>3 DEF Weight
<1>9. CASE /\ \E next \in Handler : PostsNext(h, next) /\ complete_ready(i, h, <<next>>)
           /\ UNCHANGED <<schedulerVars, reactorVars, due>>
  <2>1. PICK next \in Handler : PostsNext(h, next) /\ complete_ready(i, h, <<next>>)
    BY <1>9
  <2>2. StrandOf(next) = StrandOf(h)
    BY <2>1 DEF PostsNext, StrandOf
  <2>3. /\ StrandInv' /\ locked_' = locked_
        /\ \A s \in Strand : Posted(s)' = Posted(s)
    <3>. DEFINE q == <<next>>
    <3>1. /\ q # <<>> /\ complete_ready(i, h, q)
          /\ PostsThrough(h, q)
      BY <2>1, <2>2 DEF PostsThrough
    <3>2. StrandInv /\ impl_' = impl_ /\ i \in Impl
      BY <1>1, <1>3
    <3>. HIDE DEF q
    <3>3. /\ StrandInv' /\ locked_' = locked_
          /\ \A s \in Strand : q # <<>> => Posted(s)' = Posted(s)
      <4>1. StrandInv' /\ locked_' = locked_
        BY <3>1, <3>2, InvokesStep
      <4>2. \A s \in Strand :
              /\ Posted(s) \in Nat /\ Posted(s)' \in Nat
              /\ q = <<>> => Posted(s)' = Posted(s) - In(s, {StrandOf(h)})
              /\ q # <<>> => Posted(s)' = Posted(s)
        BY <3>1, <3>2, InvokesStep
      <4>. QED
        BY <4>1, <4>2
    <3>. QED
      BY <3>1, <3>3
  <2>4. due' = due /\ op_queues' = op_queues /\ outstanding_work_' = outstanding_work_
    BY <1>9 DEF schedulerVars, reactorVars
  <2>5. ReactorTypeOK'
    BY <1>1, <1>9 DEF ReactorTypeOK, reactorVars, kernelVars
  <2>6. Weight(t)' = 1
    BY <1>1, <1>3, <2>4 DEF Weight
  <2>7. ThreadPlace(t)' /\ PrivatePart(t)' /\ OthersStay(t)
    BY <1>1, <1>3, <2>4 DEF ThreadPlace, PrivatePart, OthersStay, Stays
  <2>8. \A x \in Operation : Own(t, x)' = 0
    BY <1>1, <1>6, <2>4, IoContextAssumption DEF In
  <2>9. \A j \in Impl : In(TRUE, {locked_[j]}) + Own(t, j)' + In(t, Holders(j)') =
                          In(TRUE, {locked_'[j]}) + In(t, Holders(j))
    <3>1. ASSUME NEW j \in Impl
          PROVE  In(TRUE, {locked_[j]}) + Own(t, j)' + In(t, Holders(j)') =
                   In(TRUE, {locked_'[j]}) + In(t, Holders(j))
      <4>. DEFINE b == In(TRUE, {locked_[j]})
                  b1 == In(TRUE, {locked_'[j]})
                  h0 == In(t, Holders(j))
                  h1 == In(t, Holders(j)')
                  o1 == Own(t, j)'
      <4>1. b1 = b /\ b \in Nat /\ h1 = h0 /\ h0 \in Nat /\ o1 = 0
        BY <1>4, <2>3, <2>8, IoContextAssumption DEF In
      <4>. HIDE DEF b, b1, h0, h1, o1
      <4>2. b + o1 + h1 = b1 + h0
        BY <4>1
      <4>. QED
        BY <4>2 DEF b, b1, h0, h1, o1
    <3>. QED
      BY <3>1
  <2>10. \A s \in Strand : Posted(s)' + (Own(t, OpOf(s))' + In(OpOf(s), op_queues')
                                            + In(t, Dispatching(OpOf(s))')) =
                              Posted(s) + (In(OpOf(s), op_queues)
                                            + In(t, Dispatching(OpOf(s))))
    <3>1. ASSUME NEW s \in Strand
          PROVE  Posted(s)' + (Own(t, OpOf(s))' + In(OpOf(s), op_queues')
                                 + In(t, Dispatching(OpOf(s))')) =
                   Posted(s) + (In(OpOf(s), op_queues) + In(t, Dispatching(OpOf(s))))
      <4>. DEFINE x == OpOf(s)
                  n == In(x, op_queues)
                  n1 == In(x, op_queues')
                  d == In(t, Dispatching(x))
                  d1 == In(t, Dispatching(x)')
                  o1 == Own(t, x)'
      <4>1. x \in Operation
        BY IoContextAssumption DEF OpOf, ReactorOp
      <4>2. n1 = n /\ n \in Nat /\ d1 = d /\ d \in Nat /\ o1 = 0
        BY <1>5, <2>4, <2>8, <4>1 DEF In
      <4>. HIDE DEF x, n, n1, d, d1, o1
      <4>3. o1 + n1 + d1 = n + d
        BY <4>2
      <4>4. Posted(s)' + (o1 + n1 + d1) = Posted(s) + (n + d)
        BY <2>3, <4>3
      <4>. QED
        BY <4>4 DEF x, n, n1, d, d1, o1
    <3>. QED
      BY <3>1
  <2>11. (2 * In("read_op", op_queues') + 2 * In("write_op", op_queues') + Weight(t)')
             - outstanding_work_' =
           (2 * In("read_op", op_queues) + 2 * In("write_op", op_queues) + Weight(t))
             - outstanding_work_
    BY <1>8, <2>4, <2>6
  <2>. QED
    BY <1>3, <1>7, <2>3, <2>4, <2>5, <2>7, <2>9, <2>10, <2>11, IoTypes,
       CompletingNext
<1>10. CASE /\ complete_ready(i, h, <<>>)
            /\ \E op \in ReactorOp : Starts(h, op) /\ async_op(t, op)
  <2>1. PICK op \in ReactorOp : Starts(h, op) /\ async_op(t, op)
    BY <1>10
  <2>2. /\ StrandInv' /\ locked_' = locked_
        /\ \A s \in Strand : /\ Posted(s) \in Nat /\ Posted(s)' \in Nat
                             /\ Posted(s)' = Posted(s) - In(s, {StrandOf(h)})
    <3>1. PostsThrough(h, <<>>)
      BY DEF PostsThrough
    <3>. QED
      BY <1>1, <1>3, <1>10, <3>1, InvokesStep
  <2>3. /\ due' \in [Caller -> Operation \cup {None}] /\ due'[t] = op
        /\ \A d \in Caller \ {t} : due'[d] = due[d]
        /\ op \in Operation /\ op # None
        /\ op_queues' = op_queues /\ outstanding_work_' = outstanding_work_ + 1
    <3>1. op \in Operation /\ op # None /\ due \in [Caller -> Operation \cup {None}]
      BY IoContextAssumption, IoTypes
    <3>. QED
      BY <1>1, <2>1, <3>1 DEF async_op, start_op_done, start_op_blocks, work_started
  <2>4. ReactorTypeOK'
    <3>1. CASE start_op_done(op)
      BY <1>1, <3>1, PerformedType DEF start_op_done, ReactorTypeOK
    <3>2. CASE start_op_blocks(op)
      BY <1>1, <3>2 DEF start_op_blocks, ReactorTypeOK, kernelVars
    <3>. QED
      BY <2>1, <3>1, <3>2 DEF async_op
  <2>5. Weight(t)' = 2
    BY <1>1, <1>3, <2>3 DEF Weight
  <2>6. ThreadPlace(t)' /\ PrivatePart(t)' /\ OthersStay(t)
    BY <1>1, <1>3, <2>3 DEF ThreadPlace, PrivatePart, OthersStay, Stays
  <2>7. \A j \in Impl : Own(t, j)' = 0
    BY <1>1, <1>6, <2>3 DEF In
  <2>8. ASSUME NEW j \in Impl
        PROVE  In(TRUE, {locked_[j]}) + Own(t, j)' + In(t, Holders(j)') =
                 In(TRUE, {locked_'[j]}) + In(t, Holders(j))
    <3>. DEFINE b == In(TRUE, {locked_[j]})
                b1 == In(TRUE, {locked_'[j]})
                h0 == In(t, Holders(j))
                h1 == In(t, Holders(j)')
                o1 == Own(t, j)'
    <3>1. b1 = b /\ b \in Nat /\ h1 = h0 /\ h0 \in Nat /\ o1 = 0
      BY <1>4, <2>2, <2>7 DEF In
    <3>. HIDE DEF b, b1, h0, h1, o1
    <3>2. b + o1 + h1 = b1 + h0
      BY <3>1
    <3>. QED
      BY <3>2 DEF b, b1, h0, h1, o1
  <2>9. ASSUME NEW s \in Strand
        PROVE  Posted(s)' + (Own(t, OpOf(s))' + In(OpOf(s), op_queues')
                               + In(t, Dispatching(OpOf(s))')) =
                 Posted(s) + (In(OpOf(s), op_queues) + In(t, Dispatching(OpOf(s))))
    <3>. DEFINE x == OpOf(s)
                n == In(x, op_queues)
                n1 == In(x, op_queues')
                d == In(t, Dispatching(x))
                d1 == In(t, Dispatching(x)')
                o1 == Own(t, x)'
                p == Posted(s)
                p1 == Posted(s)'
                e == In(x, {op})
    <3>1. e = In(s, {StrandOf(h)}) /\ x # None
      BY <1>1, <2>1, ChainOf DEF OpOf, ReactorOp
    <3>2. p1 = p - e /\ p \in Nat /\ p1 \in Nat /\ e \in Nat
      BY <2>2, <3>1 DEF In
    <3>3. o1 + n1 = n + e /\ o1 \in Nat /\ n \in Nat /\ n1 \in Nat
      <4>1. o1 = In(x, {due'[t]})
        BY <1>6
      <4>. HIDE DEF x
      <4>. QED
        BY <2>3, <4>1 DEF In
    <3>4. d1 = d /\ d \in Nat
      BY <1>5
    <3>. HIDE DEF x, n, n1, d, d1, o1, p, p1, e
    <3>5. p1 + (o1 + n1 + d1) = p + (n + d)
      BY <3>2, <3>3, <3>4
    <3>. QED
      BY <3>5 DEF x, n, n1, d, d1, o1, p, p1
  <2>10. (2 * In("read_op", op_queues') + 2 * In("write_op", op_queues') + Weight(t)')
             - outstanding_work_' =
           (2 * In("read_op", op_queues) + 2 * In("write_op", op_queues) + Weight(t))
             - outstanding_work_
    <3>. DEFINE n == In("read_op", op_queues)
                m == In("write_op", op_queues)
                n1 == In("read_op", op_queues')
                m1 == In("write_op", op_queues')
                w == outstanding_work_
                w1 == outstanding_work_'
                l1 == Weight(t)'
    <3>1. n \in Nat /\ m \in Nat /\ n1 \in Nat /\ m1 \in Nat /\ w \in Int
      BY IoTypes DEF In
    <3>2. n1 = n /\ m1 = m /\ w1 = w + 1 /\ l1 = 2
      BY <2>3, <2>5
    <3>. HIDE DEF n, m, n1, m1, w, w1, l1
    <3>3. (2 * n1 + 2 * m1 + l1) - w1 = (2 * n + 2 * m + 1) - w
      BY <3>1, <3>2
    <3>. QED
      BY <1>8, <3>3 DEF n, m, n1, m1, w, w1, l1
  <2>. QED
    BY <1>3, <1>7, <2>2, <2>3, <2>4, <2>6, <2>8, <2>9, <2>10, IoTypes,
       CompletingNext
<1>. QED
  BY <1>2, <1>9, <1>10

LEMMA DoCompleteExitSafe ==
  ASSUME IoSafe, SchedulerInv', NEW t \in Thread, pc[t] = "complete", Free(t),
         step[t] = "enter", completing[t] \in Impl,
         on_do_complete_exit(t, completing[t]), UNCHANGED <<impl_, owner>>
  PROVE  IoSafe'
<1>. DEFINE i == completing[t]
            more == MoreHandlers(i)
<1>1. /\ due[t] = None /\ private_op_queue[t] = <<>> /\ t \in Caller
      /\ private_outstanding_work[t] = 0
      /\ ThreadPlace(t) /\ PrivatePart(t) /\ ReactorTypeOK /\ StrandInv
      /\ owner # "destroyed" /\ i \in Operation /\ i # None
      /\ None \notin ReactorOp /\ None \notin Impl /\ Impl \cap ReactorOp = {}
  BY Completing, IoTypes
<1>2. /\ impl_' = impl_ /\ owner' = owner /\ release(i) /\ IsComplete(t)
      /\ op_queue_' = op_queue_ /\ pc' = pc /\ stopped_' = stopped_
      /\ outstanding_work_' = outstanding_work_
      /\ due' = due /\ UNCHANGED reactorVars
      /\ more => post_continuation(t, i)
      /\ ~more => UNCHANGED schedulerVars
  BY DEF on_do_complete_exit, post_continuation, schedulerVars
<1>3. /\ step' \in [Thread -> {"enter", "body", "leave", "finish", "cleanup"}]
      /\ completing' \in [Thread -> Operation \cup {None}]
      /\ events' \in [Thread -> SUBSET ReactorOp]
      /\ due' \in [Caller -> Operation \cup {None}]
      /\ step'[t] = "cleanup" /\ completing'[t] = None
      /\ \A u \in Thread \ {t} : step'[u] = step[u] /\ completing'[u] = completing[u]
  BY <1>2, IoTypes DEF IsComplete, Enters
<1>4. /\ more => private_op_queue'[t] = <<i>> /\ private_outstanding_work'[t] = 1
      /\ ~more => private_op_queue'[t] = <<>> /\ private_outstanding_work'[t] = 0
      /\ \A u \in Thread \ {t} :
           /\ private_op_queue'[u] = private_op_queue[u]
           /\ private_outstanding_work'[u] = private_outstanding_work[u]
  <2>1. CASE more
    <3>1. Append(<<>>, i) = <<i>>
      OBVIOUS
    <3>2. private_op_queue'[t] = Append(private_op_queue[t], i)
      BY <1>2, <2>1, IoTypes DEF post_continuation
    <3>3. private_outstanding_work'[t] = private_outstanding_work[t] + 1
      BY <1>2, <2>1, IoTypes DEF post_continuation
    <3>4. /\ private_op_queue'[t] = <<i>>
          /\ private_outstanding_work'[t] = 1
      BY <1>1, <3>1, <3>2, <3>3
    <3>5. \A u \in Thread \ {t} :
            /\ private_op_queue'[u] = private_op_queue[u]
            /\ private_outstanding_work'[u] = private_outstanding_work[u]
      BY <1>2, <2>1, IoTypes DEF post_continuation
    <3>. QED
      BY <2>1, <3>4, <3>5
  <2>2. CASE ~more
    BY <1>1, <1>2, <2>2 DEF schedulerVars, privateVars
  <2>. QED
    BY <2>1, <2>2
<1>5. /\ StrandInv' /\ locked_' = [locked_ EXCEPT ![i] = more]
      /\ \A s \in Strand : Posted(s) \in Nat /\ Posted(s)' = Posted(s)
  BY <1>1, <1>2, ReleaseStep
<1>6. Holds(t, i) /\ locked_[i] = TRUE
  <2>1. Holds(t, i)
    BY DEF Holds
  <2>. QED
    BY <1>1, <2>1, HeldIsLocked
<1>7. more \in BOOLEAN
  BY DEF MoreHandlers
<1>8. OthersStay(t)
  BY <1>2, <1>3, <1>4 DEF OthersStay, Stays
<1>9. ThreadPlace(t)' /\ PrivatePart(t)'
  <2>1. ThreadPlace(t)'
    BY <1>1, <1>2, <1>3 DEF ThreadPlace
  <2>. HIDE DEF more, i
  <2>2. i \in Impl
    BY DEF i
  <2>3. pc'[t] = "complete"
    BY <1>2
  <2>4. PrivatePart(t)'
    BY <1>3, <1>4, <2>2, <2>3 DEF PrivatePart
  <2>. QED
    BY <2>1, <2>4
<1>10. ReactorTypeOK' /\ op_queues' = op_queues
  BY <1>1, <1>2 DEF ReactorTypeOK, reactorVars, kernelVars
<1>11. \A x \in Operation : Own(t, x)' = IF more /\ x = i THEN 1 ELSE 0
  <2>1. ASSUME NEW x \in Operation PROVE Own(t, x)' = IF more /\ x = i THEN 1 ELSE 0
    <3>. HIDE DEF more, i
    <3>1. In(x, {due'[t]}) = 0
      BY <1>1, <1>2, <2>1, IoContextAssumption DEF In
    <3>2. Alone(private_op_queue', t, x) = IF more /\ x = i THEN 1 ELSE 0
      <4>1. more => private_op_queue'[t] = <<i>>
        BY <1>4
      <4>2. ~more => private_op_queue'[t] = <<>>
        BY <1>4
      <4>3. <<i>> = <<x>> <=> x = i
        OBVIOUS
      <4>4. <<>> # <<x>>
        OBVIOUS
      <4>. QED
        BY <4>1, <4>2, <4>3, <4>4 DEF Alone
    <3>. DEFINE o == Own(t, x)'
                a == Alone(private_op_queue', t, x)
    <3>3. o = a + 0 /\ a \in {0, 1}
      BY <3>1, <3>2 DEF Own
    <3>4. o = a
      <4>. HIDE DEF o, a
      <4>. QED
        BY <3>3
    <3>. QED
      BY <3>2, <3>4
  <2>. QED
    BY <2>1
<1>12. ASSUME NEW j \in Impl
       PROVE  In(TRUE, {locked_[j]}) + Own(t, j)' + In(t, Holders(j)') =
                In(TRUE, {locked_'[j]}) + In(t, Holders(j))
  <2>. DEFINE b == In(TRUE, {locked_[j]})
              b1 == In(TRUE, {locked_'[j]})
              h0 == In(t, Holders(j))
              h1 == In(t, Holders(j)')
              o1 == Own(t, j)'
  <2>0. j \in Operation
    BY IoContextAssumption
  <2>1. h1 = 0
    BY <1>1, <1>3 DEF In, Holders, Holds
  <2>2. CASE j = i
    <3>1. h0 = 1
      BY <1>6, <2>2 DEF In, Holders
    <3>2. b = 1
      BY <1>6, <2>2 DEF In
    <3>3. locked_'[j] = more
      BY <1>5, <2>2 DEF StrandInv, StrandTypeOK
    <3>. HIDE DEF more, i
    <3>4. b1 = IF more THEN 1 ELSE 0
      BY <1>7, <3>3 DEF In
    <3>5. o1 = IF more THEN 1 ELSE 0
      BY <1>11, <2>0, <2>2
    <3>. HIDE DEF b, b1, h0, h1, o1
    <3>6. b + o1 + h1 = b1 + h0
      BY <2>1, <3>1, <3>2, <3>4, <3>5
    <3>. QED
      BY <3>6 DEF b, b1, h0, h1, o1
  <2>3. CASE j # i
    <3>1. h0 = 0
      BY <1>1, <2>3 DEF In, Holders, Holds
    <3>2. locked_'[j] = locked_[j]
      BY <1>5, <2>3 DEF StrandInv, StrandTypeOK
    <3>3. b1 = b /\ b \in Nat
      BY <3>2 DEF In
    <3>4. o1 = 0
      BY <1>11, <2>0, <2>3
    <3>. HIDE DEF b, b1, h0, h1, o1
    <3>5. b + o1 + h1 = b1 + h0
      BY <2>1, <3>1, <3>3, <3>4
    <3>. QED
      BY <3>5 DEF b, b1, h0, h1, o1
  <2>. QED
    BY <2>2, <2>3
<1>13. ASSUME NEW s \in Strand
       PROVE  Posted(s)' + (Own(t, OpOf(s))' + In(OpOf(s), op_queues')
                              + In(t, Dispatching(OpOf(s))')) =
                Posted(s) + (In(OpOf(s), op_queues) + In(t, Dispatching(OpOf(s))))
  <2>. DEFINE x == OpOf(s)
              n == In(x, op_queues)
              n1 == In(x, op_queues')
              d == In(t, Dispatching(x))
              d1 == In(t, Dispatching(x)')
              o1 == Own(t, x)'
  <2>1. x \in Operation /\ x # None /\ x # i
    BY <1>1, IoContextAssumption DEF OpOf, ReactorOp
  <2>2. d = 0 /\ d1 = 0
    BY <1>3, <2>1 DEF In, Dispatching
  <2>3. n1 = n /\ n \in Nat /\ o1 = 0
    BY <1>10, <1>11, <2>1 DEF In
  <2>. HIDE DEF n, n1, d, d1, o1
  <2>4. o1 + n1 + d1 = n + d
    BY <2>2, <2>3
  <2>5. Posted(s)' + (o1 + n1 + d1) = Posted(s) + (n + d)
    BY <1>5, <2>4
  <2>. QED
    BY <2>5 DEF n, n1, d, d1, o1
<1>14. (2 * In("read_op", op_queues') + 2 * In("write_op", op_queues') + Weight(t)')
           - outstanding_work_' =
         (2 * In("read_op", op_queues) + 2 * In("write_op", op_queues) + Weight(t))
           - outstanding_work_
  <2>1. Weight(t) = 1
    BY <1>1, IoContextAssumption DEF Weight
  <2>2. Weight(t)' = 1
    <3>. HIDE DEF more, i
    <3>1. <<i>> # <<>>
      OBVIOUS
    <3>2. pc'[t] = "complete" /\ step'[t] = "cleanup"
      BY <1>2, <1>3
    <3>3. CASE more
      BY <1>4, <3>1, <3>2, <3>3 DEF Weight
    <3>4. CASE ~more
      BY <1>4, <3>2, <3>4 DEF Weight
    <3>. QED
      BY <3>3, <3>4
  <2>. QED
    BY <1>2, <1>10, <2>1, <2>2
<1>. QED
  BY <1>2, <1>3, <1>5, <1>8, <1>9, <1>10, <1>12, <1>13, <1>14, CompletingNext

\* perform_io's queue: nothing, an operation, or both.
LEMMA OrderedQueue ==
  ASSUME NEW ops \in SUBSET ReactorOp
  PROVE  \/ ops = {} /\ InOrder(ops) = <<>>
         \/ \E op \in ReactorOp : ops = {op} /\ InOrder(ops) = <<op>>
         \/ /\ ops = {"read_op", "write_op"}
            /\ InOrder(ops) = <<"write_op", "read_op">>
<1>. DEFINE r == Only("read_op", ops)
            w == Only("write_op", ops)
<1>1. /\ r = IF "read_op" \in ops THEN <<"read_op">> ELSE <<>>
      /\ w = IF "write_op" \in ops THEN <<"write_op">> ELSE <<>>
      /\ InOrder(ops) = w \o r
  BY DEF Only, InOrder
<1>2. /\ \A a, b : <<a>> \o <<b>> = <<a, b>>
      /\ \A a : <<a>> \o <<>> = <<a>> /\ <<>> \o <<a>> = <<a>>
  <2>1. \A a, b : <<a>> \o <<b>> = <<a, b>>
    BY OneThenOne
  <2>2. ASSUME NEW a PROVE <<a>> \o <<>> = <<a>> /\ <<>> \o <<a>> = <<a>>
    <3>1. <<a>> \in Seq({a})
      OBVIOUS
    <3>. QED
      BY <3>1, ConcatEmptySeq
  <2>. QED
    BY <2>1, <2>2
<1>3. CASE "read_op" \in ops /\ "write_op" \in ops
  <2>1. InOrder(ops) = <<"write_op", "read_op">>
    BY <1>1, <1>2, <1>3, Zenon
  <2>2. ops = {"read_op", "write_op"}
    BY <1>3 DEF ReactorOp
  <2>. QED
    BY <2>1, <2>2
<1>4. CASE "read_op" \in ops /\ "write_op" \notin ops
  <2>1. InOrder(ops) = <<"read_op">>
    BY <1>1, <1>2, <1>4, Zenon
  <2>2. ops = {"read_op"} /\ "read_op" \in ReactorOp
    BY <1>4 DEF ReactorOp
  <2>. QED
    BY <2>1, <2>2
<1>5. CASE "read_op" \notin ops /\ "write_op" \in ops
  <2>1. InOrder(ops) = <<"write_op">>
    BY <1>1, <1>2, <1>5, Zenon
  <2>2. ops = {"write_op"} /\ "write_op" \in ReactorOp
    BY <1>5 DEF ReactorOp
  <2>. QED
    BY <2>1, <2>2
<1>6. CASE "read_op" \notin ops /\ "write_op" \notin ops
  <2>1. <<>> \o <<>> = <<>>
    OBVIOUS
  <2>2. InOrder(ops) = <<>>
    BY <1>1, <1>6, <2>1
  <2>3. ops = {}
    BY <1>6 DEF ReactorOp
  <2>. QED
    BY <2>2, <2>3
<1>. QED
  BY <1>3, <1>4, <1>5, <1>6

LEMMA DescriptorSafe ==
  ASSUME IoSafe, SchedulerInv', NEW t \in Thread, pc[t] = "complete", Free(t),
         complete_descriptor(t), UNCHANGED <<impl_, owner>>
  PROVE  IoSafe'
<1>. DEFINE ops == Completed(events[t])
            done == InOrder(ops)
<1>1. step[t] = "enter" /\ completing[t] = Descriptor
  BY DEF complete_descriptor
<1>2. /\ due[t] = None /\ private_op_queue[t] = <<>> /\ t \in Caller
      /\ private_outstanding_work[t] = 0
      /\ ThreadPlace(t) /\ PrivatePart(t) /\ ReactorTypeOK /\ StrandInv
      /\ None \notin ReactorOp /\ None \notin Impl /\ Impl \cap ReactorOp = {}
      /\ Descriptor \notin Impl /\ Descriptor \notin ReactorOp
      /\ ReactorOp \subseteq Operation /\ None # Descriptor
  BY <1>1, Completing, IoTypes
<1>3. /\ ops \subseteq ReactorOp /\ ops \subseteq op_queues
      /\ \A op \in ops : Performs(op)
  BY IoTypes DEF Completed
<1>4. /\ impl_' = impl_ /\ owner' = owner /\ UNCHANGED strandVars
      /\ op_queues' = op_queues \ ops
      /\ performed(ops) /\ UNCHANGED <<readied, registered_out, tried, task_result_>>
      /\ done = <<>> => /\ compensating_work_started(t) /\ IsComplete(t)
                        /\ due' = due
      /\ done # <<>> =>
           /\ completing' = [completing EXCEPT ![t] = Head(done)]
           /\ due' = [due EXCEPT ![t] = IF Tail(done) = <<>> THEN None ELSE done[2]]
           /\ events' = [events EXCEPT ![t] = {}]
           /\ UNCHANGED <<schedulerVars, step>>
  BY DEF complete_descriptor, perform_io
<1>5. ReactorTypeOK'
  <2>1. datagrams' \in 0 .. SocketBound /\ writable' \in BOOLEAN
    BY <1>2, <1>3, <1>4, PerformedType
  <2>. QED
    BY <1>2, <1>4, <2>1 DEF ReactorTypeOK
<1>6. StrandInv' /\ \A s \in Strand : Posted(s)' = Posted(s)
  BY <1>2, <1>4 DEF StrandInv, StrandTypeOK, HandlersPlaced, PlacedIn, UnlockedEmpty,
     strandVars, Posted
<1>7. /\ op_queue_' = op_queue_ /\ pc' = pc /\ stopped_' = stopped_
      /\ outstanding_work_' = outstanding_work_
      /\ private_op_queue' = private_op_queue
  <2>1. CASE done = <<>>
    BY <1>4, <2>1 DEF compensating_work_started
  <2>2. CASE done # <<>>
    BY <1>4, <2>2 DEF schedulerVars, privateVars
  <2>. QED
    BY <2>1, <2>2
<1>8. /\ step' \in [Thread -> {"enter", "body", "leave", "finish", "cleanup"}]
      /\ completing' \in [Thread -> Operation \cup {None}]
      /\ events' \in [Thread -> SUBSET ReactorOp]
      /\ due' \in [Caller -> Operation \cup {None}]
      /\ \A u \in Thread \ {t} :
           /\ step'[u] = step[u] /\ completing'[u] = completing[u]
           /\ private_outstanding_work'[u] = private_outstanding_work[u]
      /\ \A d \in Caller \ {t} : due'[d] = due[d]
      /\ \/ /\ ops = {} /\ step'[t] = "cleanup" /\ completing'[t] = None
            /\ due'[t] = None /\ private_outstanding_work'[t] = 1
         \/ /\ step'[t] = "enter" /\ private_outstanding_work'[t] = 0
            /\ \/ /\ \E op \in ReactorOp : ops = {op} /\ completing'[t] = op
                  /\ due'[t] = None
               \/ /\ ops = {"read_op", "write_op"} /\ completing'[t] = "write_op"
                  /\ due'[t] = "read_op"
  <2>1. /\ step \in [Thread -> {"enter", "body", "leave", "finish", "cleanup"}]
        /\ completing \in [Thread -> Operation \cup {None}]
        /\ events \in [Thread -> SUBSET ReactorOp]
        /\ due \in [Caller -> Operation \cup {None}]
        /\ private_outstanding_work \in [Thread -> Int]
    BY IoTypes
  <2>2. /\ "read_op" \in Operation /\ "write_op" \in Operation
    BY <1>2 DEF ReactorOp
  <2>3. CASE ops = {} /\ done = <<>>
    <3>1. /\ private_outstanding_work'[t] = private_outstanding_work[t] + 1
          /\ \A u \in Thread \ {t} :
               private_outstanding_work'[u] = private_outstanding_work[u]
      BY <1>4, <2>1, <2>3 DEF compensating_work_started
    <3>2. private_outstanding_work'[t] = 1
      BY <1>2, <3>1
    <3>3. IsComplete(t) /\ due' = due
      BY <1>4, <2>3
    <3>. QED
      BY <1>2, <2>1, <2>3, <3>1, <3>2, <3>3 DEF IsComplete, Enters
  <2>4. ASSUME NEW op \in ReactorOp, ops = {op}, done = <<op>>
        PROVE  /\ completing' = [completing EXCEPT ![t] = op]
               /\ due' = [due EXCEPT ![t] = None]
               /\ events' = [events EXCEPT ![t] = {}]
               /\ UNCHANGED <<schedulerVars, step>>
    <3>1. <<op>> # <<>> /\ Head(<<op>>) = op /\ Tail(<<op>>) = <<>>
      OBVIOUS
    <3>. QED
      BY <1>4, <2>4, <3>1
  <2>5. ASSUME done = <<"write_op", "read_op">>
        PROVE  /\ completing' = [completing EXCEPT ![t] = "write_op"]
               /\ due' = [due EXCEPT ![t] = "read_op"]
               /\ events' = [events EXCEPT ![t] = {}]
               /\ UNCHANGED <<schedulerVars, step>>
    <3>. DEFINE q == <<"write_op", "read_op">>
    <3>1. q # <<>> /\ Head(q) = "write_op" /\ Tail(q) # <<>> /\ q[2] = "read_op"
      <4>1. q \in Seq({"write_op", "read_op"}) /\ Len(q) = 2
        OBVIOUS
      <4>2. Len(Tail(q)) = 1
        BY <4>1
      <4>. QED
        BY <4>2
    <3>. HIDE DEF q
    <3>2. done = q
      BY <2>5 DEF q
    <3>. QED
      BY <1>4, <3>1, <3>2
  <2>. HIDE DEF done
  <2>6. ASSUME NEW op \in ReactorOp, ops = {op}, done = <<op>>
        PROVE  /\ completing' \in [Thread -> Operation \cup {None}]
               /\ events' \in [Thread -> SUBSET ReactorOp]
               /\ due' \in [Caller -> Operation \cup {None}]
               /\ \A u \in Thread \ {t} : completing'[u] = completing[u]
               /\ \A d \in Caller \ {t} : due'[d] = due[d]
               /\ completing'[t] = op /\ due'[t] = None
               /\ step' = step
               /\ private_outstanding_work' = private_outstanding_work
    <3>1. /\ completing' = [completing EXCEPT ![t] = op]
          /\ due' = [due EXCEPT ![t] = None]
          /\ events' = [events EXCEPT ![t] = {}]
          /\ UNCHANGED <<schedulerVars, step>>
      BY <2>4, <2>6
    <3>2. op \in Operation
      BY <1>2
    <3>. QED
      BY <1>2, <2>1, <3>1, <3>2 DEF schedulerVars, privateVars
  <2>7. ASSUME done = <<"write_op", "read_op">>
        PROVE  /\ completing' \in [Thread -> Operation \cup {None}]
               /\ events' \in [Thread -> SUBSET ReactorOp]
               /\ due' \in [Caller -> Operation \cup {None}]
               /\ \A u \in Thread \ {t} : completing'[u] = completing[u]
               /\ \A d \in Caller \ {t} : due'[d] = due[d]
               /\ completing'[t] = "write_op" /\ due'[t] = "read_op"
               /\ step' = step
               /\ private_outstanding_work' = private_outstanding_work
    <3>1. /\ completing' = [completing EXCEPT ![t] = "write_op"]
          /\ due' = [due EXCEPT ![t] = "read_op"]
          /\ events' = [events EXCEPT ![t] = {}]
          /\ UNCHANGED <<schedulerVars, step>>
      BY <2>5, <2>7
    <3>. QED
      BY <1>2, <2>1, <2>2, <3>1 DEF schedulerVars, privateVars
  <2>8. CASE \E op \in ReactorOp : ops = {op} /\ done = <<op>>
    BY <1>1, <1>2, <2>1, <2>6, <2>8
  <2>9. CASE ops = {"read_op", "write_op"} /\ done = <<"write_op", "read_op">>
    BY <1>1, <1>2, <2>1, <2>7, <2>9
  <2>. QED
    BY <1>3, <2>3, <2>8, <2>9, OrderedQueue DEF done
<1>. HIDE DEF ops, done
<1>9. OthersStay(t)
  BY <1>7, <1>8 DEF OthersStay, Stays
<1>10. ThreadPlace(t)' /\ PrivatePart(t)'
  <2>1. pc'[t] = "complete" /\ private_op_queue'[t] = <<>>
    BY <1>2, <1>7
  <2>2. "read_op" \in ReactorOp /\ "write_op" \in ReactorOp
    BY DEF ReactorOp
  <2>3. ThreadPlace(t)'
    BY <1>2, <1>8, <2>1, <2>2 DEF ThreadPlace
  <2>4. PrivatePart(t)'
    BY <1>8, <2>1 DEF PrivatePart
  <2>. QED
    BY <2>3, <2>4
<1>11. \A x : Own(t, x)' = In(x, {due'[t]})
  BY <1>2, <1>7, OwnNext
<1>12. ASSUME NEW j \in Impl
       PROVE  In(TRUE, {locked_[j]}) + Own(t, j)' + In(t, Holders(j)') =
                In(TRUE, {locked_'[j]}) + In(t, Holders(j))
  <2>. DEFINE b == In(TRUE, {locked_[j]})
              b1 == In(TRUE, {locked_'[j]})
              h0 == In(t, Holders(j))
              h1 == In(t, Holders(j)')
              o1 == Own(t, j)'
  <2>1. j # Descriptor /\ j # None /\ j \notin ReactorOp
    BY <1>2
  <2>2. h0 = 0
    BY <1>1, <1>2, <2>1 DEF In, Holders, Holds
  <2>3. h1 = 0
    <3>1. ~Holds(t, j)'
      BY <1>8, <2>1 DEF Holds, ReactorOp
    <3>. QED
      BY <3>1 DEF In, Holders
  <2>4. o1 = 0
    BY <1>8, <1>11, <2>1 DEF In, ReactorOp
  <2>5. b1 = b /\ b \in Nat
    BY <1>4 DEF strandVars, In
  <2>. HIDE DEF b, b1, h0, h1, o1
  <2>6. b + o1 + h1 = b1 + h0
    BY <2>2, <2>3, <2>4, <2>5
  <2>. QED
    BY <2>6 DEF b, b1, h0, h1, o1
<1>13. ASSUME NEW s \in Strand
       PROVE  Posted(s)' + (Own(t, OpOf(s))' + In(OpOf(s), op_queues')
                              + In(t, Dispatching(OpOf(s))')) =
                Posted(s) + (In(OpOf(s), op_queues) + In(t, Dispatching(OpOf(s))))
  <2>. DEFINE x == OpOf(s)
              n == In(x, op_queues)
              n1 == In(x, op_queues')
              d == In(t, Dispatching(x))
              d1 == In(t, Dispatching(x)')
              o1 == Own(t, x)'
  <2>1. x \in ReactorOp /\ x # Descriptor /\ x # None
    BY <1>2 DEF OpOf, ReactorOp
  <2>. HIDE DEF x
  <2>2. d = 0
    BY <1>1, <2>1 DEF In, Dispatching
  <2>3. o1 = In(x, {due'[t]})
    BY <1>11
  <2>4. d1 = In(x, {completing'[t]})
    <3>1. step'[t] \in {"enter", "body"} \/ completing'[t] # x
      BY <1>8, <2>1
    <3>. QED
      BY <3>1 DEF In, Dispatching
  <2>5. CASE x \in ops
    <3>1. n = 1 /\ n1 = 0
      BY <1>3, <1>4, <2>5 DEF In
    <3>2. o1 + d1 = 1 /\ o1 \in Nat /\ d1 \in Nat
      BY <1>2, <1>8, <2>1, <2>3, <2>4, <2>5 DEF In
    <3>. HIDE DEF n, n1, d, d1, o1
    <3>3. o1 + n1 + d1 = n + d
      BY <2>2, <3>1, <3>2
    <3>4. Posted(s)' + (o1 + n1 + d1) = Posted(s) + (n + d)
      BY <1>6, <3>3
    <3>. QED
      BY <3>4 DEF n, n1, d, d1, o1, x
  <2>6. CASE x \notin ops
    <3>1. n1 = n /\ n \in Nat
      BY <1>4, <2>6 DEF In
    <3>2. o1 = 0 /\ d1 = 0
      BY <1>2, <1>8, <2>1, <2>3, <2>4, <2>6 DEF In, ReactorOp
    <3>. HIDE DEF n, n1, d, d1, o1
    <3>3. o1 + n1 + d1 = n + d
      BY <2>2, <3>1, <3>2
    <3>4. Posted(s)' + (o1 + n1 + d1) = Posted(s) + (n + d)
      BY <1>6, <3>3
    <3>. QED
      BY <3>4 DEF n, n1, d, d1, o1, x
  <2>. QED
    BY <2>5, <2>6
<1>14. (2 * In("read_op", op_queues') + 2 * In("write_op", op_queues') + Weight(t)')
           - outstanding_work_' =
         (2 * In("read_op", op_queues) + 2 * In("write_op", op_queues) + Weight(t))
           - outstanding_work_
  <2>. DEFINE n == In("read_op", op_queues)
              m == In("write_op", op_queues)
              n1 == In("read_op", op_queues')
              m1 == In("write_op", op_queues')
              l1 == Weight(t)'
  <2>1. Weight(t) = 0
    BY <1>1, <1>2 DEF Weight
  <2>2. n \in Nat /\ m \in Nat /\ n1 \in Nat /\ m1 \in Nat
    BY DEF In
  <2>3. pc'[t] = "complete" /\ private_op_queue'[t] = <<>>
    BY <1>2, <1>7
  <2>4. 2 * n1 + 2 * m1 + l1 = 2 * n + 2 * m
    <3>1. CASE ops = {}
      <4>1. n1 = n /\ m1 = m
        BY <1>4, <3>1 DEF In
      <4>2. l1 = 0
        BY <1>8, <2>3, <3>1 DEF Weight
      <4>. HIDE DEF n, m, n1, m1, l1
      <4>. QED
        BY <2>2, <4>1, <4>2
    <3>2. CASE \E op \in ReactorOp : ops = {op} /\ completing'[t] = op
                                       /\ due'[t] = None /\ step'[t] = "enter"
      <4>1. l1 = 2
        BY <1>2, <2>3, <3>2 DEF Weight
      <4>2. n1 + m1 + 1 = n + m
        <5>1. ops = {"read_op"} \/ ops = {"write_op"}
          BY <3>2 DEF ReactorOp
        <5>. QED
          BY <1>3, <1>4, <5>1 DEF In
      <4>. HIDE DEF n, m, n1, m1, l1
      <4>. QED
        BY <2>2, <4>1, <4>2
    <3>3. CASE /\ ops = {"read_op", "write_op"} /\ completing'[t] = "write_op"
               /\ due'[t] = "read_op" /\ step'[t] = "enter"
      <4>1. l1 = 4
        <5>1. /\ "read_op" \in ReactorOp /\ "write_op" \notin Impl
              /\ "write_op" # Descriptor
          BY <1>2 DEF ReactorOp
        <5>. QED
          BY <2>3, <3>3, <5>1 DEF Weight
      <4>2. n1 = 0 /\ m1 = 0 /\ n = 1 /\ m = 1
        BY <1>3, <1>4, <3>3 DEF In
      <4>. HIDE DEF n, m, n1, m1, l1
      <4>. QED
        BY <4>1, <4>2
    <3>. QED
      BY <1>8, <3>1, <3>2, <3>3
  <2>5. outstanding_work_' = outstanding_work_ /\ outstanding_work_ \in Int
    BY <1>7, IoTypes
  <2>6. l1 \in Int
    BY <1>8 DEF Weight
  <2>. DEFINE w == outstanding_work_
              w1 == outstanding_work_'
              l == Weight(t)
  <2>7. l = 0 /\ w1 = w /\ w \in Int
    BY <2>1, <2>5
  <2>. HIDE DEF n, m, n1, m1, l1, w, w1, l
  <2>8. (2 * n1 + 2 * m1 + l1) - w1 = (2 * n + 2 * m + l) - w
    BY <2>2, <2>4, <2>6, <2>7
  <2>. QED
    BY <2>8 DEF n, m, n1, m1, l1, w, w1, l
<1>15. owner = "running" /\ stopped_' => stopped_
  BY <1>7
<1>. QED
  BY <1>1, <1>4, <1>5, <1>6, <1>7, <1>8, <1>9, <1>10, <1>12, <1>13, <1>14, <1>15,
     CompletingNext

\* A step of the dispatch of an operation's handler.
LEMMA DispatchNext ==
  ASSUME IoSafe, SchedulerInv', StrandInv', NEW t \in Thread, pc[t] = "complete",
         Free(t), step[t] # "cleanup", completing[t] \in ReactorOp,
         UNCHANGED <<schedulerVars, reactorVars, completing, events, impl_, owner>>,
         NEW a \in {"body", "leave", "finish"}, step' = [step EXCEPT ![t] = a],
         NEW d \in Impl \cup {None}, due' = [due EXCEPT ![t] = d],
         d # None => a = "finish",
         \A j \in Impl : In(TRUE, {locked_[j]}) + In(j, {d}) + In(t, Holders(j)') =
                           In(TRUE, {locked_'[j]}) + In(t, Holders(j)),
         \A s \in Strand : Posted(s)' + In(t, Dispatching(OpOf(s))') =
                             Posted(s) + In(t, Dispatching(OpOf(s)))
  PROVE  IoSafe'
<1>1. /\ due[t] = None /\ private_op_queue[t] = <<>> /\ t \in Caller
      /\ ThreadPlace(t) /\ PrivatePart(t) /\ ReactorTypeOK
      /\ None \notin ReactorOp /\ None \notin Impl /\ Impl \cap ReactorOp = {}
      /\ Descriptor \notin Impl /\ Descriptor \notin ReactorOp
      /\ Impl \subseteq Operation /\ ReactorOp \subseteq Operation
  BY Completing, IoTypes
<1>2. /\ op_queue_' = op_queue_ /\ pc' = pc /\ stopped_' = stopped_
      /\ outstanding_work_' = outstanding_work_
      /\ private_op_queue' = private_op_queue
      /\ private_outstanding_work' = private_outstanding_work
      /\ op_queues' = op_queues /\ completing' = completing /\ events' = events
  BY DEF schedulerVars, privateVars, reactorVars
<1>3. /\ step' \in [Thread -> {"enter", "body", "leave", "finish", "cleanup"}]
      /\ completing' \in [Thread -> Operation \cup {None}]
      /\ events' \in [Thread -> SUBSET ReactorOp]
      /\ due' \in [Caller -> Operation \cup {None}]
      /\ step'[t] = a /\ due'[t] = d
      /\ \A u \in Thread \ {t} : step'[u] = step[u]
      /\ \A c \in Caller \ {t} : due'[c] = due[c]
  <2>1. d \in Operation \cup {None}
    BY <1>1
  <2>. QED
    BY <1>1, <1>2, <2>1, IoTypes
<1>4. OthersStay(t)
  BY <1>2, <1>3 DEF OthersStay, Stays
<1>5. ThreadPlace(t)' /\ PrivatePart(t)'
  <2>1. ThreadPlace(t)'
    BY <1>1, <1>2, <1>3 DEF ThreadPlace
  <2>. QED
    BY <1>1, <1>2, <2>1 DEF PrivatePart
<1>6. ReactorTypeOK'
  BY <1>1 DEF ReactorTypeOK, reactorVars, kernelVars
<1>7. \A x : Own(t, x)' = In(x, {d})
  BY <1>1, <1>2, <1>3, OwnNext
<1>8. \A i \in Impl : In(TRUE, {locked_[i]}) + Own(t, i)' + In(t, Holders(i)') =
                        In(TRUE, {locked_'[i]}) + In(t, Holders(i))
  BY <1>7
<1>9. ASSUME NEW s \in Strand
      PROVE  Posted(s)' + (Own(t, OpOf(s))' + In(OpOf(s), op_queues')
                             + In(t, Dispatching(OpOf(s))')) =
               Posted(s) + (In(OpOf(s), op_queues) + In(t, Dispatching(OpOf(s))))
  <2>. DEFINE x == OpOf(s)
              n == In(x, op_queues)
              n1 == In(x, op_queues')
              e == In(t, Dispatching(x))
              e1 == In(t, Dispatching(x)')
              o1 == Own(t, x)'
              p == Posted(s)
              p1 == Posted(s)'
  <2>1. o1 = 0
    <3>1. x # d
      BY <1>1 DEF OpOf, ReactorOp
    <3>. QED
      BY <1>7, <3>1 DEF In
  <2>2. n1 = n /\ n \in Nat /\ e \in Nat /\ e1 \in Nat
    BY <1>2 DEF In
  <2>3. p1 + e1 = p + e /\ p \in Nat /\ p1 \in Nat
    BY IoTypes, PostedType, PostedNextType
  <2>. HIDE DEF n, n1, e, e1, o1, p, p1
  <2>4. p1 + (o1 + n1 + e1) = p + (n + e)
    BY <2>1, <2>2, <2>3
  <2>. QED
    BY <2>4 DEF n, n1, e, e1, o1, p, p1
<1>10. Weight(t)' = Weight(t)
  <2>1. Weight(t) = 2
    BY <1>1 DEF Weight
  <2>2. Weight(t)' = 2
    <3>1. d \notin ReactorOp /\ a # "cleanup"
      BY <1>1
    <3>. QED
      BY <1>1, <1>2, <1>3, <3>1 DEF Weight
  <2>. QED
    BY <2>1, <2>2
<1>11. (2 * In("read_op", op_queues') + 2 * In("write_op", op_queues') + Weight(t)')
           - outstanding_work_' =
         (2 * In("read_op", op_queues) + 2 * In("write_op", op_queues) + Weight(t))
           - outstanding_work_
  BY <1>2, <1>10
<1>12. (owner = "running" /\ stopped_' => stopped_) /\ impl_' = impl_ /\ owner' = owner
  BY <1>2
<1>. QED
  BY <1>2, <1>3, <1>4, <1>5, <1>6, <1>8, <1>9, <1>11, <1>12, CompletingNext

LEMMA ReactorOpSafe ==
  ASSUME IoSafe, SchedulerInv', NEW t \in Thread, pc[t] = "complete", Free(t),
         complete_reactor_op(t), UNCHANGED <<impl_, owner>>
  PROVE  IoSafe'
<1>. DEFINE op == completing[t]
            h  == HandlerOf(op)
            i  == impl_[StrandOf(h)]
<1>1. step[t] = "enter" /\ op \in ReactorOp
  BY DEF complete_reactor_op
<1>2. /\ due[t] = None /\ StrandInv /\ None \notin Impl /\ Impl \cap ReactorOp = {}
      /\ due \in [Caller -> Operation \cup {None}]
  BY <1>1, Completing, IoTypes
<1>3. /\ h \in Handler /\ StrandOf(h) \in Strand /\ i \in Impl
  BY <1>2 DEF HandlerOf, Handler, StrandOf, Strand, StrandInv
<1>4. /\ UNCHANGED <<schedulerVars, reactorVars, completing, events, impl_, owner>>
      /\ due' = [due EXCEPT ![t] = None] /\ None \in Impl \cup {None}
      /\ completing' = completing /\ impl_' = impl_
      /\ \/ acquire_dispatch(i) /\ step' = [step EXCEPT ![t] = "body"]
         \/ enqueue_waiting(i, h) /\ step' = [step EXCEPT ![t] = "finish"]
  BY <1>2 DEF complete_reactor_op, Enters
<1>5. /\ step[t] # "cleanup"
      /\ step \in [Thread -> {"enter", "body", "leave", "finish", "cleanup"}]
  BY <1>1, IoTypes
<1>6. \A j \in Impl : In(t, Holders(j)) = 0 /\ In(j, {None}) = 0
  BY <1>1, <1>2 DEF In, Holders, Holds
<1>7. \A x \in ReactorOp : In(t, Dispatching(x)) = In(x, {op})
  BY <1>1 DEF In, Dispatching
<1>8. CASE acquire_dispatch(i) /\ step' = [step EXCEPT ![t] = "body"]
  <2>1. /\ StrandInv' /\ ~locked_[i] /\ locked_' = [locked_ EXCEPT ![i] = TRUE]
        /\ \A s \in Strand : Posted(s) \in Nat /\ Posted(s)' = Posted(s)
    BY <1>2, <1>3, <1>4, <1>8, LocksStep
  <2>2. step'[t] = "body"
    BY <1>5, <1>8
  <2>3. \A j \in Impl : In(t, Holders(j)') = In(j, {i})
    BY <1>1, <1>2, <1>4, <2>2 DEF In, Holders, Holds
  <2>4. ASSUME NEW j \in Impl
        PROVE  In(TRUE, {locked_[j]}) + In(j, {None}) + In(t, Holders(j)') =
                 In(TRUE, {locked_'[j]}) + In(t, Holders(j))
    <3>1. locked_ \in [Impl -> BOOLEAN]
      BY <1>2 DEF StrandInv, StrandTypeOK
    <3>2. CASE j = i
      <4>1. locked_[j] = FALSE /\ locked_'[j] = TRUE
        BY <2>1, <3>1, <3>2
      <4>. DEFINE b == In(TRUE, {locked_[j]})
                  b1 == In(TRUE, {locked_'[j]})
      <4>2. b = 0
        BY <4>1 DEF In
      <4>3. b1 = 1
        BY <4>1 DEF In
      <4>4. In(t, Holders(j)') = 1
        BY <2>3, <3>2 DEF In
      <4>. HIDE DEF b, b1
      <4>5. b + In(j, {None}) + In(t, Holders(j)') = b1 + In(t, Holders(j))
        BY <1>6, <4>2, <4>3, <4>4
      <4>. QED
        BY <4>5 DEF b, b1
    <3>3. CASE j # i
      <4>1. locked_'[j] = locked_[j] /\ In(t, Holders(j)') = 0
        BY <2>1, <2>3, <3>1, <3>3 DEF In
      <4>. DEFINE b == In(TRUE, {locked_[j]})
                  b1 == In(TRUE, {locked_'[j]})
      <4>2. b1 = b /\ b \in Nat
        BY <4>1 DEF In
      <4>. HIDE DEF b, b1
      <4>3. b + In(j, {None}) + In(t, Holders(j)') = b1 + In(t, Holders(j))
        BY <1>6, <4>1, <4>2
      <4>. QED
        BY <4>3 DEF b, b1
    <3>. QED
      BY <3>2, <3>3
  <2>5. ASSUME NEW s \in Strand
        PROVE  Posted(s)' + In(t, Dispatching(OpOf(s))') =
                 Posted(s) + In(t, Dispatching(OpOf(s)))
    <3>1. In(t, Dispatching(OpOf(s))') = In(t, Dispatching(OpOf(s)))
      BY <1>1, <1>4, <2>2 DEF In, Dispatching
    <3>. QED
      BY <2>1, <3>1
  <2>. QED
    BY <1>1, <1>4, <1>5, <1>8, <2>1, <2>4, <2>5, DispatchNext
<1>9. CASE enqueue_waiting(i, h) /\ step' = [step EXCEPT ![t] = "finish"]
  <2>1. /\ StrandInv'
        /\ \A s \in Strand : /\ Posted(s) \in Nat /\ Posted(s)' \in Nat
                             /\ Posted(s)' = Posted(s) + In(s, {StrandOf(h)})
    BY <1>2, <1>3, <1>4, <1>9, PostsStep
  <2>2. step'[t] = "finish" /\ locked_' = locked_
    BY <1>5, <1>9 DEF enqueue_waiting
  <2>3. \A j \in Impl : In(t, Holders(j)') = 0
    BY <1>1, <1>2, <1>4, <2>2 DEF In, Holders, Holds
  <2>4. ASSUME NEW j \in Impl
        PROVE  In(TRUE, {locked_[j]}) + In(j, {None}) + In(t, Holders(j)') =
                 In(TRUE, {locked_'[j]}) + In(t, Holders(j))
    <3>. DEFINE b == In(TRUE, {locked_[j]})
                b1 == In(TRUE, {locked_'[j]})
    <3>1. b1 = b /\ b \in Nat
      BY <2>2 DEF In
    <3>. HIDE DEF b, b1
    <3>2. b + In(j, {None}) + In(t, Holders(j)') = b1 + In(t, Holders(j))
      BY <1>6, <2>3, <3>1
    <3>. QED
      BY <3>2 DEF b, b1
  <2>5. ASSUME NEW s \in Strand
        PROVE  Posted(s)' + In(t, Dispatching(OpOf(s))') =
                 Posted(s) + In(t, Dispatching(OpOf(s)))
    <3>. DEFINE e == In(t, Dispatching(OpOf(s)))
                e1 == In(t, Dispatching(OpOf(s))')
                p == Posted(s)
                p1 == Posted(s)'
                n == In(s, {StrandOf(h)})
    <3>1. e1 = 0
      BY <2>2 DEF In, Dispatching
    <3>2. e = n /\ n \in Nat
      <4>1. OpOf(s) \in ReactorOp
        BY DEF OpOf, ReactorOp
      <4>2. In(OpOf(s), {op}) = In(s, {StrandOf(h)})
        BY <1>1, ChainOf
      <4>3. n \in Nat
        BY DEF In
      <4>. QED
        BY <1>7, <4>1, <4>2, <4>3
    <3>3. p1 = p + n /\ p \in Nat /\ p1 \in Nat
      BY <2>1
    <3>. HIDE DEF e, e1, p, p1, n
    <3>4. p1 + e1 = p + e
      BY <3>1, <3>2, <3>3
    <3>. QED
      BY <3>4 DEF e, e1, p, p1
  <2>. QED
    BY <1>1, <1>4, <1>5, <1>9, <2>1, <2>4, <2>5, DispatchNext
<1>. QED
  BY <1>4, <1>8, <1>9

LEMMA DispatchedHandlerSafe ==
  ASSUME IoSafe, SchedulerInv', NEW t \in Thread, pc[t] = "complete", Free(t),
         dispatched_handler(t), UNCHANGED <<impl_, owner>>
  PROVE  IoSafe'
<1>. DEFINE op == completing[t]
            h  == HandlerOf(op)
            i  == impl_[StrandOf(h)]
<1>1. step[t] = "body"
  BY DEF dispatched_handler
<1>2. /\ due[t] = None /\ StrandInv /\ None \notin Impl /\ Impl \cap ReactorOp = {}
      /\ due \in [Caller -> Operation \cup {None}] /\ ThreadPlace(t)
      /\ owner # "destroyed" /\ t \in Caller
  BY <1>1, Completing, IoTypes
<1>3. op \in ReactorOp
  BY <1>1, <1>2 DEF ThreadPlace
<1>4. h \in Handler /\ StrandOf(h) \in Strand /\ i \in Impl
  BY <1>2 DEF HandlerOf, Handler, StrandOf, Strand, StrandInv
<1>5. PICK next \in Handler : PostsNext(h, next) /\ do_post(t, next)
  BY DEF dispatched_handler
<1>6. StrandOf(next) = StrandOf(h)
  BY <1>5 DEF PostsNext, StrandOf
<1>7. locked_[i] = TRUE
  <2>1. Holds(t, i)
    BY <1>1, <1>3 DEF Holds
  <2>. QED
    BY <1>2, <1>4, <2>1, HeldIsLocked
<1>8. enqueue_waiting(i, next) /\ due' = due
  <2>1. ~acquire_ready(i, next)
    BY <1>7 DEF acquire_ready
  <2>. QED
    BY <1>5, <1>6, <2>1 DEF do_post
<1>9. /\ UNCHANGED <<schedulerVars, reactorVars, completing, events, impl_, owner>>
      /\ due' = [due EXCEPT ![t] = None] /\ None \in Impl \cup {None}
      /\ completing' = completing /\ impl_' = impl_
      /\ step' = [step EXCEPT ![t] = "leave"] /\ step[t] # "cleanup"
      /\ step'[t] = "leave" /\ locked_' = locked_
  BY <1>1, <1>2, <1>8, IoTypes DEF dispatched_handler, Enters, enqueue_waiting
<1>10. /\ StrandInv'
       /\ \A s \in Strand : /\ Posted(s) \in Nat /\ Posted(s)' \in Nat
                            /\ Posted(s)' = Posted(s) + In(s, {StrandOf(h)})
  BY SMTT(30), <1>2, <1>4, <1>6, <1>8, <1>9, PostsStep
<1>11. \A j \in Impl : In(t, Holders(j)') = In(t, Holders(j)) /\ In(j, {None}) = 0
  BY <1>1, <1>2, <1>3, <1>9 DEF In, Holders, Holds
<1>12. ASSUME NEW j \in Impl
       PROVE  In(TRUE, {locked_[j]}) + In(j, {None}) + In(t, Holders(j)') =
                In(TRUE, {locked_'[j]}) + In(t, Holders(j))
  <2>. DEFINE b == In(TRUE, {locked_[j]})
              b1 == In(TRUE, {locked_'[j]})
              g == In(t, Holders(j))
              g1 == In(t, Holders(j)')
              n == In(j, {None})
  <2>1. b1 = b /\ b \in Nat /\ g1 = g /\ g \in Nat /\ n = 0
    BY <1>9, <1>11 DEF In
  <2>. HIDE DEF b, b1, g, g1, n
  <2>2. b + n + g1 = b1 + g
    BY <2>1
  <2>. QED
    BY <2>2 DEF b, b1, g, g1, n
<1>13. ASSUME NEW s \in Strand
       PROVE  Posted(s)' + In(t, Dispatching(OpOf(s))') =
                Posted(s) + In(t, Dispatching(OpOf(s)))
  <2>. DEFINE e == In(t, Dispatching(OpOf(s)))
              e1 == In(t, Dispatching(OpOf(s))')
              p == Posted(s)
              p1 == Posted(s)'
              n == In(s, {StrandOf(h)})
  <2>1. e1 = 0
    BY <1>9 DEF In, Dispatching
  <2>2. e = n /\ n \in Nat
    <3>1. e = In(OpOf(s), {op})
      BY <1>1 DEF In, Dispatching
    <3>2. In(OpOf(s), {op}) = In(s, {StrandOf(h)})
      BY <1>3, ChainOf
    <3>3. n \in Nat
      BY DEF In
    <3>. QED
      BY <3>1, <3>2, <3>3
  <2>3. p1 = p + n /\ p \in Nat /\ p1 \in Nat
    BY <1>10
  <2>. HIDE DEF e, e1, p, p1, n
  <2>4. p1 + e1 = p + e
    BY <2>1, <2>2, <2>3
  <2>. QED
    BY <2>4 DEF e, e1, p, p1
<1>. QED
  BY <1>3, <1>9, <1>10, <1>12, <1>13, DispatchNext

LEMMA DispatchExitSafe ==
  ASSUME IoSafe, SchedulerInv', NEW t \in Thread, pc[t] = "complete", Free(t),
         on_dispatch_exit(t), UNCHANGED <<impl_, owner>>
  PROVE  IoSafe'
<1>. DEFINE op == completing[t]
            h  == HandlerOf(op)
            i  == impl_[StrandOf(h)]
            d  == IF MoreHandlers(i) THEN i ELSE None
<1>1. step[t] = "leave"
  BY DEF on_dispatch_exit
<1>2. /\ due[t] = None /\ StrandInv /\ None \notin Impl /\ Impl \cap ReactorOp = {}
      /\ ThreadPlace(t) /\ owner # "destroyed"
  BY <1>1, Completing, IoTypes
<1>3. op \in ReactorOp
  BY <1>1, <1>2 DEF ThreadPlace
<1>4. i \in Impl /\ d \in Impl \cup {None}
  BY <1>2 DEF HandlerOf, StrandOf, Strand, StrandInv
<1>5. locked_[i] = TRUE /\ Holds(t, i)
  <2>1. Holds(t, i)
    BY <1>1, <1>3 DEF Holds
  <2>. QED
    BY <1>2, <1>4, <2>1, HeldIsLocked
<1>6. /\ UNCHANGED <<schedulerVars, reactorVars, completing, events, impl_, owner>>
      /\ due' = [due EXCEPT ![t] = d] /\ release(i) /\ completing' = completing
      /\ impl_' = impl_ /\ step' = [step EXCEPT ![t] = "finish"]
      /\ step[t] # "cleanup" /\ step'[t] = "finish"
  BY <1>1, IoTypes DEF on_dispatch_exit, Enters
<1>7. /\ StrandInv' /\ locked_' = [locked_ EXCEPT ![i] = MoreHandlers(i)]
      /\ \A s \in Strand : Posted(s) \in Nat /\ Posted(s)' = Posted(s)
  BY <1>2, <1>4, <1>6, ReleaseStep
<1>8. \A j \in Impl : In(t, Holders(j)') = 0 /\ In(t, Holders(j)) = In(j, {i})
  BY <1>1, <1>2, <1>3, <1>6 DEF In, Holders, Holds
<1>9. ASSUME NEW j \in Impl
      PROVE  In(TRUE, {locked_[j]}) + In(j, {d}) + In(t, Holders(j)') =
               In(TRUE, {locked_'[j]}) + In(t, Holders(j))
  <2>. DEFINE b == In(TRUE, {locked_[j]})
              b1 == In(TRUE, {locked_'[j]})
              g == In(t, Holders(j))
              g1 == In(t, Holders(j)')
              n == In(j, {d})
              more == MoreHandlers(i)
  <2>1. locked_ \in [Impl -> BOOLEAN] /\ more \in BOOLEAN
    BY <1>2 DEF StrandInv, StrandTypeOK, MoreHandlers
  <2>2. j # None
    BY <1>2
  <2>3. CASE j = i
    <3>1. g = 1 /\ g1 = 0
      BY <1>8, <2>3 DEF In
    <3>2. b = 1
      BY <1>5, <2>3 DEF In
    <3>3. locked_'[j] = more
      BY <1>7, <2>1, <2>3
    <3>. HIDE DEF more, i
    <3>4. b1 = IF more THEN 1 ELSE 0
      BY <2>1, <3>3 DEF In
    <3>5. n = IF more THEN 1 ELSE 0
      BY <2>2, <2>3 DEF In, more
    <3>. HIDE DEF b, b1, g, g1, n
    <3>6. b + n + g1 = b1 + g
      BY <3>1, <3>2, <3>4, <3>5
    <3>. QED
      BY <3>6 DEF b, b1, g, g1, n
  <2>4. CASE j # i
    <3>1. g = 0 /\ g1 = 0
      BY <1>8, <2>4 DEF In
    <3>2. locked_'[j] = locked_[j]
      BY <1>7, <2>1, <2>4
    <3>3. b1 = b /\ b \in Nat
      BY <3>2 DEF In
    <3>4. n = 0
      BY <2>2, <2>4 DEF In
    <3>. HIDE DEF b, b1, g, g1, n
    <3>5. b + n + g1 = b1 + g
      BY <3>1, <3>3, <3>4
    <3>. QED
      BY <3>5 DEF b, b1, g, g1, n
  <2>. QED
    BY <2>3, <2>4
<1>10. ASSUME NEW s \in Strand
       PROVE  Posted(s)' + In(t, Dispatching(OpOf(s))') =
                Posted(s) + In(t, Dispatching(OpOf(s)))
  <2>1. In(t, Dispatching(OpOf(s))') = 0 /\ In(t, Dispatching(OpOf(s))) = 0
    BY <1>1, <1>6 DEF In, Dispatching
  <2>. QED
    BY <1>7, <2>1
<1>. HIDE DEF d
<1>. QED
  BY <1>3, <1>4, <1>6, <1>7, <1>9, <1>10, DispatchNext

LEMMA WorkFinishesSafe ==
  ASSUME IoSafe, SchedulerInv', NEW t \in Thread, pc[t] = "complete", Free(t),
         handler_work_finishes(t), UNCHANGED <<impl_, owner>>
  PROVE  IoSafe'
<1>1. step[t] = "finish"
  BY DEF handler_work_finishes
<1>2. /\ due[t] = None /\ private_op_queue[t] = <<>> /\ t \in Caller
      /\ private_outstanding_work[t] = 0
      /\ ThreadPlace(t) /\ PrivatePart(t) /\ ReactorTypeOK /\ StrandInv
      /\ due[Owner] = None
      /\ None \notin ReactorOp /\ None \notin Impl /\ Impl \cap ReactorOp = {}
      /\ Descriptor \notin Impl /\ Descriptor \notin ReactorOp
  BY <1>1, Completing, IoTypes
<1>3. completing[t] \in ReactorOp
  BY <1>1, <1>2 DEF ThreadPlace
<1>4. /\ impl_' = impl_ /\ owner' = owner /\ due' = due
      /\ UNCHANGED <<reactorVars, strandVars>> /\ IsComplete(t)
      /\ op_queue_' = op_queue_ /\ private_op_queue' = private_op_queue
      /\ private_outstanding_work' = private_outstanding_work
      /\ outstanding_work_' = outstanding_work_ - 1
      /\ outstanding_work_ # 1 => stopped_' = stopped_
      /\ \A u \in Thread : Stays(u)
  <2>1. /\ outstanding_work_ = 1 => stop_all_threads(pc)
        /\ outstanding_work_ # 1 => pc' = pc /\ stopped_' = stopped_
    BY DEF handler_work_finishes, on_work_finished, work_finished
  <2>2. \A u \in Thread : Stays(u)
    BY <2>1 DEF stop_all_threads, Stays
  <2>. QED
    BY <2>1, <2>2 DEF handler_work_finishes, on_work_finished, work_finished, privateVars
<1>5. /\ step' \in [Thread -> {"enter", "body", "leave", "finish", "cleanup"}]
      /\ completing' \in [Thread -> Operation \cup {None}]
      /\ events' \in [Thread -> SUBSET ReactorOp]
      /\ due' \in [Caller -> Operation \cup {None}]
      /\ step'[t] = "cleanup" /\ completing'[t] = None
      /\ \A u \in Thread \ {t} : step'[u] = step[u] /\ completing'[u] = completing[u]
  BY <1>4, IoTypes DEF IsComplete, Enters
<1>6. OthersStay(t)
  BY <1>4, <1>5 DEF OthersStay
<1>7. pc'[t] = "complete"
  BY <1>4 DEF Stays
<1>8. ThreadPlace(t)' /\ PrivatePart(t)'
  <2>1. ThreadPlace(t)'
    BY <1>2, <1>4, <1>5 DEF ThreadPlace
  <2>. QED
    BY <1>2, <1>4, <2>1 DEF PrivatePart
<1>9. ReactorTypeOK' /\ StrandInv' /\ op_queues' = op_queues
  <2>1. ReactorTypeOK' /\ op_queues' = op_queues
    BY <1>2, <1>4 DEF ReactorTypeOK, reactorVars, kernelVars
  <2>2. StrandInv'
    BY <1>2, <1>4 DEF StrandInv, StrandTypeOK, HandlersPlaced, PlacedIn, UnlockedEmpty,
       strandVars
  <2>. QED
    BY <2>1, <2>2
<1>10. Weight(t) = 2 /\ Weight(t)' = 1
  <2>1. Weight(t) = 2
    BY <1>1, <1>2, <1>3 DEF Weight
  <2>2. Weight(t)' = 1
    BY <1>2, <1>4, <1>5, <1>7 DEF Weight
  <2>. QED
    BY <2>1, <2>2
<1>11. owner = "running" /\ stopped_' => stopped_
  <2>1. owner = "running" => outstanding_work_ >= 2
    BY <1>2, <1>10, WorkThere
  <2>2. owner = "running" => outstanding_work_ # 1
    BY <2>1, IoTypes
  <2>. QED
    BY <1>4, <2>2
<1>12. \A x \in Operation : Own(t, x)' = 0
  <2>1. \A x : Own(t, x)' = In(x, {due'[t]})
    BY <1>2, <1>4, OwnNext
  <2>. QED
    BY <1>2, <1>4, <2>1, IoContextAssumption DEF In
<1>13. ASSUME NEW j \in Impl
       PROVE  In(TRUE, {locked_[j]}) + Own(t, j)' + In(t, Holders(j)') =
                In(TRUE, {locked_'[j]}) + In(t, Holders(j))
  <2>. DEFINE b == In(TRUE, {locked_[j]})
              b1 == In(TRUE, {locked_'[j]})
              g == In(t, Holders(j))
              g1 == In(t, Holders(j)')
              o1 == Own(t, j)'
  <2>1. g = 0 /\ g1 = 0
    BY <1>1, <1>2, <1>5 DEF In, Holders, Holds
  <2>2. b1 = b /\ b \in Nat
    BY <1>4 DEF In, strandVars
  <2>3. o1 = 0
    BY <1>12, IoContextAssumption
  <2>. HIDE DEF b, b1, g, g1, o1
  <2>4. b + o1 + g1 = b1 + g
    BY <2>1, <2>2, <2>3
  <2>. QED
    BY <2>4 DEF b, b1, g, g1, o1
<1>14. ASSUME NEW s \in Strand
       PROVE  Posted(s)' + (Own(t, OpOf(s))' + In(OpOf(s), op_queues')
                              + In(t, Dispatching(OpOf(s))')) =
                Posted(s) + (In(OpOf(s), op_queues) + In(t, Dispatching(OpOf(s))))
  <2>. DEFINE x == OpOf(s)
              n == In(x, op_queues)
              n1 == In(x, op_queues')
              e == In(t, Dispatching(x))
              e1 == In(t, Dispatching(x)')
              o1 == Own(t, x)'
  <2>1. x \in Operation
    BY IoContextAssumption DEF OpOf, ReactorOp
  <2>2. e = 0 /\ e1 = 0
    BY <1>1, <1>5 DEF In, Dispatching
  <2>3. n1 = n /\ n \in Nat /\ o1 = 0
    BY <1>9, <1>12, <2>1 DEF In
  <2>. HIDE DEF n, n1, e, e1, o1
  <2>4. o1 + n1 + e1 = n + e
    BY <2>2, <2>3
  <2>5. Posted(s)' = Posted(s)
    BY <1>4 DEF Posted, strandVars
  <2>6. Posted(s)' + (o1 + n1 + e1) = Posted(s) + (n + e)
    BY <2>4, <2>5
  <2>. QED
    BY <2>6 DEF n, n1, e, e1, o1
<1>15. (2 * In("read_op", op_queues') + 2 * In("write_op", op_queues') + Weight(t)')
           - outstanding_work_' =
         (2 * In("read_op", op_queues) + 2 * In("write_op", op_queues) + Weight(t))
           - outstanding_work_
  <2>1. In("read_op", op_queues) \in Nat /\ In("write_op", op_queues) \in Nat
    BY DEF In
  <2>2. outstanding_work_ \in Int
    BY IoTypes
  <2>. QED
    BY <1>4, <1>9, <1>10, <2>1, <2>2
<1>. QED
  BY <1>1, <1>4, <1>5, <1>6, <1>8, <1>9, <1>11, <1>13, <1>14, <1>15, CompletingNext

LEMMA CompletesSafe ==
  ASSUME IoSafe, SchedulerInv', NEW t \in Thread, Completes(t)
  PROVE  IoSafe'
<1>1. pc[t] = "complete" /\ Free(t) /\ UNCHANGED <<impl_, owner>>
  BY DEF Completes
<1>2. CASE complete_strand(t)
  BY <1>1, <1>2, ReadyHandlerSafe, DoCompleteExitSafe DEF complete_strand
<1>3. CASE complete_descriptor(t)
  BY <1>1, <1>3, DescriptorSafe
<1>4. CASE complete_reactor_op(t)
  BY <1>1, <1>4, ReactorOpSafe
<1>5. CASE dispatched_handler(t)
  BY <1>1, <1>5, DispatchedHandlerSafe
<1>6. CASE on_dispatch_exit(t)
  BY <1>1, <1>6, DispatchExitSafe
<1>7. CASE handler_work_finishes(t)
  BY <1>1, <1>7, WorkFinishesSafe
<1>. QED
  BY <1>2, <1>3, <1>4, <1>5, <1>6, <1>7 DEF Completes

-----------------------------------------------------------------------------
(* The invariant, and what it says *)

LEMMA IoInitial == IoInit => IoSafe
<1>. SUFFICES ASSUME IoInit PROVE IoSafe
  OBVIOUS
<1>1. /\ SchedulerInit /\ ReactorInit /\ StrandInit
      /\ impl_ \in [Strand -> Impl] /\ owner = "post_read"
      /\ step = [t \in Thread |-> "cleanup"]
      /\ completing = [t \in Thread |-> None]
      /\ events = [t \in Thread |-> {}]
      /\ due = [c \in Caller |-> None]
  BY IoContextAssumption DEF IoInit
<1>2. SchedulerInv
  BY <1>1, InvInit DEF SchedulerInv
<1>3. /\ op_queue_ = <<Task>> /\ outstanding_work_ = 0 /\ stopped_ = FALSE
      /\ pc = [t \in Thread |-> "idle"]
      /\ private_op_queue = [t \in Thread |-> <<>>]
      /\ private_outstanding_work = [t \in Thread |-> 0]
      /\ op_queues = {}
      /\ locked_ = [i \in Impl |-> FALSE]
      /\ ready_queue_ = [i \in Impl |-> <<>>]
      /\ waiting_queue_ = [i \in Impl |-> <<>>]
  BY <1>1 DEF SchedulerInit, ReactorInit, StrandInit
<1>4. IoTypeOK
  <2>1. ReactorTypeOK
    <3>1. 0 \in 0 .. SocketBound
      BY ReactorAssumption
    <3>. QED
      BY <1>1, <3>1 DEF ReactorInit, ReactorTypeOK
  <2>2. StrandTypeOK
    BY <1>3 DEF StrandTypeOK
  <2>. QED
    BY <1>1, <1>2, <2>1, <2>2 DEF IoTypeOK, SchedulerInv
<1>5. PlaceInv
  <2>1. ThreadPlaces
    BY <1>1, <1>3, IoContextAssumption DEF ThreadPlaces, ThreadPlace, Caller
  <2>2. PrivateParts
    <3>1. ASSUME NEW t \in Thread PROVE PrivatePart(t)
      <4>1. private_op_queue[t] = <<>> /\ private_outstanding_work[t] = 0
        BY <1>3
      <4>. QED
        BY <4>1 DEF PrivatePart
    <3>. QED
      BY <3>1 DEF PrivateParts
  <2>3. OwnerPlace
    BY <1>1, <1>3, OwnerIsCaller DEF OwnerPlace, Closed
  <2>4. HandlersPlaced /\ UnlockedEmpty
    BY <1>3 DEF HandlersPlaced, PlacedIn, UnlockedEmpty
  <2>5. DescriptorFirst(op_queue_)
    <3>1. Task # Descriptor
      BY SchedulerAssumption, IoContextAssumption
    <3>2. \A n \in DOMAIN op_queue_ : op_queue_[n] = Task
      BY <1>3
    <3>. QED
      BY <3>1, <3>2 DEF DescriptorFirst
  <2>. QED
    BY <2>1, <2>2, <2>3, <2>4, <2>5 DEF PlaceInv
<1>6. ASSUME NEW op \in Operation PROVE Links(op) = 0
  <2>1. op # Task /\ op # None
    BY SchedulerAssumption, IoContextAssumption
  <2>2. Count(op_queue_, {op}) = 0
    BY <1>3, <2>1, CountFew DEF In
  <2>3. {p \in Thread \X (1 .. 2) : /\ p[2] \in DOMAIN private_op_queue[p[1]]
                                    /\ private_op_queue[p[1]][p[2]] = op} = {}
    BY <1>3
  <2>4. {c \in Caller : due[c] = op} = {} /\ op_queues \cap {op} = {}
    BY <1>1, <1>3, <2>1
  <2>5. Links(op) = 0 + 0 + 0 + 0
    BY <2>2, <2>3, <2>4, FS_EmptySet DEF Links
  <2>. QED
    BY <2>5
<1>7. StrandLocks
  <2>1. ASSUME NEW i \in Impl PROVE Links(i) + Held(i) = In(TRUE, {locked_[i]})
    <3>1. {t \in Thread : Holds(t, i)} = {}
      <4>1. None # i /\ None \notin ReactorOp
        BY IoContextAssumption
      <4>. QED
        BY <1>1, <4>1 DEF Holds
    <3>2. Held(i) = 0
      BY <3>1, FS_EmptySet DEF Held
    <3>3. Links(i) = 0
      BY <1>6, IoContextAssumption
    <3>4. In(TRUE, {locked_[i]}) = 0
      <4>1. locked_[i] = FALSE
        BY <1>3
      <4>. QED
        BY <4>1 DEF In
    <3>. DEFINE l == Links(i)
                h == Held(i)
                b == In(TRUE, {locked_[i]})
    <3>5. l = 0 /\ h = 0 /\ b = 0
      BY <3>2, <3>3, <3>4
    <3>. HIDE DEF l, h, b
    <3>6. l + h = b
      BY <3>5
    <3>. QED
      BY <3>6 DEF l, h, b
  <2>. QED
    BY <2>1 DEF StrandLocks
<1>8. ChainsAreWhole
  <2>1. ASSUME NEW s \in Strand PROVE InFlight(s) = 0
    <3>. DEFINE x == IF s = "m_read_strand" THEN "read_op" ELSE "write_op"
    <3>1. x \in Operation /\ x # None
      BY IoContextAssumption DEF ReactorOp
    <3>2. Posted(s) = 0
      <4>1. impl_[s] \in Impl
        BY <1>1
      <4>2. ready_queue_[impl_[s]] = <<>> /\ waiting_queue_[impl_[s]] = <<>>
        BY <1>3, <4>1
      <4>3. Posted(s) = 0 + 0
        BY <4>2, CountFew DEF Posted
      <4>. QED
        BY <4>3
    <3>3. {t \in Thread : completing[t] = x /\ step[t] \in {"enter", "body"}} = {}
      BY <1>1
    <3>4. Links(x) = 0
      BY <1>6, <3>1
    <3>. HIDE DEF x
    <3>5. InFlight(s) = 0 + 0 + 0
      BY <3>2, <3>3, <3>4, FS_EmptySet DEF InFlight, x
    <3>. QED
      BY <3>5
  <2>. QED
    BY <1>1, <2>1 DEF ChainsAreWhole
<1>9. WorkCounted
  <2>1. Count(op_queue_, Impl) = 0 /\ Count(op_queue_, ReactorOp) = 0
    <3>1. Task \notin Impl /\ Task \notin ReactorOp
      BY SchedulerAssumption, IoContextAssumption
    <3>. QED
      BY <1>3, <3>1, CountFew DEF In
  <2>2. ASSUME NEW k \in 1 .. 4 PROVE Cardinality(Heavy(k)) = 0
    <3>1. \A t \in Thread : Weight(t) = 0
      BY <1>3 DEF Weight
    <3>2. Heavy(k) = {}
      BY <3>1 DEF Heavy
    <3>. QED
      BY <3>2, FS_EmptySet
  <2>3. Carried = 0 + 0 + 0 + 0
    BY <2>2 DEF Carried
  <2>4. Cardinality(op_queues) = 0
    BY <1>3, FS_EmptySet
  <2>. QED
    BY <1>3, <2>1, <2>3, <2>4 DEF WorkCounted
<1>10. WorkLasts
  BY <1>3 DEF WorkLasts
<1>. QED
  BY <1>2, <1>4, <1>5, <1>7, <1>8, <1>9, <1>10 DEF IoSafe, IoInv, CountInv

LEMMA AtMostOne ==
  ASSUME NEW S, IsFiniteSet(S), \A x, y \in S : x = y
  PROVE  Cardinality(S) \in 0 .. 1
<1>1. CASE S = {}
  BY <1>1, FS_EmptySet
<1>2. CASE S # {}
  <2>1. PICK x : S = {x}
    BY <1>2
  <2>. QED
    BY <2>1, FS_Singleton
<1>. QED
  BY <1>1, <1>2

LEMMA DestroyedUnlinked ==
  ASSUME IoSafe, owner = "destroyed"
  PROVE  /\ \A op \in Operation : Links(op) = 0
         /\ \A t \in Thread, i \in Impl : ~Holds(t, i)
<1>1. /\ OwnerPlace /\ ThreadPlaces /\ PrivateParts
  BY DEF IoSafe, IoInv, PlaceInv
<1>2. /\ op_queues = {} /\ op_queue_ = <<>> /\ due[Owner] = None
      /\ \A t \in Thread : pc[t] = "done"
  BY <1>1 DEF OwnerPlace, Closed
<1>3. \A t \in Thread : /\ private_op_queue[t] = <<>> /\ due[t] = None
                        /\ step[t] = "cleanup" /\ completing[t] = None
  BY <1>1, <1>2 DEF ThreadPlaces, ThreadPlace, PrivateParts, PrivatePart
<1>4. ASSUME NEW op \in Operation PROVE Links(op) = 0
  <2>1. op # None
    BY IoContextAssumption
  <2>2. Count(op_queue_, {op}) = 0
    BY <1>2, CountFew
  <2>3. {p \in Thread \X (1 .. 2) : /\ p[2] \in DOMAIN private_op_queue[p[1]]
                                    /\ private_op_queue[p[1]][p[2]] = op} = {}
    BY <1>3
  <2>4. {c \in Caller : due[c] = op} = {} /\ op_queues \cap {op} = {}
    BY <1>2, <1>3, <2>1 DEF Caller
  <2>5. Links(op) = 0 + 0 + 0 + 0
    BY <2>2, <2>3, <2>4, FS_EmptySet DEF Links
  <2>. QED
    BY <2>5
<1>5. \A t \in Thread, i \in Impl : ~Holds(t, i)
  <2>1. None \notin Impl
    BY IoContextAssumption
  <2>. QED
    BY <1>3, <2>1 DEF Holds
<1>. QED
  BY <1>4, <1>5

\* The descriptor is in the queue of the scheduler, or in that of the thread
\* that has come back from epoll_wait, or in neither.
LEMMA DescriptorLinked ==
  ASSUME IoSafe
  PROVE  Links(Descriptor) <= 1
<1>. DEFINE D == {n \in DOMAIN op_queue_ : op_queue_[n] \in {Descriptor}}
            P == Pairs(private_op_queue, Descriptor)
<1>1. /\ OwnerPlace /\ ThreadPlaces /\ PrivateParts /\ DescriptorFirst(op_queue_)
      /\ op_queue_ \in Seq(Entry) /\ op_queues \subseteq ReactorOp
      /\ OneRunner /\ (Running = {} \/ NoTask(op_queue_))
  BY IoTypes DEF IoSafe, IoInv, PlaceInv, SchedulerInv, IInv, TaskPlace
<1>2. /\ Descriptor \notin Impl /\ Descriptor \notin ReactorOp /\ Descriptor # None
      /\ Descriptor \in Operation
  BY IoContextAssumption
<1>3. Count(op_queue_, {Descriptor}) \in 0 .. 1
  <2>1. IsFiniteSet(D)
    BY <1>1, CountType
  <2>2. \A m, n \in D : m = n
    BY <1>1 DEF DescriptorFirst
  <2>. HIDE DEF D
  <2>3. Cardinality(D) \in 0 .. 1
    BY <2>1, <2>2, AtMostOne
  <2>. QED
    BY <2>3 DEF Count, D
<1>4. \A p \in P : /\ p[1] \in Thread /\ p[2] = 1 /\ pc[p[1]] = "task_exit"
                   /\ p = <<p[1], p[2]>>
  <2>1. ASSUME NEW p \in P
        PROVE  /\ p[1] \in Thread /\ p[2] = 1 /\ pc[p[1]] = "task_exit"
               /\ p = <<p[1], p[2]>>
    <3>1. /\ p[1] \in Thread /\ p = <<p[1], p[2]>>
          /\ p[2] \in DOMAIN private_op_queue[p[1]]
          /\ private_op_queue[p[1]][p[2]] = Descriptor
      BY DEF Pairs
    <3>2. \/ private_op_queue[p[1]] = <<>>
          \/ pc[p[1]] = "task_exit" /\ private_op_queue[p[1]] = <<Descriptor>>
          \/ \E i \in Impl : private_op_queue[p[1]] = <<i>>
      BY <1>1, <3>1 DEF PrivateParts, PrivatePart
    <3>3. pc[p[1]] = "task_exit" /\ private_op_queue[p[1]] = <<Descriptor>>
      BY <1>2, <3>1, <3>2
    <3>. QED
      BY <3>1, <3>3
  <2>. QED
    BY <2>1
<1>5. Cardinality(P) \in 0 .. 1
  <2>1. IsFiniteSet(P)
    <3>1. \A t \in Thread : Short(private_op_queue[t])
      <4>1. ASSUME NEW x PROVE Short(<<x>>)
        BY DEF Short
      <4>2. \A t \in Thread : \/ private_op_queue[t] = <<>>
                              \/ \E x : private_op_queue[t] = <<x>>
        BY <1>1 DEF PrivateParts, PrivatePart
      <4>. QED
        BY <4>1, <4>2 DEF Short
    <3>. QED
      BY <3>1, PairsChange
  <2>2. ASSUME NEW p \in P, NEW q \in P PROVE p = q
    <3>1. p[1] \in Running /\ q[1] \in Running
      BY <1>4 DEF Running
    <3>2. p[1] = q[1]
      BY <1>1, <3>1 DEF OneRunner
    <3>. HIDE DEF P
    <3>3. p[2] = q[2] /\ p = <<p[1], p[2]>> /\ q = <<q[1], q[2]>>
      BY <1>4
    <3>. QED
      BY <3>2, <3>3
  <2>. HIDE DEF P
  <2>. QED
    BY <2>1, <2>2, AtMostOne
<1>6. Count(op_queue_, {Descriptor}) = 0 \/ P = {}
  <2>. SUFFICES ASSUME P # {} PROVE Count(op_queue_, {Descriptor}) = 0
    OBVIOUS
  <2>1. PICK p : p \in P
    OBVIOUS
  <2>2. Running # {}
    BY <1>4, <2>1 DEF Running
  <2>3. NoTask(op_queue_)
    BY <1>1, <2>2
  <2>4. NoDescriptor(op_queue_)
    BY <1>1, <2>3, FirstQueues
  <2>5. \A n \in DOMAIN op_queue_ : op_queue_[n] \notin {Descriptor}
    BY <2>4 DEF NoDescriptor
  <2>. QED
    BY <1>1, <2>5, CountZero
<1>7. {c \in Caller : due[c] = Descriptor} = {}
  <2>1. \A t \in Thread : due[t] # Descriptor
    BY <1>1 DEF ThreadPlaces, ThreadPlace
  <2>2. due[Owner] # Descriptor
    BY <1>1, <1>2 DEF OwnerPlace
  <2>. QED
    BY <2>1, <2>2 DEF Caller
<1>8. op_queues \cap {Descriptor} = {}
  BY <1>1, <1>2
<1>. DEFINE k == Count(op_queue_, {Descriptor})
            n == Cardinality(P)
<1>9. Links(Descriptor) = k + n + 0 + 0
  BY <1>7, <1>8, FS_EmptySet DEF Links, Pairs
<1>10. k \in 0 .. 1 /\ n \in 0 .. 1 /\ (k = 0 \/ n = 0)
  BY <1>3, <1>5, <1>6, FS_EmptySet
<1>. HIDE DEF k, n
<1>. QED
  BY <1>9, <1>10

LEMMA SafeLinked == IoSafe => LinkedOnce
<1>. SUFFICES ASSUME IoSafe, NEW op \in Operation PROVE Links(op) <= 1
  BY DEF LinkedOnce
<1>1. Links(op) \in Nat
  BY LinksType
<1>2. CASE owner = "destroyed"
  BY <1>2, DestroyedUnlinked
<1>3. CASE owner # "destroyed" /\ op \in Impl
  <2>1. Links(op) + Held(op) = In(TRUE, {locked_[op]})
    BY <1>3 DEF IoSafe, IoInv, CountInv, StrandLocks
  <2>2. Held(op) \in Nat
    <3>1. IsFiniteSet(Holders(op))
      BY FiniteThreads, FS_Subset DEF Holders
    <3>. QED
      BY <3>1, FS_CardinalityType DEF Held, Holders
  <2>3. In(TRUE, {locked_[op]}) \in {0, 1}
    BY DEF In
  <2>. DEFINE l == Links(op)
              h == Held(op)
              b == In(TRUE, {locked_[op]})
  <2>4. l + h = b /\ l \in Nat /\ h \in Nat /\ b \in {0, 1}
    BY <1>1, <2>1, <2>2, <2>3
  <2>. HIDE DEF l, h, b
  <2>5. l <= 1
    BY <2>4
  <2>. QED
    BY <2>5 DEF l
<1>4. CASE op \in ReactorOp
  <2>1. PICK s \in Strand : OpOf(s) = op
    BY <1>4 DEF ReactorOp, Strand, OpOf
  <2>2. InFlight(s) = Posted(s) + Links(op) + Dispatched(op)
    BY <2>1 DEF InFlight, OpOf, Dispatched, Dispatching
  <2>3. InFlight(s) \in {0, 1}
    BY DEF IoSafe, IoInv, CountInv, ChainsAreWhole
  <2>4. Posted(s) \in Nat
    BY IoTypes, PostedType
  <2>5. Dispatched(op) \in Nat
    <3>1. IsFiniteSet(Dispatching(op))
      BY FiniteThreads, FS_Subset DEF Dispatching
    <3>. QED
      BY <3>1, FS_CardinalityType DEF Dispatched
  <2>. QED
    BY <1>1, <2>2, <2>3, <2>4, <2>5
<1>5. CASE op = Descriptor
  BY <1>5, DescriptorLinked
<1>. QED
  BY <1>2, <1>3, <1>4, <1>5, IoContextAssumption

LEMMA SafeExclusive == IoSafe => StrandExclusive
<1>. SUFFICES ASSUME IoSafe, NEW i \in Impl
              PROVE  /\ \A t, u \in Thread : Holds(t, i) /\ Holds(u, i) => t = u
                     /\ owner # "destroyed" =>
                          locked_[i] = ((\E t \in Thread : Holds(t, i)) \/ Links(i) = 1)
  BY DEF StrandExclusive
<1>1. ASSUME NEW t \in Thread, NEW u \in Thread, Holds(t, i), Holds(u, i)
      PROVE  t = u
  <2>1. owner # "destroyed"
    BY <1>1, DestroyedUnlinked
  <2>. QED
    BY <1>1, <2>1, HeldIsLocked
<1>2. ASSUME owner # "destroyed"
      PROVE  locked_[i] = ((\E t \in Thread : Holds(t, i)) \/ Links(i) = 1)
  <2>1. locked_[i] = TRUE \/ locked_[i] = FALSE
    BY IoTypes DEF StrandInv, StrandTypeOK
  <2>2. CASE \E t \in Thread : Holds(t, i)
    BY <1>2, <2>2, HeldIsLocked
  <2>3. CASE \A t \in Thread : ~Holds(t, i)
    <3>. DEFINE l == Links(i)
                h == Held(i)
                b == In(TRUE, {locked_[i]})
    <3>1. l + h = b /\ l \in Nat
      BY <1>2, LinksType DEF IoSafe, IoInv, CountInv, StrandLocks
    <3>2. Held(i) = 0
      <4>1. {t \in Thread : Holds(t, i)} = {}
        BY <2>3
      <4>. QED
        BY <4>1, FS_EmptySet DEF Held
    <3>3. CASE locked_[i] = TRUE
      <4>1. In(TRUE, {locked_[i]}) = 1
        BY <3>3 DEF In
      <4>2. h = 0 /\ b = 1
        BY <3>2, <4>1
      <4>. HIDE DEF l, h, b
      <4>3. l = 1
        BY <3>1, <4>2
      <4>. QED
        BY <3>3, <4>3 DEF l
    <3>4. CASE locked_[i] = FALSE
      <4>1. In(TRUE, {locked_[i]}) = 0
        BY <3>4 DEF In
      <4>2. h = 0 /\ b = 0
        BY <3>2, <4>1
      <4>. HIDE DEF l, h, b
      <4>3. l # 1
        BY <3>1, <4>2
      <4>. QED
        BY <2>3, <3>4, <4>3 DEF l
    <3>. QED
      BY <2>1, <3>3, <3>4
  <2>. QED
    BY <2>2, <2>3
<1>. QED
  BY <1>1, <1>2

\* An operation that was tried in vain is queued in the descriptor.
LEMMA StartOpQueuesSafe ==
  ASSUME IoSafe, SchedulerInv', NEW t \in Thread, start_op_queues(t)
  PROVE  IoSafe'
<1>. DEFINE x == due[t]
<1>1. /\ step[t] = "enter" /\ completing[t] \in Impl /\ x \in tried
      /\ tried' = {} /\ op_queues' = op_queues \cup {x}
      /\ registered_out' = (registered_out \/ x = "write_op")
      /\ readied' = \/ readied
                    \/ registered_out' # registered_out /\ Events(TRUE) # {}
      /\ datagrams' = datagrams /\ writable' = writable
      /\ task_result_' = task_result_
      /\ due' = [due EXCEPT ![t] = None]
      /\ step' = step /\ completing' = completing /\ events' = events
      /\ locked_' = locked_ /\ ready_queue_' = ready_queue_
      /\ waiting_queue_' = waiting_queue_ /\ impl_' = impl_ /\ owner' = owner
      /\ pc' = pc /\ stopped_' = stopped_ /\ private_op_queue' = private_op_queue
      /\ private_outstanding_work' = private_outstanding_work
      /\ op_queue_' = op_queue_ /\ outstanding_work_' = outstanding_work_ + 1
  BY DEF start_op_queues, start_op_waits, work_started, strandVars, handlerVars,
     privateVars
<1>2. /\ ThreadPlace(t) /\ PrivatePart(t) /\ ReactorTypeOK /\ StrandInv
      /\ DescriptorFirst(op_queue_) /\ t \in Caller
  BY IoTypes DEF IoSafe, IoInv, PlaceInv, ThreadPlaces, PrivateParts, IoTypeOK, Caller
<1>3. /\ x \in ReactorOp /\ pc[t] = "complete" /\ x # None
      /\ None \notin ReactorOp /\ None \notin Impl /\ Impl \cap ReactorOp = {}
      /\ Descriptor \notin Impl /\ Descriptor \notin ReactorOp
      /\ ReactorOp \subseteq Operation /\ Impl \subseteq Operation
  BY <1>1, <1>2, IoContextAssumption DEF ThreadPlace, ReactorTypeOK
<1>4. due' \in [Caller -> Operation \cup {None}] /\ due'[t] = None
      /\ \A d \in Caller \ {t} : due'[d] = due[d]
  BY <1>1, <1>2, IoTypes
<1>5. x \notin op_queues
  <2>. DEFINE k == Count(op_queue_, {x}) + Cardinality(Pairs(private_op_queue, x))
              d == Cardinality(Dues(x))
              r == Cardinality(op_queues \cap {x})
  <2>1. k + d + r <= 1 /\ k \in Nat /\ d \in Nat /\ r \in Nat
    <3>1. LinkedOnce /\ x \in Operation
      BY <1>3, SafeLinked
    <3>2. Links(x) = k + d + r
      BY DEF Links, Pairs, Dues
    <3>. QED
      BY <3>1, <3>2, LinkParts DEF LinkedOnce
  <2>2. d # 0
    <3>1. t \in Dues(x) /\ Dues(x) \in SUBSET Caller
      BY <1>2 DEF Dues
    <3>. QED
      BY <3>1, FiniteThreads, FS_Subset, FS_EmptySet
  <2>3. x \in op_queues => r = 1
    <3>1. x \in op_queues => op_queues \cap {x} = {x}
      OBVIOUS
    <3>. QED
      BY <3>1, FS_Singleton
  <2>. HIDE DEF k, d, r
  <2>. QED
    BY <2>1, <2>2, <2>3
<1>6. ReactorTypeOK'
  <2>1. readied' \in BOOLEAN /\ registered_out' \in BOOLEAN
    BY <1>1, <1>2 DEF ReactorTypeOK
  <2>. QED
    BY <1>1, <1>2, <1>3, <2>1 DEF ReactorTypeOK
<1>7. StrandInv'
  BY <1>1, <1>2 DEF StrandInv, StrandTypeOK, HandlersPlaced, PlacedIn, UnlockedEmpty
<1>8. OthersStay(t)
  BY <1>1, <1>4 DEF OthersStay, Stays
<1>9. ThreadPlace(t)' /\ PrivatePart(t)'
  <2>1. ThreadPlace(t)'
    BY <1>1, <1>2, <1>3, <1>4, IoContextAssumption DEF ThreadPlace
  <2>. QED
    BY <1>1, <1>2, <2>1 DEF PrivatePart
<1>10. \A S : Count(op_queue_', S) = Count(op_queue_, S) /\ Count(op_queue_, S) \in Nat
  BY <1>1, IoTypes, CountType
<1>. HIDE DEF x
<1>11. ASSUME NEW y \in Operation
       PROVE  /\ Own(t, y) = Own(t, y)' + In(y, {x})
              /\ Own(t, y)' \in Nat /\ In(y, {x}) \in Nat
  <2>. DEFINE a == Alone(private_op_queue, t, y)
              e == In(y, {x})
              o == Own(t, y)
              o1 == Own(t, y)'
  <2>1. y # None
    BY IoContextAssumption
  <2>2. o = a + e
    BY DEF Own, x
  <2>3. o1 = a + 0
    <3>1. In(y, {due'[t]}) = 0 /\ Alone(private_op_queue', t, y) = a
      BY <1>1, <1>4, <2>1 DEF In
    <3>. QED
      BY <3>1 DEF Own
  <2>4. a \in Nat /\ e \in Nat
    BY DEF Alone, In
  <2>. HIDE DEF a, e, o, o1
  <2>5. o = o1 + e /\ o1 \in Nat /\ e \in Nat
    BY <2>2, <2>3, <2>4
  <2>. QED
    BY <2>5 DEF e, o, o1
<1>12. ASSUME NEW i \in Impl PROVE LockParts(t, i)' = LockParts(t, i)
  <2>1. i \in Operation /\ In(i, {x}) = 0
    BY <1>3 DEF In
  <2>2. Holders(i)' = Holders(i) /\ locked_'[i] = locked_[i]
    BY <1>1 DEF Holders, Holds
  <2>3. Own(t, i)' = Own(t, i)
    BY <1>11, <2>1
  <2>. QED
    BY <1>10, <2>2, <2>3 DEF LockParts
<1>13. ASSUME NEW s \in Strand
       PROVE  Posted(s)' + ChainParts(t, OpOf(s))' = Posted(s) + ChainParts(t, OpOf(s))
  <2>. DEFINE y  == OpOf(s)
              k  == Count(op_queue_, {y})
              o  == Own(t, y)
              o1 == Own(t, y)'
              e  == In(y, {x})
              n  == In(y, op_queues)
              n1 == In(y, op_queues')
              d  == In(t, Dispatching(y))
  <2>1. y \in Operation
    BY <1>3 DEF OpOf, ReactorOp
  <2>2. Dispatching(y)' = Dispatching(y) /\ Posted(s)' = Posted(s)
    BY <1>1 DEF Dispatching, Posted
  <2>3. o = o1 + e /\ o1 \in Nat /\ e \in Nat
    BY <1>11, <2>1
  <2>4. n1 = n + e /\ n \in Nat /\ d \in Nat /\ k \in Nat
    <3>. HIDE DEF y
    <3>. QED
      BY <1>1, <1>5, <1>10 DEF In, x
  <2>5. ChainParts(t, y) = k + o + n + d /\ ChainParts(t, y)' = k + o1 + n1 + d
    BY <1>10, <2>2 DEF ChainParts
  <2>. HIDE DEF k, o, o1, e, n, n1, d, y
  <2>6. ChainParts(t, y)' = ChainParts(t, y)
    BY <2>3, <2>4, <2>5
  <2>. QED
    BY <2>2, <2>6 DEF y
<1>14. WorkParts(t)' = WorkParts(t)
  <2>. DEFINE i  == Count(op_queue_, Impl)
              r  == Count(op_queue_, ReactorOp)
              n  == In("read_op", op_queues)
              m  == In("write_op", op_queues)
              n1 == In("read_op", op_queues')
              m1 == In("write_op", op_queues')
              l  == Load(t)
              l1 == Load(t)'
              w  == outstanding_work_
              w1 == outstanding_work_'
  <2>1. /\ WorkParts(t) = i + 2 * r + 2 * n + 2 * m + l - w
        /\ WorkParts(t)' = i + 2 * r + 2 * n1 + 2 * m1 + l1 - w1
    BY <1>10 DEF WorkParts
  <2>2. l = 2 /\ l1 = 1
    BY <1>1, <1>3, <1>4 DEF Load, Weight, x
  <2>3. n1 + m1 = n + m + 1 /\ n \in Nat /\ m \in Nat /\ n1 \in Nat /\ m1 \in Nat
    BY <1>1, <1>3, <1>5 DEF In, ReactorOp, x
  <2>4. w1 = w + 1 /\ w \in Int /\ i \in Nat /\ r \in Nat
    BY <1>1, <1>10, IoTypes
  <2>. HIDE DEF i, r, n, m, n1, m1, l, l1, w, w1
  <2>. QED
    BY <2>1, <2>2, <2>3, <2>4
<1>15. /\ pc[t] \notin {"idle", "done"} /\ DescriptorFirst(op_queue_')
       /\ owner = "running" /\ stopped_' => stopped_
       /\ step' \in [Thread -> {"enter", "body", "leave", "finish", "cleanup"}]
       /\ completing' \in [Thread -> Operation \cup {None}]
       /\ events' \in [Thread -> SUBSET ReactorOp]
  BY <1>1, <1>2, <1>3, IoTypes
<1>. QED
  BY <1>1, <1>4, <1>6, <1>7, <1>8, <1>9, <1>12, <1>13, <1>14, <1>15, ThreadSafeNext

LEMMA IoStep == IoSafe /\ [IoNext]_ioVars => IoSafe'
<1>. SUFFICES ASSUME IoSafe, [IoNext]_ioVars PROVE IoSafe'
  OBVIOUS
<1>1. SchedulerInv'
  <2>1. [SchedulerNext]_schedulerVars
    BY UsesStep
  <2>2. SchedulerTypeOK /\ IInv
    BY DEF IoSafe, SchedulerInv
  <2>. QED
    BY <2>1, <2>2, InvStep DEF SchedulerInv
<1>2. CASE \E c \in Caller : Signals(c) \/ post_due(c)
  BY <1>1, <1>2, WakesStep, PostsDueSafe
<1>3. ASSUME NEW t \in Thread, ThreadStep(t) PROVE IoSafe'
  <2>1. CASE /\ thread_starts(t) \/ thread_runs(t) \/ epoll_reactor_run(t)
             /\ UNCHANGED <<strandVars, impl_, owner, due>>
    <3>1. UNCHANGED <<strandVars, impl_, owner, due>>
      BY <2>1
    <3>2. CASE thread_starts(t)
      BY <1>1, <3>1, <3>2, StartsStep
    <3>3. CASE thread_runs(t)
      BY <1>1, <3>1, <3>3, RunsSafe
    <3>4. CASE epoll_reactor_run(t)
      BY <1>1, <3>1, <3>4, PollsSafe
    <3>. QED
      BY <2>1, <3>2, <3>3, <3>4
  <2>2. CASE Completes(t)
    BY <1>1, <2>2, CompletesSafe
  <2>3. CASE start_op_queues(t)
    BY <1>1, <2>3, StartOpQueuesSafe
  <2>. QED
    BY <1>3, <2>1, <2>2, <2>3 DEF ThreadStep
<1>4. CASE WakesSpuriously
  BY <1>1, <1>4, WakesStep
<1>5. CASE OwnerStep
  <2>1. CASE owner_posts("post_read", "do_receive", "post_write")
    BY <1>1, <2>1, OwnerPostsSafe
  <2>2. CASE owner_posts("post_write", "do_send", "running")
    BY <1>1, <2>2, OwnerPostsSafe
  <2>3. CASE owner_joins
    BY <1>1, <2>3, OwnerWaitsStep
  <2>4. CASE owner_closes
    BY <1>1, <2>4, OwnerClosesSafe
  <2>5. CASE owner_shuts_down
    BY <1>1, <2>5, OwnerShutsDownSafe
  <2>. QED
    BY <1>5, <2>1, <2>2, <2>3, <2>4, <2>5 DEF OwnerStep
<1>6. CASE owner_stops
  BY <1>1, <1>6, OwnerWaitsStep
<1>7. CASE Arrives \/ RoomToSend \/ IoTerminating \/ UNCHANGED ioVars
  BY <1>1, <1>7, StillStep DEF IoTerminating
<1>. QED
  BY <1>2, <1>3, <1>4, <1>5, <1>6, <1>7 DEF IoNext

-----------------------------------------------------------------------------
(* No edge is lost *)

\* The descriptor is on its way from epoll_wait to do_complete.
Returned == \/ Count(op_queue_, {Descriptor}) # 0
            \/ \E t \in Thread : private_op_queue[t] = <<Descriptor>>

\* A thread has found an event for op, or epoll would report one.
Carries(op) == \/ op \in task_result_ /\ Returned
               \/ \E t \in Thread : completing[t] = Descriptor /\ op \in events[t]
Found(op) == op \in ReadyEvents \/ Carries(op)

\* What waits or is about to could be performed only if its event is found, or
\* if the registration that makes epoll look is still to come.
EdgeInv ==
  /\ "write_op" \in op_queues => registered_out
  /\ owner \in {"shutdown", "destroyed"} => tried = {}
  /\ \A op \in op_queues \cup tried :
       Performs(op) => Found(op) \/ (op = "write_op" /\ ~registered_out)

\* epoll's list does not change, and no event that is still needed is dropped.
LEMMA EdgeKept ==
  ASSUME EdgeInv, readied' = readied, registered_out' = registered_out,
         "write_op" \in op_queues' => "write_op" \in op_queues,
         owner' \in {"shutdown", "destroyed"} => tried' = {},
         \A op \in op_queues' \cup tried' : Performs(op)' =>
           /\ op \in op_queues \cup tried /\ Performs(op)
           /\ Carries(op) => Carries(op)'
  PROVE  EdgeInv'
<1>1. ASSUME NEW op \in op_queues' \cup tried', Performs(op)'
      PROVE  Found(op)' \/ (op = "write_op" /\ ~registered_out')
  <2>1. Found(op) \/ (op = "write_op" /\ ~registered_out)
    BY <1>1 DEF EdgeInv
  <2>2. CASE op \in ReadyEvents
    <3>1. readied' /\ op \in Events(registered_out) /\ op \in Events(TRUE)'
      BY <1>1, <2>2 DEF ReadyEvents, Performs
    <3>2. op \in Events(registered_out)'
      BY <3>1 DEF Events
    <3>. QED
      BY <3>1, <3>2 DEF Found, ReadyEvents
  <2>3. CASE Carries(op)
    BY <1>1, <2>3 DEF Found
  <2>. QED
    BY <2>1, <2>2, <2>3 DEF Found
<1>. QED
  BY <1>1 DEF EdgeInv

\* What is found stays with the descriptor and the threads that have it.
LEMMA CarriesKept ==
  ASSUME task_result_' = task_result_, Returned => Returned',
         \A t \in Thread : completing[t] = Descriptor =>
           completing'[t] = Descriptor /\ events'[t] = events[t]
  PROVE  \A op : Carries(op) => Carries(op)'
BY DEF Carries

LEMMA QuietEdge ==
  ASSUME EdgeInv, UNCHANGED reactorVars, Returned => Returned',
         owner' \in {"shutdown", "destroyed"} => owner \in {"shutdown", "destroyed"},
         \A t \in Thread : completing[t] = Descriptor =>
           completing'[t] = Descriptor /\ events'[t] = events[t]
  PROVE  EdgeInv'
<1>1. /\ readied' = readied /\ datagrams' = datagrams /\ writable' = writable
      /\ registered_out' = registered_out /\ op_queues' = op_queues
      /\ tried' = tried /\ task_result_' = task_result_
  BY DEF reactorVars, kernelVars
<1>2. \A op : Performs(op)' = Performs(op)
  BY <1>1 DEF Performs, Events
<1>3. \A op : Carries(op) => Carries(op)'
  BY <1>1, CarriesKept
<1>4. owner' \in {"shutdown", "destroyed"} => tried' = {}
  BY <1>1 DEF EdgeInv
<1>. QED
  BY <1>1, <1>2, <1>3, <1>4, EdgeKept

LEMMA ReturnedKept ==
  ASSUME op_queue_' = op_queue_, private_op_queue' = private_op_queue
  PROVE  Returned => Returned'
BY DEF Returned

\* What operations do to the socket makes none possible.
LEMMA PerformedLess ==
  ASSUME ReactorTypeOK, NEW ops, \A op \in ops : Performs(op), performed(ops)
  PROVE  \A op : Performs(op)' => Performs(op)
<1>1. datagrams \in Nat /\ writable \in BOOLEAN
  BY ReactorAssumption DEF ReactorTypeOK
<1>2. datagrams' > 0 => datagrams > 0
  BY <1>1 DEF performed, Performs, Events
<1>3. writable' => writable
  BY <1>1 DEF performed
<1>. QED
  BY <1>2, <1>3 DEF Performs, Events

LEMMA PollsEdge ==
  ASSUME IoSafe, EdgeInv, NEW t \in Thread, epoll_reactor_run(t), owner' = owner
  PROVE  EdgeInv'
<1>. DEFINE ops == IF ReadyEvents # {} THEN <<Descriptor>> ELSE <<>>
<1>1. /\ pc[t] \in {"poll", "wait"}
      /\ private_op_queue' = [private_op_queue EXCEPT ![t] = ops]
      /\ task_result_' = (IF ReadyEvents # {} THEN ReadyEvents ELSE task_result_)
      /\ datagrams' = datagrams /\ writable' = writable
      /\ registered_out' = registered_out /\ op_queues' = op_queues
      /\ tried' = tried /\ completing' = completing /\ events' = events
  BY DEF epoll_reactor_run, task_run, epoll_wait, handlerVars
<1>2. ~Returned
  <2>1. /\ PrivateParts /\ DescriptorFirst(op_queue_) /\ op_queue_ \in Seq(Entry)
        /\ OneRunner /\ (Running = {} \/ NoTask(op_queue_))
    BY IoTypes DEF IoSafe, IoInv, PlaceInv, SchedulerInv, IInv, TaskPlace
  <2>2. t \in Running
    BY <1>1 DEF Running
  <2>3. NoDescriptor(op_queue_)
    BY <2>1, <2>2, FirstQueues
  <2>4. Count(op_queue_, {Descriptor}) = 0
    BY <2>1, <2>3, CountZero DEF NoDescriptor
  <2>5. ASSUME NEW u \in Thread, private_op_queue[u] = <<Descriptor>> PROVE FALSE
    <3>1. <<Descriptor>> # <<>> /\ \A i \in Impl : <<Descriptor>> # <<i>>
      BY IoContextAssumption
    <3>2. pc[u] = "task_exit"
      BY <2>1, <2>5, <3>1 DEF PrivateParts, PrivatePart
    <3>3. u = t
      BY <2>1, <2>2, <3>2 DEF OneRunner, Running
    <3>. QED
      BY <1>1, <3>2, <3>3
  <2>. QED
    BY <2>4, <2>5 DEF Returned
<1>3. ASSUME NEW op \in op_queues' \cup tried', Performs(op)'
      PROVE  Found(op)' \/ (op = "write_op" /\ ~registered_out')
  <2>1. op \in op_queues \cup tried /\ Performs(op)
    BY <1>1, <1>3 DEF Performs, Events
  <2>2. Found(op) \/ (op = "write_op" /\ ~registered_out)
    BY <2>1 DEF EdgeInv
  <2>3. CASE op \in ReadyEvents
    <3>1. private_op_queue'[t] = <<Descriptor>> /\ op \in task_result_'
      BY <1>1, <2>3, IoTypes
    <3>. QED
      BY <3>1 DEF Found, Carries, Returned
  <2>4. CASE Carries(op)
    BY <1>1, <1>2, <2>4 DEF Found, Carries
  <2>. QED
    BY <1>1, <2>2, <2>3, <2>4 DEF Found
<1>. QED
  BY <1>1, <1>3 DEF EdgeInv

LEMMA RunsEdge ==
  ASSUME IoSafe, EdgeInv, NEW t \in Thread, thread_runs(t), owner' = owner
  PROVE  EdgeInv'
<1>. DEFINE op == Head(Queue(t))
            on == pc'[t] = "complete"
            taken == on /\ op = Descriptor
<1>1. /\ PrivateParts /\ ThreadPlaces /\ DescriptorFirst(op_queue_) /\ SchedulerInv
  BY DEF IoSafe, IoInv, PlaceInv
<1>2. /\ step[t] = "cleanup" /\ completing[t] = None
      /\ \/ do_run_one(t)
         \/ wait_returns(t)
         \/ task_cleanup(t)
         \/ work_cleanup(t)
  BY <1>1 DEF thread_runs, ThreadPlaces, ThreadPlace
<1>3. Turned(t) /\ Settled(t)
  BY <1>1, <1>2, RunsStep
<1>4. /\ ~on => completing' = [completing EXCEPT ![t] = None]
      /\ on => /\ completing' = [completing EXCEPT ![t] = op]
               /\ events' = [events EXCEPT ![t] =
                               IF op = Descriptor THEN task_result_ ELSE {}]
      /\ ~on => events' = [events EXCEPT ![t] = {}]
      /\ task_result_' = IF completing'[t] = Descriptor THEN {} ELSE task_result_
      /\ readied' = readied /\ datagrams' = datagrams /\ writable' = writable
      /\ registered_out' = registered_out /\ op_queues' = op_queues
      /\ tried' = tried
  BY DEF thread_runs, Enters, IsComplete, kernelVars
<1>. HIDE DEF op
<1>5. None # Descriptor
  BY IoContextAssumption
<1>6. /\ completing'[t] = Descriptor <=> taken
      /\ taken => events'[t] = task_result_
      /\ \A u \in Thread \ {t} : completing'[u] = completing[u] /\ events'[u] = events[u]
  BY <1>4, <1>5, IoTypes
<1>7. ASSUME NEW x, Carries(x) PROVE Carries(x)'
  <2>1. CASE \E u \in Thread : completing[u] = Descriptor /\ x \in events[u]
    BY <1>2, <1>5, <1>6, <2>1 DEF Carries
  <2>2. CASE x \in task_result_ /\ taken
    BY <1>6, <2>2 DEF Carries
  <2>3. CASE x \in task_result_ /\ Returned /\ ~taken
    <3>1. x \in task_result_'
      BY <1>4, <1>6, <2>3
    <3>2. CASE \E u \in Thread \ {t} : private_op_queue[u] = <<Descriptor>>
      <4>1. \A u \in Thread \ {t} : private_op_queue'[u] = private_op_queue[u]
        BY <1>3, IoTypes DEF Settled
      <4>. QED
        BY <3>1, <3>2, <4>1 DEF Carries, Returned
    <3>3. CASE \/ Count(op_queue_, {Descriptor}) # 0
               \/ private_op_queue[t] = <<Descriptor>>
      <4>. DEFINE k == Count(op_queue_, {Descriptor})
                  q == Count(private_op_queue[t], {Descriptor})
                  k1 == Count(op_queue_', {Descriptor})
      <4>1. k \in Nat /\ q \in Nat
        BY IoTypes, CountType
      <4>2. Task \notin {Descriptor}
        BY SchedulerAssumption, IoContextAssumption
      <4>3. Taken(t, {Descriptor}) = 0
        BY <2>3 DEF Taken, In, op
      <4>4. k1 = k + q - 0
        BY <1>3, <4>2, <4>3 DEF Turned
      <4>5. k # 0 \/ q # 0
        <5>1. CASE private_op_queue[t] = <<Descriptor>>
          <6>1. q = 1
            BY <5>1, CountFew DEF In
          <6>. QED
            BY <6>1
        <5>. QED
          BY <3>3, <5>1
      <4>. HIDE DEF k, q, k1
      <4>6. k1 # 0
        BY <4>1, <4>4, <4>5
      <4>. QED
        BY <3>1, <4>6 DEF Carries, Returned, k1
    <3>. QED
      BY <2>3, <3>2, <3>3 DEF Returned
  <2>. QED
    BY <1>7, <2>1, <2>2, <2>3 DEF Carries
<1>8. \A x : Performs(x)' = Performs(x)
  BY <1>4 DEF Performs, Events
<1>9. owner' \in {"shutdown", "destroyed"} => tried' = {}
  BY <1>4 DEF EdgeInv
<1>. QED
  BY <1>4, <1>7, <1>8, <1>9, EdgeKept

LEMMA QueuesEdge ==
  ASSUME IoSafe, EdgeInv, NEW t \in Thread, start_op_queues(t)
  PROVE  EdgeInv'
<1>. DEFINE x == due[t]
<1>1. /\ x \in tried /\ tried' = {} /\ op_queues' = op_queues \cup {x}
      /\ registered_out' = (registered_out \/ x = "write_op")
      /\ readied' = \/ readied
                    \/ registered_out' # registered_out /\ Events(TRUE) # {}
      /\ datagrams' = datagrams /\ writable' = writable
      /\ UNCHANGED <<op_queue_, private_op_queue, task_result_, completing, events>>
  BY DEF start_op_queues, start_op_waits, work_started, handlerVars, privateVars
<1>2. registered_out \in BOOLEAN /\ readied \in BOOLEAN
  BY DEF IoSafe, IoTypeOK, ReactorTypeOK
<1>. HIDE DEF x
<1>3. "write_op" \in op_queues' => registered_out'
  BY <1>1 DEF EdgeInv
<1>4. ASSUME NEW op \in op_queues', Performs(op)' PROVE Found(op)'
  <2>1. op \in Events(TRUE) /\ op \in op_queues \cup tried
    BY <1>1, <1>4 DEF Performs, Events
  <2>2. Found(op) \/ (op = "write_op" /\ ~registered_out)
    BY <2>1 DEF EdgeInv, Performs
  <2>3. CASE op \in ReadyEvents
    <3>1. readied' /\ op \in Events(registered_out')
      BY <1>1, <1>2, <2>3 DEF ReadyEvents, Events
    <3>. QED
      BY <1>1, <3>1 DEF Found, ReadyEvents, Events
  <2>4. CASE Carries(op)
    BY <1>1, <2>4 DEF Found, Carries, Returned
  <2>5. CASE op = "write_op" /\ ~registered_out
    <3>1. registered_out'
      BY <1>3, <1>4, <2>5
    <3>2. readied'
      BY <1>1, <2>1, <2>5, <3>1
    <3>3. op \in Events(registered_out')
      BY <1>2, <2>1, <2>5, <3>1 DEF Events
    <3>. QED
      BY <1>1, <3>2, <3>3 DEF Found, ReadyEvents, Events
  <2>. QED
    BY <2>2, <2>3, <2>4, <2>5 DEF Found
<1>. QED
  BY <1>1, <1>3, <1>4 DEF EdgeInv

LEMMA KernelEdge ==
  ASSUME IoSafe, EdgeInv, Arrives \/ RoomToSend
  PROVE  EdgeInv'
<1>1. /\ registered_out' = registered_out /\ op_queues' = op_queues
      /\ tried' = tried /\ task_result_' = task_result_ /\ owner' = owner
      /\ completing' = completing /\ events' = events
      /\ UNCHANGED schedulerVars
      /\ \/ datagrams' = datagrams + 1 /\ readied' = TRUE /\ writable' = writable
         \/ /\ datagrams' = datagrams /\ ~writable /\ writable' = TRUE
            /\ readied' = (readied \/ registered_out)
  BY DEF Arrives, RoomToSend, datagram_arrives, room_to_send, handlerVars
<1>2. /\ registered_out \in BOOLEAN /\ readied \in BOOLEAN /\ datagrams \in Nat
      /\ writable \in BOOLEAN
  BY ReactorAssumption DEF IoSafe, IoTypeOK, ReactorTypeOK
<1>3. \A op : Carries(op) => Carries(op)'
  BY <1>1, CarriesKept, ReturnedKept DEF schedulerVars, privateVars
<1>4. ASSUME NEW op \in op_queues' \cup tried', Performs(op)'
      PROVE  Found(op)' \/ (op = "write_op" /\ ~registered_out')
  <2>1. CASE Performs(op)
    <3>1. Found(op) \/ (op = "write_op" /\ ~registered_out)
      BY <1>1, <1>4, <2>1 DEF EdgeInv
    <3>2. op \in ReadyEvents => op \in ReadyEvents'
      BY <1>1, <1>2 DEF ReadyEvents, Events
    <3>. QED
      BY <1>1, <1>3, <3>1, <3>2 DEF Found
  <2>2. CASE ~Performs(op)
    BY <1>1, <1>2, <1>4, <2>2 DEF Performs, Events, Found, ReadyEvents
  <2>. QED
    BY <2>1, <2>2
<1>. QED
  BY <1>1, <1>4 DEF EdgeInv

LEMMA ReadyHandlerEdge ==
  ASSUME IoSafe, EdgeInv, NEW t \in Thread, pc[t] = "complete", Free(t),
         step[t] = "enter", completing[t] \in Impl,
         complete_ready_handler(t, completing[t]), UNCHANGED <<impl_, owner>>
  PROVE  EdgeInv'
<1>1. owner \in {"running", "join"} /\ ReactorTypeOK
  BY Completing
<1>2. /\ completing' = completing /\ events' = events /\ owner' = owner
      /\ \/ UNCHANGED <<schedulerVars, reactorVars>>
         \/ \E op \in ReactorOp : async_op(t, op)
  BY DEF complete_ready_handler, handlerVars
<1>3. CASE UNCHANGED <<schedulerVars, reactorVars>>
  <2>1. Returned => Returned'
    BY <1>3, ReturnedKept DEF schedulerVars, privateVars
  <2>. QED
    BY <1>2, <1>3, <2>1, QuietEdge
<1>4. ASSUME NEW op \in ReactorOp, async_op(t, op) PROVE EdgeInv'
  <2>1. /\ readied' = readied /\ registered_out' = registered_out
        /\ op_queues' = op_queues /\ task_result_' = task_result_ /\ tried = {}
        /\ op_queue_' = op_queue_ /\ private_op_queue' = private_op_queue
        /\ start_op_done(op) \/ start_op_blocks(op)
    BY <1>4 DEF async_op, start_op_done, start_op_blocks, Unlocked, work_started,
       privateVars, kernelVars
  <2>2. \A x : Carries(x) => Carries(x)'
    BY <1>2, <2>1, CarriesKept, ReturnedKept
  <2>3. CASE start_op_done(op)
    <3>1. Performs(op) /\ performed({op}) /\ tried' = {}
      BY <2>1, <2>3 DEF start_op_done
    <3>2. \A x : Performs(x)' => Performs(x)
      BY <1>1, <3>1, PerformedLess
    <3>. QED
      BY <2>1, <2>2, <3>1, <3>2, EdgeKept
  <2>4. CASE start_op_blocks(op)
    <3>1. /\ ~Performs(op) /\ tried' = {op}
          /\ datagrams' = datagrams /\ writable' = writable
      BY <2>4 DEF start_op_blocks, kernelVars
    <3>2. \A x : Performs(x)' = Performs(x)
      BY <3>1 DEF Performs, Events
    <3>. QED
      BY <1>1, <1>2, <2>1, <2>2, <3>1, <3>2, EdgeKept
  <2>. QED
    BY <2>1, <2>3, <2>4
<1>. QED
  BY <1>2, <1>3, <1>4

LEMMA DescriptorEdge ==
  ASSUME IoSafe, EdgeInv, NEW t \in Thread, pc[t] = "complete", Free(t),
         complete_descriptor(t), UNCHANGED <<impl_, owner>>
  PROVE  EdgeInv'
<1>. DEFINE ops == Completed(events[t])
<1>1. completing[t] = Descriptor /\ step[t] = "enter"
  BY DEF complete_descriptor
<1>2. ReactorTypeOK /\ owner \in {"running", "join"}
  BY <1>1, Completing
<1>3. /\ tried = {} /\ tried' = {} /\ performed(ops) /\ op_queues' = op_queues \ ops
      /\ readied' = readied /\ registered_out' = registered_out
      /\ task_result_' = task_result_ /\ owner' = owner
      /\ op_queue_' = op_queue_ /\ private_op_queue' = private_op_queue
      /\ \E x, y : \/ completing' = [completing EXCEPT ![t] = x]
                      /\ events' = [events EXCEPT ![t] = y]
  BY DEF complete_descriptor, perform_io, Unlocked, IsComplete, schedulerVars,
     privateVars, compensating_work_started
<1>4. \A op : Performs(op)' => Performs(op)
  <2>1. \A op \in ops : Performs(op)
    BY DEF Completed
  <2>. QED
    BY <1>2, <1>3, <2>1, PerformedLess
<1>5. \A u \in Thread \ {t} : completing'[u] = completing[u] /\ events'[u] = events[u]
  BY <1>3, IoTypes
<1>6. ASSUME NEW op \in op_queues', Performs(op), Carries(op) PROVE Carries(op)'
  <2>1. op \notin events[t]
    BY <1>3, <1>6 DEF Completed
  <2>2. Returned => Returned'
    BY <1>3, ReturnedKept
  <2>. QED
    BY <1>3, <1>5, <1>6, <2>1, <2>2 DEF Carries
<1>. QED
  BY <1>3, <1>4, <1>6, EdgeKept

LEMMA CompletesEdge ==
  ASSUME IoSafe, EdgeInv, NEW t \in Thread, Completes(t)
  PROVE  EdgeInv'
<1>1. /\ pc[t] = "complete" /\ Free(t) /\ UNCHANGED <<impl_, owner>>
      /\ \/ complete_strand(t)
         \/ complete_descriptor(t)
         \/ complete_reactor_op(t)
         \/ dispatched_handler(t)
         \/ on_dispatch_exit(t)
         \/ handler_work_finishes(t)
  BY DEF Completes
<1>2. ASSUME step[t] # "cleanup" PROVE ThreadPlace(t) /\ private_op_queue[t] = <<>>
  BY <1>1, <1>2, Completing
<1>3. /\ Descriptor \notin Impl /\ Descriptor \notin ReactorOp
  BY IoContextAssumption
<1>4. CASE complete_strand(t)
  <2>1. step[t] = "enter" /\ completing[t] \in Impl
    BY <1>4 DEF complete_strand
  <2>2. CASE complete_ready_handler(t, completing[t])
    BY <1>1, <2>1, <2>2, ReadyHandlerEdge
  <2>3. CASE on_do_complete_exit(t, completing[t])
    <3>1. /\ UNCHANGED reactorVars /\ op_queue_' = op_queue_
          /\ \/ private_op_queue' = private_op_queue
             \/ private_op_queue' = [private_op_queue EXCEPT ![t] =
                                       Append(@, completing[t])]
          /\ completing' = [completing EXCEPT ![t] = None]
          /\ events' = [events EXCEPT ![t] = {}]
      BY <2>3 DEF on_do_complete_exit, post_continuation, IsComplete, schedulerVars,
         privateVars
    <3>2. \A u \in Thread \ {t} : /\ private_op_queue'[u] = private_op_queue[u]
                                  /\ completing'[u] = completing[u]
                                  /\ events'[u] = events[u]
      BY <3>1, IoTypes
    <3>3. private_op_queue[t] # <<Descriptor>> /\ completing[t] # Descriptor
      BY <1>2, <1>3, <2>1
    <3>4. Returned => Returned'
      BY <3>1, <3>2, <3>3 DEF Returned
    <3>. QED
      BY <1>1, <3>1, <3>2, <3>3, <3>4, QuietEdge
  <2>. QED
    BY <1>4, <2>2, <2>3 DEF complete_strand
<1>5. CASE complete_descriptor(t)
  BY <1>1, <1>5, DescriptorEdge
<1>6. CASE complete_reactor_op(t) \/ dispatched_handler(t) \/ on_dispatch_exit(t)
  <2>1. /\ UNCHANGED schedulerVars /\ UNCHANGED reactorVars
        /\ completing' = completing /\ events' = events
    BY <1>6 DEF complete_reactor_op, dispatched_handler, on_dispatch_exit
  <2>2. Returned => Returned'
    BY <2>1, ReturnedKept DEF schedulerVars, privateVars
  <2>. QED
    BY <1>1, <2>1, <2>2, QuietEdge
<1>7. CASE handler_work_finishes(t)
  <2>1. /\ UNCHANGED reactorVars /\ step[t] = "finish"
        /\ op_queue_' = op_queue_ /\ private_op_queue' = private_op_queue
        /\ completing' = [completing EXCEPT ![t] = None]
        /\ events' = [events EXCEPT ![t] = {}]
    BY <1>7 DEF handler_work_finishes, on_work_finished, IsComplete, privateVars
  <2>2. completing[t] # Descriptor
    BY <1>2, <1>3, <2>1 DEF ThreadPlace
  <2>3. \A u \in Thread \ {t} : completing'[u] = completing[u] /\ events'[u] = events[u]
    BY <2>1, IoTypes
  <2>4. Returned => Returned'
    BY <2>1, ReturnedKept
  <2>. QED
    BY <1>1, <2>1, <2>2, <2>3, <2>4, QuietEdge
<1>. QED
  BY <1>1, <1>4, <1>5, <1>6, <1>7

LEMMA OwnerEdge ==
  ASSUME IoSafe, EdgeInv, OwnerStep \/ owner_stops
  PROVE  EdgeInv'
<1>1. CASE owner_closes
  BY <1>1 DEF owner_closes, deregister_descriptor, Unlocked, EdgeInv
<1>2. CASE owner_shuts_down
  <2>1. owner = "shutdown" /\ UNCHANGED reactorVars
    BY <1>2 DEF owner_shuts_down
  <2>2. op_queues = {} /\ tried = {}
    BY <2>1 DEF EdgeInv, IoSafe, IoInv, PlaceInv, OwnerPlace
  <2>. QED
    BY <2>1, <2>2 DEF EdgeInv, reactorVars
<1>3. CASE \/ owner_posts("post_read", "do_receive", "post_write")
           \/ owner_posts("post_write", "do_send", "running")
           \/ owner_joins \/ owner_stops
  <2>1. /\ UNCHANGED reactorVars /\ owner' \notin {"shutdown", "destroyed"}
        /\ completing' = completing /\ events' = events
        /\ op_queue_' = op_queue_ /\ private_op_queue' = private_op_queue
    BY <1>3 DEF owner_posts, owner_joins, owner_stops, stop, handlerVars,
       schedulerVars, privateVars
  <2>2. Returned => Returned'
    BY <2>1, ReturnedKept
  <2>. QED
    BY <2>1, <2>2, QuietEdge
<1>. QED
  BY <1>1, <1>2, <1>3 DEF OwnerStep

LEMMA PostsDueEdge ==
  ASSUME IoSafe, EdgeInv, NEW c \in Caller, post_due(c)
  PROVE  EdgeInv'
<1>1. /\ UNCHANGED reactorVars /\ owner' = owner
      /\ completing' = completing /\ events' = events
      /\ private_op_queue' = private_op_queue
      /\ \/ op_queue_' = op_queue_ \o <<due[c]>>
         \/ op_queue_' = Append(op_queue_, due[c])
  BY DEF post_due, post_deferred_completions, post_immediate_completion,
     handlerVars, privateVars
<1>2. op_queue_ \in Seq(Entry) /\ due[c] \in Entry
  BY IoTypes DEF post_due, Entry
<1>3. op_queue_' = Append(op_queue_, due[c])
  BY <1>1, <1>2
<1>4. /\ Count(op_queue_', {Descriptor}) =
           Count(op_queue_, {Descriptor}) + In(due[c], {Descriptor})
      /\ Count(op_queue_, {Descriptor}) \in Nat
  BY <1>2, <1>3, CountAppend, CountType
<1>5. Returned => Returned'
  <2>. DEFINE k == Count(op_queue_, {Descriptor})
              k1 == Count(op_queue_', {Descriptor})
              e == In(due[c], {Descriptor})
  <2>1. k1 = k + e /\ k \in Nat /\ e \in Nat
    BY <1>4 DEF In
  <2>. HIDE DEF k, k1, e
  <2>2. k # 0 => k1 # 0
    BY <2>1
  <2>. QED
    BY <1>1, <2>2 DEF Returned, k, k1
<1>. QED
  BY <1>1, <1>5, QuietEdge

LEMMA EdgeStep == IoSafe /\ EdgeInv /\ [IoNext]_ioVars => EdgeInv'
<1>. SUFFICES ASSUME IoSafe, EdgeInv, [IoNext]_ioVars PROVE EdgeInv'
  OBVIOUS
<1>1. ASSUME \/ \E c \in Caller : Signals(c)
             \/ WakesSpuriously
             \/ \E t \in Thread : thread_starts(t) /\ owner' = owner
             \/ UNCHANGED ioVars
      PROVE  EdgeInv'
  <2>1. /\ UNCHANGED reactorVars /\ owner' = owner
        /\ completing' = completing /\ events' = events
        /\ op_queue_' = op_queue_ /\ private_op_queue' = private_op_queue
    BY <1>1 DEF Signals, cond_signal, WakesSpuriously, spurious_wakeup, thread_starts,
       run, handlerVars, schedulerVars, privateVars, ioVars
  <2>2. Returned => Returned'
    BY <2>1, ReturnedKept
  <2>. QED
    BY <2>1, <2>2, QuietEdge
<1>2. ASSUME NEW t \in Thread, ThreadStep(t) PROVE EdgeInv'
  <2>1. CASE /\ thread_starts(t) \/ thread_runs(t) \/ epoll_reactor_run(t)
             /\ UNCHANGED <<strandVars, impl_, owner, due>>
    <3>1. owner' = owner
      BY <2>1
    <3>. QED
      BY <1>1, <2>1, <3>1, RunsEdge, PollsEdge
  <2>2. CASE Completes(t)
    BY <2>2, CompletesEdge
  <2>3. CASE start_op_queues(t)
    BY <2>3, QueuesEdge
  <2>. QED
    BY <1>2, <2>1, <2>2, <2>3 DEF ThreadStep
<1>. QED
  BY <1>1, <1>2, PostsDueEdge, OwnerEdge, KernelEdge DEF IoNext, IoTerminating

\* An event on its way to do_complete is in the descriptor's one link.
LEMMA SafeEdges == IoSafe /\ EdgeInv => NoEdgeIsLost
<1>. SUFFICES ASSUME IoSafe, EdgeInv, NEW op \in op_queues, Performs(op)
              PROVE  op \in ReadyEvents \/ Reported(op)
  BY DEF NoEdgeIsLost
<1>1. Found(op)
  BY DEF EdgeInv
<1>2. Returned => Links(Descriptor) = 1
  <2>. DEFINE k == Count(op_queue_, {Descriptor})
              q == Cardinality(Pairs(private_op_queue, Descriptor))
              d == Cardinality(Dues(Descriptor))
              r == Cardinality(op_queues \cap {Descriptor})
  <2>1. k \in Nat /\ q \in Nat /\ d \in Nat /\ r \in Nat
    BY LinkParts
  <2>2. Links(Descriptor) = k + q + d + r
    BY DEF Links, Pairs, Dues
  <2>3. Links(Descriptor) <= 1
    BY DescriptorLinked
  <2>4. Returned => k # 0 \/ q # 0
    <3>1. ASSUME NEW t \in Thread, private_op_queue[t] = <<Descriptor>> PROVE q # 0
      <4>1. <<t, 1>> \in Pairs(private_op_queue, Descriptor)
        BY <3>1 DEF Pairs
      <4>2. IsFiniteSet(Pairs(private_op_queue, Descriptor))
        BY FinitePairs
      <4>. QED
        BY <4>1, <4>2, FS_EmptySet
    <3>. QED
      BY <3>1 DEF Returned
  <2>. HIDE DEF k, q, d, r
  <2>. QED
    BY <2>1, <2>2, <2>3, <2>4
<1>. QED
  BY <1>1, <1>2 DEF Found, Carries, Reported

-----------------------------------------------------------------------------
(* The theorems *)

LEMMA IoInvariance == IoSpec => []IoSafe
<1>1. IoInit => IoSafe
  BY IoInitial
<1>2. IoSafe /\ [IoNext]_ioVars => IoSafe'
  BY IoStep
<1>. QED
  BY <1>1, <1>2, PTL DEF IoSpec

\* The state has its type, whatever the number of threads, of implementations and
\* of datagrams.
THEOREM IoTypeCorrect == IoSpec => []IoTypeOK
<1>1. IoSafe => IoTypeOK
  BY DEF IoSafe
<1>. QED
  BY <1>1, IoInvariance, PTL

\* What strands, reactor and handlers do to the scheduler is what Scheduler.tla
\* lets a program do.
LEMMA SchedulerUsed == IoSpec => SchedulerSpec
<1>1. IoInit => SchedulerInit
  BY DEF IoInit
<1>2. IoSafe /\ [IoNext]_ioVars => [SchedulerNext]_schedulerVars
  BY UsesStep
<1>. QED
  BY <1>1, <1>2, IoInvariance, PTL DEF IoSpec, SchedulerSpec

\* No operation is left in the queue while the threads in run() sleep, and stop()
\* wakes them all, with the watcher's handlers, strands and socket.
THEOREM IoWakeupsAreKept == IoSpec => []NoLostWakeup
BY SchedulerUsed, WakeupsAreKept, PTL

\* An operation that waits in the descriptor and could be performed is one epoll
\* has to report or a thread has been told of, in any number of threads, although
\* the kernel acts between start_op's try and its registration.
THEOREM EdgesAreKept == IoSpec => []NoEdgeIsLost
<1>1. IoInit => EdgeInv
  BY DEF IoInit, ReactorInit, EdgeInv
<1>2. IoSafe /\ EdgeInv /\ [IoNext]_ioVars => EdgeInv'
  BY EdgeStep
<1>3. IoSafe /\ EdgeInv => NoEdgeIsLost
  BY SafeEdges
<1>. QED
  BY <1>1, <1>2, <1>3, IoInvariance, PTL DEF IoSpec

\* No operation is ever linked into two intrusive queues, or twice into one
\* (op_queue.hpp has one next_ in an operation).
THEOREM OperationsLinkedOnce == IoSpec => []LinkedOnce
BY SafeLinked, IoInvariance, PTL

\* A handler that is posted, an operation that is started and the handler it
\* completes are one after the other, and none is dropped or completed twice by
\* any of asio's paths, until the watcher is destroyed.
THEOREM ChainsStayWhole == IoSpec => []ChainsAreWhole
<1>1. IoSafe => ChainsAreWhole
  BY DEF IoSafe, IoInv, CountInv
<1>. QED
  BY <1>1, IoInvariance, PTL

\* Handlers of a strand never run concurrently, and a strand is locked as long
\* as somebody holds or has scheduled it.
THEOREM StrandsExclude == IoSpec => []StrandExclusive
BY SafeExclusive, IoInvariance, PTL

\* outstanding_work_ does not fall to 0 while the watcher runs, so run() is
\* stopped by stop() only.
THEOREM WorkIsKept == IoSpec => []WorkLasts
<1>1. IoSafe => WorkLasts
  BY DEF IoSafe, IoInv, CountInv
<1>. QED
  BY <1>1, IoInvariance, PTL
=============================================================================
