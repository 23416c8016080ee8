---------------------------- MODULE LpcIpc_proofs ----------------------------
(***************************************************************************)
(* Proofs about the intrusive queue, the scheduler built on it and the     *)
(* local ports on top of both, for every number of threads, time slice,    *)
(* port slots, handles and messages.                                       *)
(***************************************************************************)
EXTENDS LpcIpc, Sequences, FiniteSetTheorems, SequenceTheorems, TLAPS

-----------------------------------------------------------------------------
(***************************************************************************)
(* The queue.  A well-formed queue is a sequence of distinct threads in    *)
(* links: a push appends to it and a pop takes its first element, so no    *)
(* proof about the scheduler has to follow a chain of links.               *)
(***************************************************************************)
ThreadsIn(s) == {s[i] : i \in 1 .. Len(s)}

Represents(q, s) ==
  /\ s \in Seq(Threads)
  /\ \A i, j \in 1 .. Len(s) : s[i] = s[j] => i = j
  /\ q.next \in [Threads -> Threads \cup {NoThread}]
  /\ q.head = IF s = <<>> THEN NoThread ELSE s[1]
  /\ q.tail = IF s = <<>> THEN NoThread ELSE s[Len(s)]
  /\ \A i \in 1 .. Len(s) - 1 : q.next[s[i]] = s[i + 1]
  /\ s # <<>> => q.next[s[Len(s)]] = NoThread

LEMMA EmptyRepresented == Represents(EmptyQueue(NoLinks), <<>>)
BY DEF Represents, EmptyQueue, NoLinks, NoThread

LEMMA EmptyIffNoLength ==
  ASSUME NEW S, NEW s \in Seq(S)
  PROVE  s = <<>> <=> Len(s) = 0
OBVIOUS

(* PspRunQueuePush appends a thread that is not on the queue. *)
LEMMA PushAppends ==
  ASSUME NEW q, NEW s, Represents(q, s), NEW t \in Threads, t \notin ThreadsIn(s)
  PROVE  /\ Represents(PspRunQueuePush(q, t), Append(s, t))
         /\ ThreadsIn(Append(s, t)) = ThreadsIn(s) \cup {t}
<1> DEFINE a == Append(s, t)
           r == PspRunQueuePush(q, t)
<1>1. s \in Seq(Threads) /\ t # NoThread /\ NoThread \notin Threads
  BY DEF Represents, Threads, NoThread
<1>2. /\ a \in Seq(Threads) /\ Len(a) = Len(s) + 1 /\ a # <<>> /\ Len(s) \in Nat
      /\ a[Len(s) + 1] = t
      /\ \A i \in 1 .. Len(s) : a[i] = s[i] /\ a[i] # t
  BY <1>1 DEF ThreadsIn
<1>3. \A i, j \in 1 .. Len(a) : a[i] = a[j] => i = j
  BY <1>2 DEF Represents
<1>4. ThreadsIn(a) = ThreadsIn(s) \cup {t}
  <2>1. 1 .. Len(a) = (1 .. Len(s)) \cup {Len(s) + 1}
    BY <1>2
  <2> QED BY <1>2, <2>1 DEF ThreadsIn
<1>5. CASE s = <<>>
  <2>1. q.tail = NoThread /\ q.next \in [Threads -> Threads \cup {NoThread}]
    BY <1>5 DEF Represents
  <2>2. r = [head |-> t, tail |-> t, next |-> [q.next EXCEPT ![t] = NoThread]]
    BY <2>1 DEF PspRunQueuePush
  <2>3. a[1] = t /\ Len(a) = 1
    BY <1>2, <1>5
  <2>4. Represents(r, a)
    BY <1>2, <1>3, <2>1, <2>2, <2>3 DEF Represents
  <2> QED BY <1>4, <2>4
<1>6. CASE s # <<>>
  <2> DEFINE n == Len(s)
  <2>0. n \in Nat \ {0} /\ s[n] \in Threads /\ s[n] # t
    BY <1>1, <1>2, <1>6
  <2>1. q.tail = s[n] /\ q.head = s[1] /\ q.next \in [Threads -> Threads \cup {NoThread}]
    BY <1>6 DEF Represents
  <2>2. r = [head |-> q.head, tail |-> t,
             next |-> [[q.next EXCEPT ![t] = NoThread] EXCEPT ![q.tail] = t]]
    BY <1>1, <2>0, <2>1 DEF PspRunQueuePush
  <2>3. r.next \in [Threads -> Threads \cup {NoThread}] /\ r.head = s[1] /\ r.tail = t
    BY <2>0, <2>1, <2>2
  <2>4. r.next[s[n]] = t /\ r.next[t] = NoThread
    BY <2>0, <2>1, <2>2
  <2>5. ASSUME NEW i \in 1 .. n - 1 PROVE r.next[s[i]] = s[i + 1]
    <3>1. s[i] # s[n] /\ s[i] # t /\ s[i] \in Threads
      BY <1>1, <1>2, <2>0 DEF Represents
    <3>2. q.next[s[i]] = s[i + 1]
      BY DEF Represents
    <3> QED BY <2>1, <2>2, <3>1, <3>2
  <2>6. ASSUME NEW i \in 1 .. Len(a) - 1 PROVE r.next[a[i]] = a[i + 1]
    <3>1. CASE i = n
      BY <3>1, <1>2, <2>0, <2>4
    <3>2. CASE i # n
      <4>1. i \in 1 .. n - 1 /\ a[i] = s[i] /\ a[i + 1] = s[i + 1]
        BY <3>2, <1>2, <2>0
      <4> QED BY <4>1, <2>5
    <3> QED BY <3>1, <3>2
  <2>7. a[1] = s[1] /\ a[Len(a)] = t
    BY <1>2, <2>0
  <2> HIDE DEF r, a
  <2>8. Represents(r, a)
    BY <1>2, <1>3, <2>3, <2>4, <2>6, <2>7 DEF Represents
  <2> QED BY <1>4, <2>8 DEF r, a
<1> QED BY <1>5, <1>6

(* PspRunQueuePop takes the first thread off. *)
LEMMA PopTakesHead ==
  ASSUME NEW q, NEW s, Represents(q, s), q.head # NoThread
  PROVE  /\ s # <<>> /\ q.head = s[1] /\ s[1] \in Threads
         /\ Represents(PspRunQueuePop(q), Tail(s))
         /\ ThreadsIn(Tail(s)) = ThreadsIn(s) \ {s[1]}
         /\ s[1] \in ThreadsIn(s)
<1> DEFINE a == Tail(s)
           r == PspRunQueuePop(q)
           n == Len(s)
<1>1. s \in Seq(Threads) /\ s # <<>> /\ q.head = s[1] /\ q.tail = s[n] /\ NoThread \notin Threads
  BY DEF Represents, Threads, NoThread
<1>2. n \in Nat \ {0} /\ s[1] \in Threads /\ s[n] \in Threads
  BY <1>1
<1>3. /\ a \in Seq(Threads) /\ Len(a) = n - 1
      /\ \A i \in 1 .. n - 1 : a[i] = s[i + 1]
      /\ a = <<>> <=> n = 1
  <2>1. a \in Seq(Threads) /\ Len(a) = n - 1 /\ \A i \in 1 .. n - 1 : a[i] = s[i + 1]
    BY <1>1, <1>2
  <2>2. a = <<>> <=> Len(a) = 0
    BY <2>1, EmptyIffNoLength
  <2> QED BY <1>2, <2>1, <2>2
<1>4. \A i, j \in 1 .. n : s[i] = s[j] => i = j
  BY DEF Represents
<1>5. ThreadsIn(a) = ThreadsIn(s) \ {s[1]} /\ s[1] \in ThreadsIn(s)
  <2>1. ASSUME NEW i \in 1 .. n - 1 PROVE a[i] \in ThreadsIn(s) /\ a[i] # s[1]
    <3>1. i + 1 \in 1 .. n /\ i + 1 # 1 /\ a[i] = s[i + 1]
      BY <1>2, <1>3
    <3> QED BY <1>2, <1>4, <3>1 DEF ThreadsIn
  <2>2. ASSUME NEW i \in 1 .. n, s[i] # s[1] PROVE s[i] \in ThreadsIn(a)
    <3>1. i - 1 \in 1 .. n - 1 /\ a[i - 1] = s[i]
      BY <1>2, <1>3, <2>2
    <3> QED BY <1>3, <3>1 DEF ThreadsIn
  <2>3. s[1] \in ThreadsIn(s)
    BY <1>2 DEF ThreadsIn
  <2>4. ThreadsIn(a) \subseteq ThreadsIn(s) \ {s[1]}
    BY <1>3, <2>1 DEF ThreadsIn
  <2>5. ThreadsIn(s) \ {s[1]} \subseteq ThreadsIn(a)
    BY <2>2 DEF ThreadsIn
  <2> QED BY <2>3, <2>4, <2>5
<1>6. \A i, j \in 1 .. Len(a) : a[i] = a[j] => i = j
  <2> SUFFICES ASSUME NEW i \in 1 .. n - 1, NEW j \in 1 .. n - 1, a[i] = a[j]
               PROVE  i = j
    BY <1>3
  <2>1. i + 1 \in 1 .. n /\ j + 1 \in 1 .. n /\ s[i + 1] = s[j + 1]
    BY <1>2, <1>3
  <2> QED BY <1>4, <2>1
<1>7. /\ q.next \in [Threads -> Threads \cup {NoThread}]
      /\ \A i \in 1 .. n - 1 : q.next[s[i]] = s[i + 1]
      /\ q.next[s[n]] = NoThread
  BY <1>1 DEF Represents
<1>8. r = [head |-> q.next[s[1]],
           tail |-> IF q.next[s[1]] = NoThread THEN NoThread ELSE q.tail,
           next |-> [q.next EXCEPT ![s[1]] = NoThread]]
  BY <1>1 DEF PspRunQueuePop
<1>9. r.next \in [Threads -> Threads \cup {NoThread}]
  BY <1>2, <1>7, <1>8
<1>10. ASSUME NEW i \in 2 .. n PROVE r.next[s[i]] = q.next[s[i]] /\ s[i] \in Threads
  <2>1. s[i] # s[1] /\ s[i] \in Threads
    BY <1>1, <1>2, <1>4
  <2> QED BY <1>7, <1>8, <2>1
<1>11. Represents(r, a)
  <2>1. CASE n = 1
    <3>1. q.next[s[1]] = NoThread /\ a = <<>>
      BY <2>1, <1>3, <1>7
    <3> QED BY <3>1, <1>3, <1>6, <1>8, <1>9 DEF Represents
  <2>2. CASE n # 1
    <3>1. /\ q.next[s[1]] = s[2] /\ s[2] \in Threads /\ a[1] = s[2] /\ a # <<>>
          /\ a[Len(a)] = s[n]
      BY <2>2, <1>1, <1>2, <1>3, <1>7
    <3>2. r.head = a[1] /\ r.tail = s[n]
      BY <3>1, <1>1, <1>8
    <3>3. r.next[a[Len(a)]] = NoThread
      BY <3>1, <2>2, <1>2, <1>7, <1>10
    <3>4. ASSUME NEW i \in 1 .. Len(a) - 1 PROVE r.next[a[i]] = a[i + 1]
      <4>1. i + 1 \in 2 .. n /\ i + 1 \in 1 .. n - 1 /\ a[i] = s[i + 1] /\ a[i + 1] = s[(i + 1) + 1]
        BY <1>2, <1>3
      <4> QED BY <4>1, <1>7, <1>10
    <3> HIDE DEF r, a
    <3> QED BY <3>1, <3>2, <3>3, <3>4, <1>3, <1>6, <1>9 DEF Represents
  <2> QED BY <2>1, <2>2
<1> QED BY <1>1, <1>2, <1>5, <1>11

(* A queue holds no more threads than there are. *)
LEMMA QueueLength ==
  ASSUME NEW q, NEW s, Represents(q, s)
  PROVE  Len(s) \in 0 .. MaxThreads
<1>1. s \in Seq(Threads) /\ Len(s) \in Nat
  BY DEF Represents
<1>2. s \in Injection(1 .. Len(s), Threads)
  <2>1. s \in [1 .. Len(s) -> Threads]
    BY <1>1
  <2>2. DOMAIN s = 1 .. Len(s)
    BY <1>1
  <2> QED BY <2>1, <2>2 DEF Injection, IsInjective, Represents
<1>3. IsFiniteSet(Threads) /\ Cardinality(Threads) = MaxThreads
  BY MaxThreadsAssumption, FS_Interval DEF Threads
<1>4. Cardinality(1 .. Len(s)) = Len(s)
  <2> DEFINE n == Len(s)
  <2>1. n \in Nat
    BY <1>1
  <2> HIDE DEF n
  <2>2. Cardinality(1 .. n) = IF 1 > n THEN 0 ELSE n - 1 + 1
    <3>1. 1 \in Int /\ n \in Int
      BY <2>1
    <3> QED BY <3>1, FS_Interval, Zenon
  <2>3. Cardinality(1 .. n) = n
    BY <2>1, <2>2
  <2> QED BY <2>3 DEF n
<1>5. Cardinality(1 .. Len(s)) <= Cardinality(Threads)
  BY <1>2, <1>3, FS_Injection
<1> QED BY <1>1, <1>3, <1>4, <1>5, MaxThreadsAssumption

(* The smallest element of a set of natural numbers. *)
LEMMA LeastElement ==
  ASSUME NEW S, S \subseteq Nat, S # {}
  PROVE  \E p \in S : \A q \in S : p <= q
<1> DEFINE R == {ss \in Nat \X Nat : ss[1] < ss[2]}
<1>1. IsWellFoundedOn(R, Nat)
  <2>1. OpToRel(<, Nat) = R
    BY Zenon DEF OpToRel
  <2> QED BY <2>1, NatLessThanWellFounded, Zenon
<1>2. PICK p \in S : \A q \in S : ~ (<<q, p>> \in R)
  <2> HIDE DEF R
  <2> QED BY <1>1, WFMin
<1>3. ASSUME NEW r \in S PROVE p <= r
  <2>1. r \in Nat /\ p \in Nat /\ ~ (<<r, p>> \in R)
    BY <1>2
  <2>2. ~ (r < p)
    BY <2>1
  <2> QED BY <2>1, <2>2
<1> QED BY <1>3

(* Following the links from the head yields the sequence, then nulls.      *)
ChainStep(q, f) ==
  [i \in 0 .. MaxThreads |->
     IF i = 0 THEN q.head
     ELSE IF f[i - 1] = NoThread THEN NoThread ELSE q.next[f[i - 1]]]
Unlinked(s) == [i \in 0 .. MaxThreads |-> IF i < Len(s) THEN s[i + 1] ELSE NoThread]

LEMMA NodesAreSequence ==
  ASSUME NEW q, NEW s, Represents(q, s), NEW k \in 0 .. MaxThreads
  PROVE  Node(q, k) = IF k < Len(s) THEN s[k + 1] ELSE NoThread
<1> DEFINE g == Unlinked(s)
           c == CHOOSE f : f = ChainStep(q, f)
<1>0. /\ s \in Seq(Threads) /\ Len(s) \in Nat /\ NoThread \notin Threads
      /\ MaxThreads \in Nat
      /\ s = <<>> <=> Len(s) = 0
  BY MaxThreadsAssumption, EmptyIffNoLength DEF Represents, Threads, NoThread
<1>1. g = ChainStep(q, g)
  <2>1. ASSUME NEW i \in 0 .. MaxThreads
        PROVE  g[i] = ChainStep(q, g)[i]
    <3>1. CASE i = 0
      BY <3>1, <1>0 DEF Represents, ChainStep, Unlinked
    <3>2. CASE i # 0
      <4>1. i - 1 \in 0 .. MaxThreads /\ (i - 1) + 1 = i
        BY <3>2, <1>0
      <4>2. CASE i < Len(s)
        <5>1. /\ g[i - 1] = s[i] /\ s[i] \in Threads /\ i \in 1 .. Len(s) - 1
              /\ g[i] = s[i + 1]
          BY <3>2, <4>1, <4>2, <1>0 DEF Unlinked
        <5>2. q.next[s[i]] = s[i + 1]
          BY <5>1 DEF Represents
        <5> QED BY <3>2, <5>1, <5>2, <1>0 DEF ChainStep
      <4>3. CASE i = Len(s)
        <5>1. g[i - 1] = s[i] /\ s[i] \in Threads /\ g[i] = NoThread
          BY <3>2, <4>1, <4>3, <1>0 DEF Unlinked
        <5>2. q.next[s[i]] = NoThread
          BY <3>2, <4>3, <1>0 DEF Represents
        <5> QED BY <3>2, <5>1, <5>2, <1>0 DEF ChainStep
      <4>4. CASE i > Len(s)
        <5>1. g[i - 1] = NoThread /\ g[i] = NoThread
          BY <3>2, <4>1, <4>4, <1>0 DEF Unlinked
        <5> QED BY <3>2, <5>1 DEF ChainStep
      <4> QED BY <1>0, <4>2, <4>3, <4>4
    <3> QED BY <3>1, <3>2
  <2>2. DOMAIN g = 0 .. MaxThreads /\ g = [i \in DOMAIN g |-> g[i]]
    BY DEF Unlinked
  <2>3. DOMAIN ChainStep(q, g) = 0 .. MaxThreads
        /\ ChainStep(q, g) = [i \in DOMAIN ChainStep(q, g) |-> ChainStep(q, g)[i]]
    BY DEF ChainStep
  <2> HIDE DEF g
  <2> QED BY <2>1, <2>2, <2>3
<1>2. c = ChainStep(q, c)
  <2> HIDE DEF g
  <2> QED BY <1>1
<1>3. Node(q, k) = c[k]
  BY DEF Node, ChainStep
<1> HIDE DEF c, g
<1>4. ASSUME NEW i \in 0 .. MaxThreads
      PROVE  c[i] = g[i]
  <2> DEFINE D == {j \in 0 .. MaxThreads : c[j] # g[j]}
  <2>1. D = {}
    <3> SUFFICES ASSUME D # {} PROVE FALSE
      OBVIOUS
    <3>0. D \subseteq Nat /\ D # {}
      BY <1>0
    <3>1. PICK m \in D : \A j \in D : m <= j
      <4> HIDE DEF D
      <4> QED BY <3>0, LeastElement
    <3>2. CASE m = 0
      <4>1. c[0] = q.head /\ g[0] = q.head /\ 0 \in 0 .. MaxThreads
        BY <1>0, <1>1, <1>2 DEF ChainStep
      <4> QED BY <3>1, <3>2, <4>1
    <3>3. CASE m # 0
      <4>1. m \in 0 .. MaxThreads /\ m - 1 \in 0 .. MaxThreads /\ m - 1 < m /\ m \in Nat
        BY <3>1, <3>3, <1>0
      <4>2. c[m - 1] = g[m - 1]
        BY <3>1, <4>1
      <4>3. ChainStep(q, c)[m] = ChainStep(q, g)[m]
        BY <3>3, <4>1, <4>2 DEF ChainStep
      <4>4. c[m] = g[m]
        BY <1>1, <1>2, <4>3
      <4> QED BY <3>1, <4>4
    <3> QED BY <3>2, <3>3
  <2> QED BY <2>1
<1>5. c[k] = g[k]
  BY <1>4
<1> QED BY <1>3, <1>5 DEF g, Unlinked

(* So the members of the queue are the threads of the sequence, and its    *)
(* chain of links ends, with the tail as its last node.                    *)
LEMMA SequenceIsQueue ==
  ASSUME NEW q, NEW s, Represents(q, s)
  PROVE  WellFormed(q) /\ Members(q) = ThreadsIn(s)
<1>0. /\ s \in Seq(Threads) /\ Len(s) \in 0 .. MaxThreads /\ NoThread \notin Threads
      /\ MaxThreads \in Nat
      /\ s = <<>> <=> Len(s) = 0
  <2>1. s \in Seq(Threads)
    BY DEF Represents
  <2>2. Len(s) \in 0 .. MaxThreads
    BY QueueLength
  <2>3. s = <<>> <=> Len(s) = 0
    BY <2>1, EmptyIffNoLength
  <2>4. NoThread \notin Threads /\ MaxThreads \in Nat
    BY MaxThreadsAssumption DEF Threads, NoThread
  <2> QED BY <2>1, <2>2, <2>3, <2>4
<1>1. Members(q) = ThreadsIn(s)
  <2>1. ASSUME NEW t \in Members(q) PROVE t \in ThreadsIn(s)
    <3>1. PICK k \in 0 .. MaxThreads : t = Node(q, k) /\ t # NoThread
      BY DEF Members
    <3>2. k < Len(s) /\ t = s[k + 1]
      BY <3>1, NodesAreSequence
    <3>3. k + 1 \in 1 .. Len(s)
      BY <3>2, <1>0
    <3> QED BY <3>2, <3>3 DEF ThreadsIn
  <2>2. ASSUME NEW i \in 1 .. Len(s) PROVE s[i] \in Members(q)
    <3>1. i - 1 \in 0 .. MaxThreads /\ i - 1 < Len(s) /\ (i - 1) + 1 = i
      BY <1>0
    <3>2. Node(q, i - 1) = s[i]
      BY <3>1, NodesAreSequence
    <3>3. s[i] # NoThread
      BY <1>0
    <3> QED BY <3>1, <3>2, <3>3 DEF Members
  <2> QED BY <2>1, <2>2 DEF ThreadsIn
<1>2. Node(q, MaxThreads) = NoThread
  <2>1. MaxThreads \in 0 .. MaxThreads /\ ~ (MaxThreads < Len(s))
    BY <1>0
  <2> QED BY <2>1, NodesAreSequence
<1>3. q.head = NoThread <=> q.tail = NoThread
  <2>1. s # <<>> => s[1] \in Threads /\ s[Len(s)] \in Threads
    BY <1>0
  <2> QED BY <1>0, <2>1 DEF Represents
<1>4. ASSUME q.tail # NoThread
      PROVE  q.tail \in Members(q) /\ q.next[q.tail] = NoThread
  <2>1. s # <<>> /\ q.tail = s[Len(s)] /\ q.next[s[Len(s)]] = NoThread
    BY <1>4 DEF Represents
  <2>2. Len(s) \in 1 .. Len(s)
    BY <1>0, <2>1
  <2> QED BY <1>1, <2>1, <2>2 DEF ThreadsIn
<1> QED BY <1>1, <1>2, <1>3, <1>4 DEF WellFormed

-----------------------------------------------------------------------------
(* A queue whose links are some sequence's, and what the two operations do *)
(* to its members.                                                         *)
Sound(q) == \E s : Represents(q, s)

LEMMA EmptySound == Sound(EmptyQueue(NoLinks)) /\ Members(EmptyQueue(NoLinks)) = {}
<1>1. Represents(EmptyQueue(NoLinks), <<>>)
  BY EmptyRepresented
<1>2. Members(EmptyQueue(NoLinks)) = ThreadsIn(<<>>)
  BY <1>1, SequenceIsQueue
<1>3. ThreadsIn(<<>>) = {}
  BY DEF ThreadsIn
<1> QED BY <1>1, <1>2, <1>3 DEF Sound

LEMMA SoundIsWellFormed ==
  ASSUME NEW q, Sound(q)
  PROVE  WellFormed(q) /\ Members(q) \subseteq Threads
<1>1. PICK s : Represents(q, s)
  BY DEF Sound
<1>2. WellFormed(q) /\ Members(q) = ThreadsIn(s)
  BY <1>1, SequenceIsQueue
<1>3. s \in Seq(Threads)
  BY <1>1 DEF Represents
<1> QED BY <1>2, <1>3 DEF ThreadsIn

LEMMA PushAddsMember ==
  ASSUME NEW q, Sound(q), NEW t \in Threads, t \notin Members(q)
  PROVE  /\ Sound(PspRunQueuePush(q, t))
         /\ Members(PspRunQueuePush(q, t)) = Members(q) \cup {t}
<1>1. PICK s : Represents(q, s)
  BY DEF Sound
<1>2. Members(q) = ThreadsIn(s)
  BY <1>1, SequenceIsQueue
<1>3. /\ Represents(PspRunQueuePush(q, t), Append(s, t))
      /\ ThreadsIn(Append(s, t)) = ThreadsIn(s) \cup {t}
  BY <1>1, <1>2, PushAppends
<1>4. Members(PspRunQueuePush(q, t)) = ThreadsIn(Append(s, t))
  BY <1>3, SequenceIsQueue
<1> QED BY <1>2, <1>3, <1>4 DEF Sound

LEMMA PopRemovesHead ==
  ASSUME NEW q, Sound(q), q.head # NoThread
  PROVE  /\ q.head \in Threads /\ q.head \in Members(q)
         /\ Sound(PspRunQueuePop(q))
         /\ Members(PspRunQueuePop(q)) = Members(q) \ {q.head}
<1>1. PICK s : Represents(q, s)
  BY DEF Sound
<1>2. Members(q) = ThreadsIn(s)
  BY <1>1, SequenceIsQueue
<1>3. /\ q.head = s[1] /\ s[1] \in Threads /\ s[1] \in ThreadsIn(s)
      /\ Represents(PspRunQueuePop(q), Tail(s))
      /\ ThreadsIn(Tail(s)) = ThreadsIn(s) \ {s[1]}
  BY <1>1, PopTakesHead
<1>4. Members(PspRunQueuePop(q)) = ThreadsIn(Tail(s))
  BY <1>3, SequenceIsQueue
<1> QED BY <1>2, <1>3, <1>4 DEF Sound

-----------------------------------------------------------------------------
(***************************************************************************)
(* The scheduler's state, whatever its threads do.  ReadyThreadsQueued is  *)
(* not inductive on its own: that PsReadyThread and PsWakeThread push a    *)
(* thread only once rests on which states a queued thread may be in, that  *)
(* PsDispatch does rests on the current thread not being queued, and a     *)
(* start routine that returns may only kill a thread that was readied.     *)
(***************************************************************************)
ThreadStates == {"Free", "Leaked", "Ready", "Running", "Blocked", "Dead"}
Routines == {"none", "kernel", "user"}

SchedTypeOK ==
  /\ threadState \in [Threads -> ThreadStates]
  /\ readied \subseteq Threads
  /\ currentThread \in Threads \cup {NoThread}
  /\ cpu \in Streams
  /\ context \in [Threads -> Streams \cup {Stale}]
  /\ thunkThread \in [Streams -> Threads \cup {NoThread}]
  /\ \A s \in Streams : thunkThread[s] # NoThread => thunkThread[s] \in readied

StatesAgree ==
  \A t \in Threads :
    /\ threadState[t] = "Free" => t \notin readied
    /\ t \notin readied => threadState[t] \in {"Free", "Leaked", "Ready"}
    /\ threadState[t] = "Running" => t = currentThread
    /\ t = currentThread => t \in readied /\ threadState[t] \in {"Running", "Dead"}

QueueAgrees ==
  /\ Sound(runQueue)
  /\ Members(runQueue) \subseteq readied \ {currentThread}
  /\ \A t \in Members(runQueue) : threadState[t] \in {"Ready", "Dead"}
  /\ \A t \in readied : threadState[t] = "Ready" => t \in Members(runQueue)

QueueInv == SchedTypeOK /\ StatesAgree /\ QueueAgrees

(* The variables QueueInv speaks of. *)
queueVars == <<threadState, readied, runQueue, currentThread, cpu, context, thunkThread>>

LEMMA ThreadFacts ==
  /\ MaxThreads \in Nat /\ Bootstrap \in Threads /\ NoThread \notin Threads
  /\ Boot \notin Threads /\ Stale \notin Streams
BY MaxThreadsAssumption DEF Bootstrap, Threads, NoThread, Boot, Stale, Streams

LEMMA QueueInvInit == PsInitialize => QueueInv
<1> SUFFICES ASSUME PsInitialize PROVE QueueInv
  OBVIOUS
<1>1. SchedTypeOK
  BY ThreadFacts DEF PsInitialize, SchedTypeOK, ThreadStates, Streams
<1>2. StatesAgree
  BY ThreadFacts DEF PsInitialize, StatesAgree
<1>3. QueueAgrees
  BY EmptySound, ThreadFacts DEF PsInitialize, QueueAgrees
<1> QED BY <1>1, <1>2, <1>3 DEF QueueInv

LEMMA QueueStays ==
  ASSUME QueueInv, UNCHANGED queueVars
  PROVE  QueueInv'
BY DEF QueueInv, queueVars, SchedTypeOK, StatesAgree, QueueAgrees

(* A blocked thread that is woken goes on the queue. *)
LEMMA WakeKeepsQueue ==
  ASSUME QueueInv, NEW t \in Threads, WakeNeeded(t),
         threadState' = [threadState EXCEPT ![t] = "Ready"],
         runQueue' = PspRunQueuePush(runQueue, t),
         UNCHANGED <<readied, currentThread, cpu, context, thunkThread>>
  PROVE  QueueInv'
<1> USE DEF QueueInv
<1>1. threadState[t] = "Blocked" /\ t \notin Members(runQueue) /\ t \in readied /\ t # currentThread
  BY DEF WakeNeeded, QueueAgrees, StatesAgree
<1>2. Sound(runQueue') /\ Members(runQueue') = Members(runQueue) \cup {t}
  BY <1>1, PushAddsMember DEF QueueAgrees
<1>3. SchedTypeOK'
  BY DEF SchedTypeOK, ThreadStates
<1>4. StatesAgree'
  BY <1>1 DEF SchedTypeOK, StatesAgree
<1>5. QueueAgrees'
  BY <1>1, <1>2 DEF SchedTypeOK, QueueAgrees
<1> QED BY <1>3, <1>4, <1>5

(* The current thread leaves the CPU without being queued. *)
LEMMA LeaveKeepsQueue ==
  ASSUME QueueInv, NEW label, NEW newState \in {"Dead", "Blocked"},
         LeaveCurrent(newState, label)
  PROVE  QueueInv'
<1> USE DEF QueueInv
<1>1. CASE currentThread = NoThread
  BY <1>1, QueueStays DEF LeaveCurrent, queueVars
<1>2. CASE currentThread # NoThread
  <2>1. /\ threadState' = [threadState EXCEPT ![currentThread] = newState]
        /\ currentThread' = NoThread
        /\ UNCHANGED <<readied, runQueue, context, cpu, thunkThread>>
    BY <1>2 DEF LeaveCurrent
  <2>2. currentThread \in Threads /\ currentThread \in readied
        /\ currentThread \notin Members(runQueue)
    BY <1>2 DEF SchedTypeOK, StatesAgree, QueueAgrees
  <2>3. SchedTypeOK'
    BY <2>1 DEF SchedTypeOK, ThreadStates
  <2>4. StatesAgree'
    BY <2>1, <2>2, ThreadFacts DEF SchedTypeOK, StatesAgree
  <2>5. QueueAgrees'
    <3>1. Sound(runQueue') /\ Members(runQueue') = Members(runQueue)
          /\ Members(runQueue) \subseteq Threads
      BY <2>1, SoundIsWellFormed DEF QueueAgrees
    <3> QED BY <2>1, <2>2, <3>1, ThreadFacts DEF SchedTypeOK, QueueAgrees
  <2> QED BY <2>3, <2>4, <2>5
<1> QED BY <1>1, <1>2

(* PsDispatch with a thread on the queue: its effect with the choices that *)
(* the current thread leaves open made.                                    *)
LEMMA DispatchEffect ==
  ASSUME QueueInv, PsDispatch, runQueue.head # NoThread
  PROVE  LET next == runQueue.head
             runs == currentThread # NoThread /\ threadState[currentThread] = "Running"
         IN  /\ next \in Members(runQueue) /\ next \in Threads /\ next # currentThread
             /\ currentThread' = next
             /\ Sound(runQueue')
             /\ Members(runQueue') = (Members(runQueue) \ {next})
                                     \cup {t \in {currentThread} : runs}
             /\ \A t \in Threads : threadState'[t] = IF t = next THEN "Running"
                                                     ELSE IF t = currentThread /\ runs THEN "Ready"
                                                     ELSE threadState[t]
             /\ threadState' \in [Threads -> ThreadStates]
             /\ currentThread = NoThread => UNCHANGED <<context, cpu, machine>>
             /\ currentThread # NoThread => KiArchSwitchContext(currentThread, next)
             /\ UNCHANGED <<readied, reschedulePending, startRoutine, thunkThread>>
             /\ Goto(AfterDispatch(pc[cpu], TRUE))
<1> DEFINE next == runQueue.head
           prev == currentThread
           rest == PspRunQueuePop(runQueue)
           runs == prev # NoThread /\ threadState[prev] = "Running"
           requeued == {t \in {prev} : RequeuePrevious(t)}
<1>1. /\ runQueue' = IF requeued = {} THEN rest ELSE PspRunQueuePush(rest, prev)
      /\ threadState' = [t \in Threads |->
                           IF t = next THEN "Running"
                           ELSE IF t \in requeued THEN "Ready"
                           ELSE threadState[t]]
      /\ currentThread' = next
      /\ IF SwitchNeeded(prev, next)
         THEN KiArchSwitchContext(prev, next)
         ELSE UNCHANGED <<context, cpu, machine>>
      /\ UNCHANGED <<readied, reschedulePending, startRoutine, thunkThread>>
      /\ Goto(AfterDispatch(pc[cpu], TRUE))
  BY DEF PsDispatch
<1>2. requeued = {t \in {prev} : runs} /\ (runs <=> requeued # {})
  BY DEF RequeuePrevious
<1>3. next \in Threads /\ next \in Members(runQueue) /\ Sound(rest)
      /\ Members(rest) = Members(runQueue) \ {next}
  BY PopRemovesHead DEF QueueInv, QueueAgrees
<1>4. next # prev /\ prev \notin Members(runQueue)
  BY <1>3 DEF QueueInv, QueueAgrees
<1>5. prev # NoThread => prev \in Threads
  BY DEF QueueInv, SchedTypeOK
<1>6. Sound(runQueue') /\ Members(runQueue') = Members(rest) \cup {t \in {prev} : runs}
  <2>1. CASE runs
    <3>1. /\ Sound(PspRunQueuePush(rest, prev))
          /\ Members(PspRunQueuePush(rest, prev)) = Members(rest) \cup {prev}
      BY <2>1, <1>3, <1>4, <1>5, PushAddsMember
    <3>2. runQueue' = PspRunQueuePush(rest, prev)
      BY <1>1, <1>2, <2>1
    <3> QED BY <2>1, <3>1, <3>2
  <2>2. CASE ~ runs
    <3>1. runQueue' = rest
      BY <1>1, <1>2, <2>2
    <3> QED BY <2>2, <3>1, <1>3
  <2> QED BY <2>1, <2>2
<1>7. \A t \in Threads : threadState'[t] = IF t = next THEN "Running"
                                           ELSE IF t = prev /\ runs THEN "Ready"
                                           ELSE threadState[t]
  BY <1>1, <1>2
<1>8. threadState' \in [Threads -> ThreadStates]
  BY <1>1 DEF QueueInv, SchedTypeOK, ThreadStates
<1>9. SwitchNeeded(prev, next) <=> prev # NoThread
  BY <1>4 DEF SwitchNeeded
<1> HIDE DEF rest, requeued
<1> QED BY <1>1, <1>3, <1>4, <1>6, <1>7, <1>8, <1>9

(* What a switch leaves in context and cpu. *)
LEMMA SwitchTyped ==
  ASSUME cpu \in Streams, context \in [Threads -> Streams \cup {Stale}],
         NEW prev, NEW next \in Threads, KiArchSwitchContext(prev, next)
  PROVE  cpu' \in Streams /\ context' \in [Threads -> Streams \cup {Stale}]
<1>1. CASE context[next] = Stale
  BY <1>1 DEF KiArchSwitchContext
<1>2. CASE context[next] # Stale
  <2>1. context' = [context EXCEPT ![prev] = cpu, ![next] = Stale] /\ cpu' = context[next]
    BY <1>2 DEF KiArchSwitchContext
  <2> QED BY <1>2, <2>1
<1> QED BY <1>1, <1>2

LEMMA DispatchKeepsQueue ==
  ASSUME QueueInv, PsDispatch
  PROVE  QueueInv'
<1>1. CASE runQueue.head = NoThread
  BY <1>1, QueueStays DEF PsDispatch, queueVars
<1>2. CASE runQueue.head # NoThread
  <2> DEFINE next == runQueue.head
             runs == currentThread # NoThread /\ threadState[currentThread] = "Running"
  <2>1. /\ next \in Members(runQueue) /\ next \in Threads /\ next # currentThread
        /\ currentThread' = next
        /\ Sound(runQueue')
        /\ Members(runQueue') = (Members(runQueue) \ {next}) \cup {t \in {currentThread} : runs}
        /\ \A t \in Threads : threadState'[t] = IF t = next THEN "Running"
                                                ELSE IF t = currentThread /\ runs THEN "Ready"
                                                ELSE threadState[t]
        /\ threadState' \in [Threads -> ThreadStates]
        /\ currentThread = NoThread => UNCHANGED <<context, cpu, machine>>
        /\ currentThread # NoThread => KiArchSwitchContext(currentThread, next)
        /\ UNCHANGED <<readied, thunkThread>>
    BY <1>2, DispatchEffect
  <2>2. Members(runQueue) \subseteq Threads
    BY SoundIsWellFormed DEF QueueInv, QueueAgrees
  <2>3. next \in readied /\ (runs => currentThread \in readied /\ currentThread \in Threads)
    BY <2>1 DEF QueueInv, QueueAgrees, StatesAgree, SchedTypeOK
  <2> HIDE DEF next
  <2>4. cpu' \in Streams /\ context' \in [Threads -> Streams \cup {Stale}]
    BY <2>1, SwitchTyped DEF QueueInv, SchedTypeOK
  <2>5. SchedTypeOK'
    BY <2>1, <2>4 DEF QueueInv, SchedTypeOK
  <2>6. StatesAgree'
    <3>1. ASSUME NEW t \in Threads
          PROVE  /\ threadState'[t] = "Free" => t \notin readied
                 /\ t \notin readied => threadState'[t] \in {"Free", "Leaked", "Ready"}
                 /\ threadState'[t] = "Running" => t = next
                 /\ t = next => threadState'[t] = "Running"
      BY <2>1, <2>3, ThreadFacts DEF QueueInv, StatesAgree
    <3> QED BY <2>1, <2>3, <3>1 DEF StatesAgree
  <2>7. QueueAgrees'
    <3>1. Members(runQueue') \subseteq readied \ {next}
      BY <2>1, <2>3 DEF QueueInv, QueueAgrees
    <3>2. ASSUME NEW t \in Members(runQueue') PROVE threadState'[t] \in {"Ready", "Dead"}
      BY <2>1, <2>2, <2>3 DEF QueueInv, QueueAgrees
    <3>3. ASSUME NEW t \in readied, threadState'[t] = "Ready" PROVE t \in Members(runQueue')
      BY <3>3, <2>1, <2>3 DEF QueueInv, QueueAgrees, SchedTypeOK
    <3> QED BY <2>1, <3>1, <3>2, <3>3 DEF QueueAgrees
  <2> QED BY <2>5, <2>6, <2>7 DEF QueueInv
<1> QED BY <1>1, <1>2

LEMMA CreateKeepsQueue ==
  ASSUME QueueInv, NEW routine, CreateThread(routine)
  PROVE  QueueInv'
<1>1. PICK t \in Threads :
        /\ threadState[t] = "Free"
        /\ \/ threadState' = [threadState EXCEPT ![t] = "Ready"]
           \/ threadState' = [threadState EXCEPT ![t] = "Leaked"]
        /\ context' = [context EXCEPT ![t] = t] \/ context' = context
        /\ UNCHANGED <<readied, runQueue, currentThread, cpu, thunkThread>>
  BY DEF CreateThread
<1>2. t \notin readied /\ t # currentThread /\ t \notin Members(runQueue)
  BY <1>1 DEF QueueInv, StatesAgree, QueueAgrees
<1>3. SchedTypeOK'
  BY <1>1 DEF QueueInv, SchedTypeOK, ThreadStates, Streams
<1>4. StatesAgree'
  BY <1>1, <1>2 DEF QueueInv, SchedTypeOK, StatesAgree
<1>5. QueueAgrees'
  <2>1. Sound(runQueue') /\ Members(runQueue') = Members(runQueue)
    BY <1>1 DEF QueueInv, QueueAgrees
  <2> QED BY <1>1, <1>2, <2>1 DEF QueueInv, SchedTypeOK, QueueAgrees
<1> QED BY <1>3, <1>4, <1>5 DEF QueueInv

LEMMA ReadyKeepsQueue ==
  ASSUME QueueInv, NEW t \in Threads, PsReadyThread(t)
  PROVE  QueueInv'
<1>1. /\ threadState[t] = "Ready" /\ t \notin readied
      /\ readied' = readied \cup {t}
      /\ runQueue' = PspRunQueuePush(runQueue, t)
      /\ UNCHANGED <<threadState, currentThread, context, cpu, thunkThread>>
  BY DEF PsReadyThread
<1>2. t \notin Members(runQueue) /\ t # currentThread
  BY <1>1 DEF QueueInv, StatesAgree, QueueAgrees
<1>3. Sound(runQueue') /\ Members(runQueue') = Members(runQueue) \cup {t}
  BY <1>1, <1>2, PushAddsMember DEF QueueInv, QueueAgrees
<1>4. SchedTypeOK'
  BY <1>1 DEF QueueInv, SchedTypeOK
<1>5. StatesAgree'
  BY <1>1, <1>2 DEF QueueInv, SchedTypeOK, StatesAgree
<1>6. QueueAgrees'
  BY <1>1, <1>2, <1>3 DEF QueueInv, QueueAgrees
<1> QED BY <1>4, <1>5, <1>6 DEF QueueInv

(* A readied thread that is not running for anyone else dies. *)
LEMMA DeathKeepsQueue ==
  ASSUME QueueInv, NEW t \in readied,
         threadState' = [threadState EXCEPT ![t] = "Dead"],
         thunkThread' \in [Streams -> Threads \cup {NoThread}],
         \A s \in Streams : thunkThread'[s] # NoThread => thunkThread'[s] \in readied,
         UNCHANGED <<readied, runQueue, currentThread, cpu, context>>
  PROVE  QueueInv'
<1>1. t \in Threads
  BY DEF QueueInv, SchedTypeOK
<1>2. SchedTypeOK'
  BY DEF QueueInv, SchedTypeOK, ThreadStates
<1>3. StatesAgree'
  BY <1>1 DEF QueueInv, SchedTypeOK, StatesAgree
<1>4. QueueAgrees'
  <2>1. Sound(runQueue') /\ Members(runQueue') = Members(runQueue)
        /\ Members(runQueue) \subseteq Threads
    BY SoundIsWellFormed DEF QueueInv, QueueAgrees
  <2> QED BY <1>1, <2>1 DEF QueueInv, SchedTypeOK, QueueAgrees
<1> QED BY <1>2, <1>3, <1>4 DEF QueueInv

LEMMA ThunkKeepsQueue ==
  ASSUME QueueInv, PspThreadEntryThunk
  PROVE  QueueInv'
<1>1. CASE currentThread = NoThread
  BY <1>1, QueueStays DEF PspThreadEntryThunk, queueVars
<1>2. CASE currentThread # NoThread
  <2>1. /\ thunkThread' = [thunkThread EXCEPT ![cpu] = currentThread]
        /\ UNCHANGED <<readied, runQueue, currentThread, context, cpu>>
        /\ \/ threadState' = threadState
           \/ threadState' = [threadState EXCEPT ![currentThread] = "Dead"]
    BY <1>2 DEF PspThreadEntryThunk
  <2>2. currentThread \in Threads /\ currentThread \in readied /\ cpu \in Streams
    BY <1>2 DEF QueueInv, SchedTypeOK, StatesAgree
  <2>3. /\ thunkThread' \in [Streams -> Threads \cup {NoThread}]
        /\ \A s \in Streams : thunkThread'[s] # NoThread => thunkThread'[s] \in readied
    BY <2>1, <2>2 DEF QueueInv, SchedTypeOK
  <2>4. CASE threadState' = threadState
    <3>1. SchedTypeOK'
      BY <2>1, <2>3, <2>4 DEF QueueInv, SchedTypeOK
    <3>2. StatesAgree' /\ QueueAgrees'
      BY <2>1, <2>4 DEF QueueInv, StatesAgree, QueueAgrees
    <3> QED BY <3>1, <3>2 DEF QueueInv
  <2>5. CASE threadState' = [threadState EXCEPT ![currentThread] = "Dead"]
    BY <2>1, <2>2, <2>3, <2>5, DeathKeepsQueue
  <2> QED BY <2>1, <2>4, <2>5
<1> QED BY <1>1, <1>2

LEMMA ReturnKeepsQueue ==
  ASSUME QueueInv, ThreadReturns
  PROVE  QueueInv'
<1>1. /\ threadState' = [threadState EXCEPT ![thunkThread[cpu]] = "Dead"]
      /\ UNCHANGED <<readied, runQueue, currentThread, context, cpu, thunkThread>>
  BY DEF ThreadReturns
<1>2. CASE thunkThread[cpu] = NoThread
  <2>1. threadState' = threadState
    BY <1>1, <1>2, ThreadFacts DEF QueueInv, SchedTypeOK
  <2> QED BY <1>1, <2>1, QueueStays DEF queueVars
<1>3. CASE thunkThread[cpu] # NoThread
  <2>1. thunkThread[cpu] \in readied
    BY <1>3 DEF QueueInv, SchedTypeOK
  <2> QED BY <1>1, <2>1, DeathKeepsQueue DEF QueueInv, SchedTypeOK
<1> QED BY <1>2, <1>3

(* Yields, preemption points and ticks only count and jump. *)
LEMMA CooperativeKeepsQueue ==
  ASSUME QueueInv, CooperativeNext
  PROVE  QueueInv'
<1>1. CASE PsCreateKernelThread \/ PsCreateUserThread
  BY <1>1, CreateKeepsQueue DEF PsCreateKernelThread, PsCreateUserThread
<1>2. ASSUME NEW t \in Threads, PsReadyThread(t) PROVE QueueInv'
  BY <1>2, ReadyKeepsQueue
<1>3. CASE PsYieldThread
  BY <1>3, QueueStays DEF PsYieldThread, queueVars
<1>4. CASE PsHandlePreemptionPoint
  BY <1>4, QueueStays DEF PsHandlePreemptionPoint, PsYieldThread, queueVars
<1>5. CASE PsDispatch
  BY <1>5, DispatchKeepsQueue
<1>6. CASE PsOnTimerTick
  BY <1>6, QueueStays DEF PsOnTimerTick, queueVars
<1>7. CASE PspThreadEntryThunk
  BY <1>7, ThunkKeepsQueue
<1>8. CASE ThreadReturns
  BY <1>8, ReturnKeepsQueue
<1> QED BY <1>1, <1>2, <1>3, <1>4, <1>5, <1>6, <1>7, <1>8 DEF CooperativeNext

LEMMA QueueInvStep == QueueInv /\ [SchedNext]_schedVars => QueueInv'
<1> SUFFICES ASSUME QueueInv, [SchedNext]_schedVars PROVE QueueInv'
  OBVIOUS
<1>1. CASE CooperativeNext
  BY <1>1, CooperativeKeepsQueue
<1>2. CASE PsExitCurrentThread
  BY <1>2, LeaveKeepsQueue DEF PsExitCurrentThread
<1>3. CASE PsBlockCurrentThread
  BY <1>3, LeaveKeepsQueue DEF PsBlockCurrentThread
<1>4. ASSUME NEW t \in Threads, PsWakeThread(t) PROVE QueueInv'
  BY <1>4, WakeKeepsQueue DEF PsWakeThread
<1>5. CASE UNCHANGED schedVars
  BY <1>5, QueueStays DEF schedVars, queueVars
<1> QED BY <1>1, <1>2, <1>3, <1>4, <1>5 DEF SchedNext

LEMMA QueueInvAlways == SchedSpec => []QueueInv
BY QueueInvInit, QueueInvStep, PTL DEF SchedSpec

LEMMA QueueInvImplies == QueueInv => ReadyThreadsQueued /\ QueuedNotRunning
<1> SUFFICES ASSUME QueueInv PROVE ReadyThreadsQueued /\ QueuedNotRunning
  OBVIOUS
<1>1. WellFormed(runQueue)
  BY SoundIsWellFormed DEF QueueInv, QueueAgrees
<1> QED BY <1>1 DEF QueueInv, QueueAgrees, StatesAgree, ReadyThreadsQueued, QueuedNotRunning

(* Whatever creates, yields, blocks, exits, wakes and ticks occur, the run *)
(* queue of kernel/ps/init.c stays a chain that ends in its tail and holds *)
(* every thread that was readied and is ready, for any size of the thread  *)
(* pool.                                                                   *)
THEOREM NoReadyThreadIsLost == SchedSpec => []ReadyThreadsQueued
BY QueueInvAlways, QueueInvImplies, PTL

(* No running or blocked thread is on the run queue and only the current   *)
(* thread is in the Running state, so PsDispatch never resumes a thread    *)
(* that still runs or still waits.                                         *)
THEOREM QueueHoldsOnlyWaiting == SchedSpec => []QueuedNotRunning
BY QueueInvAlways, QueueInvImplies, PTL

-----------------------------------------------------------------------------
(***************************************************************************)
(* The scheduler while no thread has blocked or exited.  That the running  *)
(* stream is the current thread's own, and that its thunk's local names    *)
(* that thread, is what makes a saved context resumable exactly once and   *)
(* a death final.                                                          *)
(***************************************************************************)
ResumesItself(t) == context[t] # Stale /\ Owner(context[t]) = t

Cooperating ==
  /\ machine = "up"
  /\ currentThread \in Threads /\ Owner(cpu) = currentThread
  /\ pc \in [Streams -> {"entry", "body", "dispatch", "dispatch_thunk"}]
  /\ startRoutine \in [Threads -> Routines]
  /\ pc[cpu] \in {"body", "dispatch"} => threadState[currentThread] = "Running"
  /\ \A t \in Members(runQueue) : threadState[t] = "Ready"
  /\ \A t \in Threads :
       /\ threadState[t] # "Blocked"
       /\ threadState[t] = "Ready" => ResumesItself(t)
       /\ threadState[t] = "Free" => pc[t] = "entry"
       /\ threadState[t] = "Dead" => startRoutine[t] = "none"
       /\ pc[t] # "entry" => thunkThread[t] = t /\ startRoutine[t] # "kernel"

CooperativeInv == ~forgotten => Cooperating

LEMMA CooperatingInit == PsInitialize => Cooperating
<1> SUFFICES ASSUME PsInitialize PROVE Cooperating
  OBVIOUS
<1>1. Members(runQueue) = {}
  BY EmptySound DEF PsInitialize
<1> QED BY <1>1, ThreadFacts DEF PsInitialize, Cooperating, ResumesItself, Owner, Streams, Routines

(* Steps that change none of the variables above but pc, and that leave    *)
(* the running stream where a running thread may be.                       *)
LEMMA JumpCooperates ==
  ASSUME QueueInv, Cooperating, NEW label, Goto(label), pc[cpu] # "entry",
         \/ label = "body" /\ pc[cpu] = "dispatch"
         \/ label = "dispatch" /\ pc[cpu] = "body"
         \/ label = "entry",
         UNCHANGED <<threadState, runQueue, currentThread, startRoutine, context, cpu,
                     thunkThread, machine>>
  PROVE  Cooperating'
<1>1. cpu \in Streams /\ pc' = [pc EXCEPT ![cpu] = label]
  BY DEF QueueInv, SchedTypeOK, Goto
<1>2. pc' \in [Streams -> {"entry", "body", "dispatch", "dispatch_thunk"}]
      /\ pc'[cpu] = label /\ \A s \in Streams : s # cpu => pc'[s] = pc[s]
  BY <1>1 DEF Cooperating
<1>3. \A t \in Threads : t \in Streams
  BY DEF Streams
<1>4. \A t \in Threads : pc'[t] # "entry" => pc[t] # "entry"
  BY <1>2, <1>3
<1>5. \A t \in Threads : pc[t] = "entry" => pc'[t] = "entry"
  BY <1>2, <1>3
<1>6. Members(runQueue') = Members(runQueue)
  OBVIOUS
<1>7. pc'[cpu'] \in {"body", "dispatch"} => threadState'[currentThread'] = "Running"
  BY <1>2 DEF Cooperating
<1> QED BY <1>2, <1>4, <1>5, <1>6, <1>7 DEF Cooperating, ResumesItself

LEMMA CooperatingStays ==
  ASSUME Cooperating,
         UNCHANGED <<threadState, runQueue, currentThread, startRoutine, context, cpu, pc,
                     thunkThread, machine>>
  PROVE  Cooperating'
BY DEF Cooperating, ResumesItself

LEMMA CreateCooperates ==
  ASSUME QueueInv, Cooperating, NEW routine \in Routines, CreateThread(routine)
  PROVE  Cooperating'
<1>1. PICK t \in Threads :
        /\ threadState[t] = "Free"
        /\ \/ /\ threadState' = [threadState EXCEPT ![t] = "Ready"]
              /\ startRoutine' = [startRoutine EXCEPT ![t] = routine]
              /\ context' = [context EXCEPT ![t] = t]
           \/ /\ threadState' = [threadState EXCEPT ![t] = "Leaked"]
              /\ UNCHANGED <<startRoutine, context>>
        /\ UNCHANGED <<readied, runQueue, currentThread, cpu, pc, thunkThread, machine>>
  BY DEF CreateThread
<1>2. t # currentThread /\ t \notin Members(runQueue) /\ pc[t] = "entry"
  BY <1>1 DEF QueueInv, StatesAgree, QueueAgrees, Cooperating
<1>3. /\ threadState \in [Threads -> ThreadStates]
      /\ context \in [Threads -> Streams \cup {Stale}]
      /\ startRoutine \in [Threads -> Routines]
      /\ Members(runQueue) \subseteq Threads
  BY SoundIsWellFormed DEF QueueInv, SchedTypeOK, QueueAgrees, Cooperating
<1>4. threadState'[t] = "Ready" => context'[t] = t /\ t # Stale /\ Owner(t) = t
  BY <1>1, <1>3, ThreadFacts DEF Owner, Streams
<1>5. ASSUME NEW u \in Threads, u # t
      PROVE  threadState'[u] = threadState[u] /\ context'[u] = context[u]
             /\ startRoutine'[u] = startRoutine[u]
  BY <1>1, <1>3, <1>5
<1>6. threadState'[t] \in {"Ready", "Leaked"}
  BY <1>1, <1>3
<1>7. startRoutine' \in [Threads -> Routines]
  BY <1>1, <1>3
<1>8. ASSUME NEW u \in Threads
      PROVE  /\ threadState'[u] # "Blocked"
             /\ threadState'[u] = "Ready" => context'[u] # Stale /\ Owner(context'[u]) = u
             /\ threadState'[u] = "Free" => pc[u] = "entry"
             /\ threadState'[u] = "Dead" => startRoutine'[u] = "none"
             /\ pc[u] # "entry" => thunkThread[u] = u /\ startRoutine'[u] # "kernel"
  <2>1. CASE u = t
    BY <2>1, <1>2, <1>4, <1>6
  <2>2. CASE u # t
    BY <2>2, <1>5 DEF Cooperating, ResumesItself
  <2> QED BY <2>1, <2>2
<1>9. threadState'[currentThread] = threadState[currentThread]
  BY <1>2, <1>5 DEF Cooperating
<1>10. Members(runQueue') = Members(runQueue)
       /\ \A u \in Members(runQueue) : threadState'[u] = "Ready"
  BY <1>1, <1>2, <1>3, <1>5 DEF Cooperating
<1> QED BY <1>1, <1>7, <1>8, <1>9, <1>10 DEF Cooperating, ResumesItself

LEMMA ReadyCooperates ==
  ASSUME QueueInv, Cooperating, NEW t \in Threads, PsReadyThread(t)
  PROVE  Cooperating'
<1>1. /\ threadState[t] = "Ready" /\ t \notin readied
      /\ runQueue' = PspRunQueuePush(runQueue, t)
      /\ UNCHANGED <<threadState, currentThread, startRoutine, context, cpu, pc,
                     thunkThread, machine>>
  BY DEF PsReadyThread
<1>2. Members(runQueue') = Members(runQueue) \cup {t}
  BY <1>1, PushAddsMember DEF QueueInv, QueueAgrees
<1> QED BY <1>1, <1>2 DEF Cooperating, ResumesItself

LEMMA YieldCooperates ==
  ASSUME QueueInv, Cooperating, PsYieldThread
  PROVE  Cooperating'
<1>1. pc[cpu] = "body" /\ currentThread # NoThread /\ threadState[currentThread] = "Running"
  BY ThreadFacts DEF PsYieldThread, At, Cooperating
<1>2. Goto("dispatch")
      /\ UNCHANGED <<threadState, runQueue, currentThread, startRoutine, context, cpu,
                     thunkThread, machine>>
  BY <1>1 DEF PsYieldThread
<1> QED BY <1>1, <1>2, JumpCooperates

LEMMA DispatchCooperates ==
  ASSUME QueueInv, Cooperating, PsDispatch
  PROVE  Cooperating'
<1>0. pc[cpu] \in {"dispatch", "dispatch_thunk"} /\ cpu \in Streams
  BY DEF PsDispatch, InDispatch, Cooperating, QueueInv, SchedTypeOK
<1>1. CASE runQueue.head = NoThread
  <2>1. UNCHANGED <<threadState, runQueue, currentThread, startRoutine, context, cpu,
                    thunkThread, machine>>
    BY <1>1 DEF PsDispatch
  <2>2. \/ pc[cpu] = "dispatch" /\ Goto("body")
        \/ pc[cpu] = "dispatch_thunk" /\ Goto("entry")
    BY <1>0 DEF PsDispatch, AfterDispatch
  <2> QED BY <2>1, <2>2, JumpCooperates
<1>2. CASE runQueue.head # NoThread
  <2> DEFINE next == runQueue.head
             prev == currentThread
             runs == prev # NoThread /\ threadState[prev] = "Running"
  <2>1. /\ next \in Members(runQueue) /\ next \in Threads /\ next # prev
        /\ currentThread' = next
        /\ Members(runQueue') = (Members(runQueue) \ {next}) \cup {t \in {prev} : runs}
        /\ \A t \in Threads : threadState'[t] = IF t = next THEN "Running"
                                                ELSE IF t = prev /\ runs THEN "Ready"
                                                ELSE threadState[t]
        /\ prev # NoThread => KiArchSwitchContext(prev, next)
        /\ UNCHANGED <<startRoutine, thunkThread>>
        /\ Goto(AfterDispatch(pc[cpu], TRUE))
    BY <1>2, DispatchEffect
  <2> HIDE DEF next
  <2>2. /\ prev \in Threads /\ prev # NoThread /\ Owner(cpu) = prev /\ machine = "up"
        /\ threadState[next] = "Ready" /\ context[next] # Stale /\ Owner(context[next]) = next
    BY <2>1, ThreadFacts DEF Cooperating, ResumesItself
  <2>3. /\ context' = [context EXCEPT ![prev] = cpu, ![next] = Stale]
        /\ cpu' = context[next] /\ machine' = "up"
    BY <2>1, <2>2 DEF KiArchSwitchContext
  <2>4. /\ context \in [Threads -> Streams \cup {Stale}] /\ Stale \notin Streams
        /\ cpu' \in Streams /\ Owner(cpu') = next
        /\ Members(runQueue) \subseteq Threads
    BY <2>1, <2>2, <2>3, ThreadFacts, SoundIsWellFormed DEF QueueInv, SchedTypeOK, QueueAgrees
  <2>5. context'[prev] = cpu /\ \A t \in Threads \ {prev, next} : context'[t] = context[t]
    BY <2>1, <2>2, <2>3, <2>4
  <2>6. /\ pc' = [pc EXCEPT ![cpu] = AfterDispatch(pc[cpu], TRUE)]
        /\ AfterDispatch(pc[cpu], TRUE) \in {"body", "entry"}
    BY <2>1, <1>0 DEF Goto, AfterDispatch
  <2>7. /\ pc' \in [Streams -> {"entry", "body", "dispatch", "dispatch_thunk"}]
        /\ \A s \in Streams : s # cpu => pc'[s] = pc[s]
        /\ pc'[cpu] # "entry" => pc[cpu] # "entry"
    BY <2>6, <1>0 DEF Cooperating
  <2>8. ASSUME NEW t \in Threads
        PROVE  /\ threadState'[t] # "Blocked"
               /\ threadState'[t] = "Ready" => context'[t] # Stale /\ Owner(context'[t]) = t
               /\ threadState'[t] = "Free" => pc'[t] = "entry"
               /\ threadState'[t] = "Dead" => startRoutine[t] = "none"
               /\ pc'[t] # "entry" => thunkThread[t] = t /\ startRoutine[t] # "kernel"
    <3>1. t \in Streams
      BY DEF Streams
    <3>2. pc'[t] # "entry" => pc[t] # "entry"
      BY <2>7, <3>1
    <3>3. threadState'[t] = "Free" => pc'[t] = "entry"
      <4>1. ASSUME threadState'[t] = "Free" PROVE t # next /\ t # prev /\ threadState[t] = "Free"
        BY <4>1, <2>1, <2>2 DEF QueueInv, StatesAgree
      <4>2. t # prev => t # cpu
        BY <2>2, <3>1, ThreadFacts DEF Owner
      <4> QED BY <4>1, <4>2, <2>7, <3>1 DEF Cooperating
    <3>4. threadState'[t] = "Ready" => context'[t] # Stale /\ Owner(context'[t]) = t
      <4>1. CASE t = next
        BY <4>1, <2>1
      <4>2. CASE t = prev
        BY <4>2, <2>2, <2>4, <2>5, <1>0
      <4>3. CASE t \notin {prev, next}
        BY <4>3, <2>1, <2>5 DEF Cooperating, ResumesItself
      <4> QED BY <4>1, <4>2, <4>3
    <3>5. threadState'[t] = "Dead" => threadState[t] = "Dead"
      BY <2>1
    <3>6. threadState'[t] # "Blocked"
      BY <2>1 DEF Cooperating
    <3> QED BY <3>2, <3>3, <3>4, <3>5, <3>6 DEF Cooperating
  <2>9. \A t \in Members(runQueue') : threadState'[t] = "Ready"
    BY <2>1, <2>2, <2>4 DEF Cooperating
  <2>10. threadState'[next] = "Running" /\ (startRoutine \in [Threads -> Routines])
    BY <2>1 DEF Cooperating
  <2> QED BY <2>1, <2>3, <2>4, <2>7, <2>8, <2>9, <2>10 DEF Cooperating, ResumesItself
<1> QED BY <1>1, <1>2

LEMMA ThunkCooperates ==
  ASSUME QueueInv, Cooperating, PspThreadEntryThunk
  PROVE  Cooperating'
<1> DEFINE c == currentThread
<1>1. /\ pc[cpu] = "entry" /\ cpu \in Streams /\ c \in Threads /\ c # NoThread
      /\ cpu \in Threads => cpu = c
      /\ threadState \in [Threads -> ThreadStates] /\ startRoutine \in [Threads -> Routines]
      /\ thunkThread \in [Streams -> Threads \cup {NoThread}]
      /\ c \notin Members(runQueue) /\ Members(runQueue) \subseteq Threads
  <2>1. cpu \in Threads => Owner(cpu) = cpu
    BY ThreadFacts DEF Owner
  <2>2. c \notin Members(runQueue) /\ Members(runQueue) \subseteq Threads
    BY SoundIsWellFormed DEF QueueInv, QueueAgrees
  <2> QED BY <2>1, <2>2, ThreadFacts
          DEF PspThreadEntryThunk, At, Cooperating, QueueInv, SchedTypeOK
<1>2. /\ thunkThread' = [thunkThread EXCEPT ![cpu] = c]
      /\ UNCHANGED <<machine, runQueue, currentThread, context, cpu>>
  BY <1>1 DEF PspThreadEntryThunk
<1>3. thunkThread'[cpu] = c /\ \A s \in Streams : s # cpu => thunkThread'[s] = thunkThread[s]
  BY <1>1, <1>2
<1>4. CASE startRoutine[c] # "none"
  <2>1. /\ \/ startRoutine[c] = "user" /\ startRoutine' = startRoutine
           \/ startRoutine' = [startRoutine EXCEPT ![c] = "none"]
        /\ pc' = [pc EXCEPT ![cpu] = "body"]
        /\ threadState' = threadState
    BY <1>1, <1>4 DEF PspThreadEntryThunk, Goto
  <2>2. /\ pc' \in [Streams -> {"entry", "body", "dispatch", "dispatch_thunk"}]
        /\ \A s \in Streams : s # cpu => pc'[s] = pc[s]
        /\ startRoutine' \in [Threads -> Routines] /\ startRoutine'[c] # "kernel"
        /\ \A t \in Threads : t # c => startRoutine'[t] = startRoutine[t]
    BY <2>1, <1>1 DEF Cooperating, Routines
  <2>3. threadState[c] = "Running"
    BY <1>1, <1>4 DEF Cooperating, QueueInv, StatesAgree
  <2>4. ASSUME NEW t \in Threads
        PROVE  /\ threadState[t] = "Free" => pc'[t] = "entry"
               /\ threadState[t] = "Dead" => startRoutine'[t] = "none"
               /\ pc'[t] # "entry" => thunkThread'[t] = t /\ startRoutine'[t] # "kernel"
    <3>1. t \in Streams
      BY DEF Streams
    <3>2. CASE t = c
      <4>1. t = cpu => thunkThread'[t] = t
        BY <3>2, <1>3
      <4>2. t # cpu => pc'[t] = pc[t] /\ thunkThread'[t] = thunkThread[t]
        BY <3>1, <1>3, <2>2
      <4> QED BY <3>2, <4>1, <4>2, <2>2, <2>3 DEF Cooperating
    <3>3. CASE t # c
      <4>1. t # cpu
        BY <3>3, <1>1
      <4> QED BY <3>1, <3>3, <4>1, <1>3, <2>2 DEF Cooperating
    <3> QED BY <3>2, <3>3
  <2> QED BY <1>2, <2>1, <2>2, <2>3, <2>4 DEF Cooperating, ResumesItself
<1>5. CASE startRoutine[c] = "none"
  <2>1. /\ threadState' = [threadState EXCEPT ![c] = "Dead"]
        /\ pc' = [pc EXCEPT ![cpu] = "dispatch_thunk"]
        /\ startRoutine' = startRoutine
    BY <1>1, <1>5 DEF PspThreadEntryThunk, Goto
  <2>2. /\ pc' \in [Streams -> {"entry", "body", "dispatch", "dispatch_thunk"}]
        /\ pc'[cpu] = "dispatch_thunk"
        /\ \A s \in Streams : s # cpu => pc'[s] = pc[s]
        /\ threadState'[c] = "Dead"
        /\ \A t \in Threads : t # c => threadState'[t] = threadState[t]
    BY <2>1, <1>1 DEF Cooperating
  <2>3. ASSUME NEW t \in Threads
        PROVE  /\ threadState'[t] # "Blocked"
               /\ threadState'[t] = "Ready" => ResumesItself(t)
               /\ threadState'[t] = "Free" => pc'[t] = "entry"
               /\ threadState'[t] = "Dead" => startRoutine[t] = "none"
               /\ pc'[t] # "entry" => thunkThread'[t] = t /\ startRoutine[t] # "kernel"
    <3>1. t \in Streams
      BY DEF Streams
    <3>2. CASE t = c
      <4>1. t = cpu => thunkThread'[t] = t
        BY <3>2, <1>3
      <4>2. t # cpu => pc'[t] = pc[t] /\ thunkThread'[t] = thunkThread[t]
        BY <3>1, <1>3, <2>2
      <4> QED BY <3>2, <4>1, <4>2, <2>2, <1>5 DEF Cooperating
    <3>3. CASE t # c
      <4>1. t # cpu
        BY <3>3, <1>1
      <4> QED BY <3>1, <3>3, <4>1, <1>3, <2>2 DEF Cooperating
    <3> QED BY <3>2, <3>3
  <2>4. \A t \in Members(runQueue') : threadState'[t] = "Ready"
    BY <1>1, <1>2, <2>2 DEF Cooperating
  <2> QED BY <1>2, <2>1, <2>2, <2>3, <2>4 DEF Cooperating, ResumesItself
<1> QED BY <1>4, <1>5

LEMMA ReturnCooperates ==
  ASSUME QueueInv, Cooperating, ThreadReturns
  PROVE  Cooperating'
<1> DEFINE c == currentThread
<1>1. /\ pc[cpu] = "body" /\ cpu \in Streams /\ c \in Threads
      /\ cpu = c /\ thunkThread[cpu] = c /\ startRoutine[c] = "none"
      /\ threadState \in [Threads -> ThreadStates]
      /\ c \notin Members(runQueue) /\ Members(runQueue) \subseteq Threads
  <2>1. /\ pc[cpu] = "body" /\ cpu \in Streams /\ c \in Threads /\ cpu = c
        /\ startRoutine[thunkThread[cpu]] # "user"
    BY DEF ThreadReturns, At, QueueInv, SchedTypeOK, Cooperating, Owner
  <2>2. c \notin Members(runQueue) /\ Members(runQueue) \subseteq Threads
    BY SoundIsWellFormed DEF QueueInv, QueueAgrees
  <2>3. thunkThread[cpu] = c /\ startRoutine[c] = "none"
    BY <2>1 DEF Cooperating, Routines
  <2> QED BY <2>1, <2>2, <2>3 DEF QueueInv, SchedTypeOK
<1>2. /\ threadState' = [threadState EXCEPT ![c] = "Dead"]
      /\ pc' = [pc EXCEPT ![cpu] = "dispatch_thunk"]
      /\ UNCHANGED <<runQueue, currentThread, startRoutine, context, cpu, thunkThread, machine>>
  BY <1>1 DEF ThreadReturns, Goto
<1>3. /\ pc' \in [Streams -> {"entry", "body", "dispatch", "dispatch_thunk"}]
      /\ pc'[cpu] = "dispatch_thunk"
      /\ \A s \in Streams : s # cpu => pc'[s] = pc[s]
      /\ threadState'[c] = "Dead"
      /\ \A t \in Threads : t # c => threadState'[t] = threadState[t]
  BY <1>1, <1>2 DEF Cooperating
<1>4. ASSUME NEW t \in Threads
      PROVE  /\ threadState'[t] # "Blocked"
             /\ threadState'[t] = "Ready" => ResumesItself(t)
             /\ threadState'[t] = "Free" => pc'[t] = "entry"
             /\ threadState'[t] = "Dead" => startRoutine[t] = "none"
             /\ pc'[t] # "entry" => thunkThread[t] = t /\ startRoutine[t] # "kernel"
  <2>1. t \in Streams
    BY DEF Streams
  <2> QED BY <2>1, <1>1, <1>3 DEF Cooperating
<1>5. \A t \in Members(runQueue') : threadState'[t] = "Ready"
  BY <1>1, <1>2, <1>3 DEF Cooperating
<1> QED BY <1>2, <1>3, <1>4, <1>5 DEF Cooperating, ResumesItself

LEMMA CooperativeInvStep ==
  QueueInv /\ CooperativeInv /\ [SchedNext]_schedVars => CooperativeInv'
<1> SUFFICES ASSUME QueueInv, CooperativeInv, [SchedNext]_schedVars, ~forgotten'
             PROVE  Cooperating'
  BY DEF CooperativeInv
<1>1. CASE UNCHANGED schedVars
  BY <1>1, CooperatingStays DEF schedVars, CooperativeInv
<1>2. CASE SchedNext
  <2>1. Cooperating /\ currentThread' # NoThread
    BY <1>2 DEF SchedNext, RecordForgetting, CooperativeInv
  <2>2. CASE PsCreateKernelThread \/ PsCreateUserThread
    BY <2>1, <2>2, CreateCooperates DEF PsCreateKernelThread, PsCreateUserThread, Routines
  <2>3. ASSUME NEW t \in Threads, PsReadyThread(t) PROVE Cooperating'
    BY <2>1, <2>3, ReadyCooperates
  <2>4. CASE PsYieldThread \/ PsHandlePreemptionPoint
    BY <2>1, <2>4, YieldCooperates DEF PsHandlePreemptionPoint
  <2>5. CASE PsDispatch
    BY <2>1, <2>5, DispatchCooperates
  <2>6. CASE PsOnTimerTick
    BY <2>1, <2>6, CooperatingStays DEF PsOnTimerTick
  <2>7. CASE PspThreadEntryThunk
    BY <2>1, <2>7, ThunkCooperates
  <2>8. CASE ThreadReturns
    BY <2>1, <2>8, ReturnCooperates
  <2>9. CASE PsExitCurrentThread \/ PsBlockCurrentThread
    BY <2>1, <2>9, ThreadFacts
       DEF PsExitCurrentThread, PsBlockCurrentThread, LeaveCurrent, Cooperating
  <2>10. ASSUME NEW t \in Threads, PsWakeThread(t) PROVE FALSE
    BY <2>1, <2>10 DEF PsWakeThread, WakeNeeded, Cooperating
  <2> QED BY <1>2, <2>2, <2>3, <2>4, <2>5, <2>6, <2>7, <2>8, <2>9, <2>10
          DEF SchedNext, CooperativeNext
<1> QED BY <1>1, <1>2

LEMMA CooperativeInvAlways == SchedSpec => [](QueueInv /\ CooperativeInv)
<1>1. PsInitialize => QueueInv /\ CooperativeInv
  BY QueueInvInit, CooperatingInit DEF CooperativeInv
<1> QED BY <1>1, QueueInvStep, CooperativeInvStep, PTL DEF SchedSpec

(* As long as no thread blocks or exits, the code the CPU executes is that *)
(* of the thread in gPsCurrentThread, through every switch of PsDispatch   *)
(* and KiArchSwitchContext.                                                *)
THEOREM CpuRunsCurrentThread == SchedSpec => []CpuIsCurrent
<1>1. CooperativeInv => CpuIsCurrent
  BY DEF CooperativeInv, Cooperating, CpuIsCurrent
<1> QED BY <1>1, CooperativeInvAlways, PTL

(* As long as no thread blocks or exits, each ready thread's saved context *)
(* is its own stream and has not been resumed since it was saved, so no    *)
(* switch corrupts the machine, and neither PspThreadEntryThunk nor the    *)
(* assertion of PsYieldThread halts it.                                    *)
THEOREM ContextsResumeTheirThread == SchedSpec => []ContextsAreOwn
<1>1. CooperativeInv => ContextsAreOwn
  BY DEF CooperativeInv, Cooperating, ResumesItself, ContextsAreOwn
<1> QED BY <1>1, CooperativeInvAlways, PTL

(* As long as no thread blocks or exits, a thread whose start routine has  *)
(* returned is never made ready or run again.                              *)
THEOREM DeathIsFinal == SchedSpec => DeadStaysDead
<1> DEFINE A == ~forgotten =>
                  \A t \in Threads : threadState[t] = "Dead" => threadState'[t] = "Dead"
<1>1. QueueInv /\ CooperativeInv /\ [SchedNext]_schedVars => [A]_schedVars
  <2> SUFFICES ASSUME QueueInv, CooperativeInv, SchedNext, ~forgotten,
                      NEW t \in Threads, threadState[t] = "Dead"
               PROVE  threadState'[t] = "Dead"
    OBVIOUS
  <2>1. Cooperating /\ threadState \in [Threads -> ThreadStates]
        /\ currentThread \in Threads /\ currentThread # NoThread
    BY ThreadFacts DEF CooperativeInv, Cooperating, QueueInv, SchedTypeOK
  <2>2. CASE PsCreateKernelThread \/ PsCreateUserThread
    BY <2>1, <2>2 DEF PsCreateKernelThread, PsCreateUserThread, CreateThread
  <2>3. CASE \/ \E u \in Threads : PsReadyThread(u)
             \/ PsYieldThread \/ PsHandlePreemptionPoint \/ PsOnTimerTick
    BY <2>3 DEF PsReadyThread, PsYieldThread, PsHandlePreemptionPoint, PsOnTimerTick
  <2>4. CASE PsDispatch
    <3>1. CASE runQueue.head = NoThread
      BY <2>4, <3>1 DEF PsDispatch
    <3>2. CASE runQueue.head # NoThread
      <4>1. /\ runQueue.head \in Members(runQueue)
            /\ threadState'[t] = IF t = runQueue.head THEN "Running"
                                 ELSE IF t = currentThread /\ threadState[t] = "Running" THEN "Ready"
                                 ELSE threadState[t]
        BY <2>1, <2>4, <3>2, DispatchEffect
      <4>2. t # runQueue.head
        BY <2>1, <4>1 DEF Cooperating
      <4> QED BY <4>1, <4>2
    <3> QED BY <3>1, <3>2
  <2>5. CASE PspThreadEntryThunk \/ ThreadReturns
    BY <2>1, <2>5 DEF PspThreadEntryThunk, ThreadReturns
  <2>6. CASE PsExitCurrentThread
    BY <2>1, <2>6 DEF PsExitCurrentThread, LeaveCurrent
  <2>7. CASE PsBlockCurrentThread
    <3>1. threadState[currentThread] = "Running"
      BY <2>1, <2>7 DEF PsBlockCurrentThread, At, Cooperating
    <3> QED BY <2>1, <2>7, <3>1 DEF PsBlockCurrentThread, LeaveCurrent
  <2>8. ASSUME NEW u \in Threads, PsWakeThread(u) PROVE threadState'[t] = "Dead"
    BY <2>1, <2>8 DEF PsWakeThread, WakeNeeded
  <2> QED BY <2>2, <2>3, <2>4, <2>5, <2>6, <2>7, <2>8 DEF SchedNext, CooperativeNext
<1> QED BY <1>1, CooperativeInvAlways, PTL DEF SchedSpec, DeadStaysDead

-----------------------------------------------------------------------------
(* The run queue.  Of the ports it matters only that whatever is linked in *)
(* a wait queue is a thread: PsWakeThread checks the thread's state.       *)
WaitersTyped ==
  /\ waitHead \in [Slots -> Threads \cup {NoThread}]
  /\ waitTail \in [Slots -> Threads \cup {NoThread}]
  /\ waitNext \in [Threads -> Threads \cup {NoThread}]
  /\ receiver \in [Streams -> Threads \cup {NoThread}]

(* A successful lookup finds a slot that is in use. *)
LEMMA LookupFindsSlot ==
  ASSUME NEW h, NEW right, Lookup(h, right) = "SUCCESS"
  PROVE  /\ PortOf(h) \in Slots /\ slotInUse[PortOf(h)] /\ slotHeader[PortOf(h)] = h
<1>1. LpcpFindPortByHeader(h) # {}
  BY DEF Lookup, LpcpReferencePortByHandle
<1>2. PortOf(h) \in LpcpFindPortByHeader(h)
  BY <1>1 DEF PortOf
<1> QED BY <1>2 DEF LpcpFindPortByHeader

(* The first free slot of gLpcPortPool. *)
LEMMA FirstFreeSlot ==
  ASSUME {p \in Slots : ~slotInUse[p]} # {}
  PROVE  LET free == {p \in Slots : ~slotInUse[p]}
             p    == CHOOSE f \in free : \A g \in free : f <= g
         IN  p \in Slots /\ ~slotInUse[p]
<1> DEFINE free == {p \in Slots : ~slotInUse[p]}
<1>1. free \subseteq Nat
  BY DEF Slots
<1>2. \E f \in free : \A g \in free : f <= g
  <2> HIDE DEF free
  <2> QED BY <1>1, LeastElement DEF free
<1> QED BY <1>2

(* Replacing one slot's wait queue by a typed one. *)
LEMMA SetWaitTyped ==
  ASSUME WaitersTyped, NEW p \in Slots, NEW q, SetWaitQueue(p, q),
         q.head \in Threads \cup {NoThread}, q.tail \in Threads \cup {NoThread},
         q.next \in [Threads -> Threads \cup {NoThread}], receiver' = receiver
  PROVE  WaitersTyped'
BY DEF WaitersTyped, SetWaitQueue

LEMMA EnqueueTyped ==
  ASSUME WaitersTyped, NEW p \in Slots, NEW t \in Threads \cup {NoThread}
  PROVE  LET q == LpcpEnqueueWaiter(WaitQueue(p), t)
         IN  /\ q.head \in Threads \cup {NoThread} /\ q.tail \in Threads \cup {NoThread}
             /\ q.next \in [Threads -> Threads \cup {NoThread}]
<1> DEFINE q == WaitQueue(p)
<1>1. /\ q.head = waitHead[p] /\ q.tail = waitTail[p] /\ q.next = waitNext
  BY DEF WaitQueue
<1>2. /\ q.head \in Threads \cup {NoThread} /\ q.tail \in Threads \cup {NoThread}
      /\ q.next \in [Threads -> Threads \cup {NoThread}]
  BY <1>1 DEF WaitersTyped
<1> HIDE DEF q
<1> QED BY <1>2 DEF LpcpEnqueueWaiter, PspRunQueuePush, q

LEMMA DequeueTyped ==
  ASSUME WaitersTyped, NEW p \in Slots, waitHead[p] # NoThread
  PROVE  LET q == LpcpDequeueWaiter(WaitQueue(p))
         IN  /\ q.head \in Threads \cup {NoThread} /\ q.tail \in Threads \cup {NoThread}
             /\ q.next \in [Threads -> Threads \cup {NoThread}]
<1> DEFINE q == WaitQueue(p)
<1>1. /\ q.head = waitHead[p] /\ q.tail = waitTail[p] /\ q.next = waitNext
  BY DEF WaitQueue
<1>2. /\ q.head \in Threads /\ q.tail \in Threads \cup {NoThread}
      /\ q.next \in [Threads -> Threads \cup {NoThread}]
  BY <1>1 DEF WaitersTyped
<1> HIDE DEF q
<1> QED BY <1>2 DEF LpcpDequeueWaiter, PspRunQueuePop, q

LEMMA EmptyTyped ==
  ASSUME WaitersTyped
  PROVE  LET q == EmptyQueue(waitNext)
         IN  /\ q.head \in Threads \cup {NoThread} /\ q.tail \in Threads \cup {NoThread}
             /\ q.next \in [Threads -> Threads \cup {NoThread}]
BY DEF WaitersTyped, EmptyQueue

RunInv == QueueInv /\ WaitersTyped

LEMMA RunInvInit == IpcInit => RunInv
<1> SUFFICES ASSUME IpcInit PROVE RunInv
  OBVIOUS
<1>1. QueueInv
  BY QueueInvInit DEF IpcInit
<1>2. WaitersTyped
  BY DEF IpcInit, LpcInitialize, WaitersTyped, NoLinks
<1> QED BY <1>1, <1>2 DEF RunInv

LEMMA CreateKeepsRun ==
  ASSUME RunInv, NEW rights, LpcCreatePortHandle(rights)
  PROVE  RunInv'
<1> DEFINE free == {p \in Slots : ~slotInUse[p]}
           p    == CHOOSE f \in free : \A g \in free : f <= g
<1>1. QueueInv'
  BY QueueStays DEF RunInv, LpcCreatePortHandle, schedVars, queueVars
<1>2. /\ receiver' = receiver
      /\ \/ UNCHANGED <<waitHead, waitTail, waitNext>>
         \/ free # {} /\ SetWaitQueue(p, EmptyQueue(waitNext))
  BY DEF LpcCreatePortHandle, callVars, portVars
<1>3. free # {} => p \in Slots
  BY FirstFreeSlot
<1> HIDE DEF p
<1>4. WaitersTyped'
  <2>1. CASE UNCHANGED <<waitHead, waitTail, waitNext>>
    BY <1>2, <2>1 DEF RunInv, WaitersTyped
  <2>2. CASE free # {} /\ SetWaitQueue(p, EmptyQueue(waitNext))
    BY <1>2, <1>3, <2>2, EmptyTyped, SetWaitTyped DEF RunInv
  <2> QED BY <1>2, <2>1, <2>2
<1> QED BY <1>1, <1>4 DEF RunInv

LEMMA SendKeepsRun ==
  ASSUME RunInv, NEW h \in Handles, LpcSendByHandle(h)
  PROVE  RunInv'
<1> DEFINE p == PortOf(h)
           w == waitHead[p]
<1>1. receiver' = receiver /\ UNCHANGED <<readied, currentThread, context, cpu, thunkThread>>
  BY DEF LpcSendByHandle, callVars
<1>2. \/ UNCHANGED <<waitHead, waitTail, waitNext, threadState, runQueue>>
      \/ /\ Lookup(h, "SEND") = "SUCCESS" /\ w # NoThread
         /\ SetWaitQueue(p, LpcpDequeueWaiter(WaitQueue(p)))
         /\ \/ /\ WakeNeeded(w)
               /\ threadState' = [threadState EXCEPT ![w] = "Ready"]
               /\ runQueue' = PspRunQueuePush(runQueue, w)
            \/ UNCHANGED <<threadState, runQueue>>
  BY DEF LpcSendByHandle
<1>3. CASE UNCHANGED <<waitHead, waitTail, waitNext, threadState, runQueue>>
  BY <1>1, <1>3, QueueStays DEF RunInv, WaitersTyped, queueVars
<1>4. CASE /\ Lookup(h, "SEND") = "SUCCESS" /\ w # NoThread
           /\ SetWaitQueue(p, LpcpDequeueWaiter(WaitQueue(p)))
           /\ \/ /\ WakeNeeded(w)
                 /\ threadState' = [threadState EXCEPT ![w] = "Ready"]
                 /\ runQueue' = PspRunQueuePush(runQueue, w)
              \/ UNCHANGED <<threadState, runQueue>>
  <2>1. p \in Slots
    BY <1>4, LookupFindsSlot
  <2>2. w \in Threads
    BY <1>4, <2>1 DEF RunInv, WaitersTyped
  <2> HIDE DEF p
  <2>3. WaitersTyped'
    BY <1>1, <1>4, <2>1, DequeueTyped, SetWaitTyped DEF RunInv
  <2>4. QueueInv'
    <3>1. CASE UNCHANGED <<threadState, runQueue>>
      BY <1>1, <3>1, QueueStays DEF RunInv, queueVars
    <3>2. CASE /\ WakeNeeded(w)
               /\ threadState' = [threadState EXCEPT ![w] = "Ready"]
               /\ runQueue' = PspRunQueuePush(runQueue, w)
      <4> HIDE DEF w
      <4> QED BY <1>1, <2>2, <3>2, WakeKeepsQueue DEF RunInv
    <3> QED BY <1>4, <3>1, <3>2
  <2> QED BY <2>3, <2>4 DEF RunInv
<1> QED BY <1>2, <1>3, <1>4

LEMMA ReceiveTurnKeepsRun ==
  ASSUME RunInv, NEW h, NEW current \in Threads \cup {NoThread}, NEW wait,
         ReceiveTurn(h, current, wait),
         receiver' \in [Streams -> Threads \cup {NoThread}]
  PROVE  RunInv'
<1> DEFINE p == PortOf(h)
<1>1. \/ UNCHANGED <<waitHead, waitTail, waitNext, queueVars>>
      \/ /\ Lookup(h, "RECV") = "SUCCESS"
         /\ SetWaitQueue(p, LpcpEnqueueWaiter(WaitQueue(p), current))
         /\ LeaveCurrent("Blocked", "dispatch_block")
  BY DEF ReceiveTurn, queueVars
<1>2. CASE UNCHANGED <<waitHead, waitTail, waitNext, queueVars>>
  BY <1>2, QueueStays DEF RunInv, WaitersTyped
<1>3. CASE /\ Lookup(h, "RECV") = "SUCCESS"
           /\ SetWaitQueue(p, LpcpEnqueueWaiter(WaitQueue(p), current))
           /\ LeaveCurrent("Blocked", "dispatch_block")
  <2>1. p \in Slots
    BY <1>3, LookupFindsSlot
  <2> HIDE DEF p
  <2>2. WaitersTyped'
    <3> DEFINE q == LpcpEnqueueWaiter(WaitQueue(p), current)
    <3>1. /\ q.head \in Threads \cup {NoThread} /\ q.tail \in Threads \cup {NoThread}
          /\ q.next \in [Threads -> Threads \cup {NoThread}]
      BY <2>1, EnqueueTyped DEF RunInv
    <3> HIDE DEF q
    <3> QED BY <1>3, <2>1, <3>1 DEF RunInv, WaitersTyped, SetWaitQueue, q
  <2>3. QueueInv'
    BY <1>3, LeaveKeepsQueue DEF RunInv
  <2> QED BY <2>2, <2>3 DEF RunInv
<1> QED BY <1>1, <1>2, <1>3

LEMMA RunInvStep == RunInv /\ [IpcNext]_ipcVars => RunInv'
<1> SUFFICES ASSUME RunInv, [IpcNext]_ipcVars PROVE RunInv'
  OBVIOUS
<1>1. CASE Scheduling(CooperativeNext)
  BY <1>1, CooperativeKeepsQueue
     DEF Scheduling, RunInv, WaitersTyped, portVars, callVars
<1>2. CASE Scheduling(PsExitCurrentThread)
  BY <1>2, LeaveKeepsQueue
     DEF Scheduling, PsExitCurrentThread, RunInv, WaitersTyped, portVars, callVars
<1>3. CASE ReceiveAgain
  <2>1. receiver[cpu] \in Threads \cup {NoThread} /\ receiver' = receiver
    BY <1>3 DEF ReceiveAgain, callVars, RunInv, WaitersTyped, QueueInv, SchedTypeOK
  <2>2. receiver' \in [Streams -> Threads \cup {NoThread}]
    BY <2>1 DEF RunInv, WaitersTyped
  <2> QED BY <1>3, <2>1, <2>2, ReceiveTurnKeepsRun DEF ReceiveAgain
<1>4. ASSUME NEW rights \in (SUBSET Rights) \ {{}}, LpcCreatePortHandle(rights) PROVE RunInv'
  BY <1>4, CreateKeepsRun
<1>5. ASSUME NEW h \in Handles, LpcSendByHandle(h) PROVE RunInv'
  BY <1>5, SendKeepsRun
<1>6. ASSUME NEW h \in Handles, NEW wait \in BOOLEAN, LpcReceiveByHandle(h, wait) PROVE RunInv'
  <2>1. CASE currentThread = NoThread
    BY <1>6, <2>1, QueueStays
       DEF LpcReceiveByHandle, schedVars, queueVars, portVars, callVars, RunInv, WaitersTyped
  <2>2. CASE currentThread # NoThread
    <3>1. /\ ReceiveTurn(h, currentThread, wait)
          /\ receiver' = [receiver EXCEPT ![cpu] = currentThread]
          /\ currentThread \in Threads \cup {NoThread}
      BY <1>6, <2>2 DEF LpcReceiveByHandle, RunInv, QueueInv, SchedTypeOK
    <3>2. receiver' \in [Streams -> Threads \cup {NoThread}]
      BY <3>1 DEF RunInv, WaitersTyped
    <3> QED BY <3>1, <3>2, ReceiveTurnKeepsRun
  <2> QED BY <2>1, <2>2
<1>7. ASSUME NEW h \in Handles, LpcCloseHandle(h) PROVE RunInv'
  <2>1. QueueInv'
    BY <1>7, QueueStays DEF LpcCloseHandle, schedVars, queueVars, RunInv
  <2>2. WaitersTyped'
    BY <1>7 DEF LpcCloseHandle, LpcpDeletePortObject, callVars, RunInv, WaitersTyped
  <2> QED BY <2>1, <2>2 DEF RunInv
<1>8. CASE UNCHANGED ipcVars
  BY <1>8, QueueStays
     DEF ipcVars, schedVars, queueVars, portVars, callVars, RunInv, WaitersTyped
<1> QED BY <1>1, <1>2, <1>3, <1>4, <1>5, <1>6, <1>7, <1>8 DEF IpcNext

(* Senders and receivers that block, wake and close ports in any order     *)
(* keep the run queue whole, although LpcpDeletePortObject leaves stale    *)
(* waiter links behind and LpcReceiveByHandle queues the thread that made  *)
(* the call, not the one that runs: PsWakeThread's check of the state is   *)
(* enough.                                                                 *)
THEOREM RunQueueSurvivesPorts == IpcSpec => []RunQueueSound
<1>1. RunInv => RunQueueSound
  BY QueueInvImplies DEF RunInv, RunQueueSound
<1> QED BY <1>1, RunInvInit, RunInvStep, PTL DEF IpcSpec

-----------------------------------------------------------------------------
(* The port slots.  HandlesHaveSlots needs besides itself that no handle   *)
(* beyond the newest one is open, or a new port could take a handle whose  *)
(* slot is still there.                                                    *)
SlotsTyped ==
  /\ slotInUse \in [Slots -> BOOLEAN]
  /\ slotHeader \in [Slots -> Handles \cup {NoHandle}]
  /\ access \in [Handles -> SUBSET Rights]
  /\ lastHandle \in 0 .. MaxCreates
  /\ waitHead \in [Slots -> Threads \cup {NoThread}]
  /\ waitTail \in [Slots -> Threads \cup {NoThread}]

SlotOwned ==
  /\ \A h \in Handles : access[h] # {} => \E p \in Slots : slotInUse[p] /\ slotHeader[p] = h
  /\ \A p, q \in Slots :
       slotInUse[p] /\ slotInUse[q] /\ slotHeader[p] = slotHeader[q] /\ slotHeader[p] # NoHandle
         => p = q
  /\ \A p \in Slots : slotInUse[p] /\ slotHeader[p] # NoHandle => access[slotHeader[p]] # {}
  /\ \A h \in Handles : h > lastHandle => access[h] = {}

FreeSlotsEmpty ==
  \A p \in Slots : ~slotInUse[p] => waitHead[p] = NoThread /\ waitTail[p] = NoThread

SlotInv == SlotsTyped /\ SlotOwned /\ FreeSlotsEmpty

(* The variables SlotInv speaks of, besides the wait queues. *)
slotVars == <<slotInUse, slotHeader, access, lastHandle>>

LEMMA HandleFacts ==
  /\ MaxCreates \in Nat /\ MaxSends \in Nat /\ Handles \subseteq Nat
  /\ NoHandle \notin Handles /\ \A h \in Handles : h > NoHandle
BY IpcConstants DEF Handles, NoHandle

LEMMA SlotInvInit == IpcInit => SlotInv
<1> SUFFICES ASSUME IpcInit PROVE SlotInv
  OBVIOUS
<1>1. SlotsTyped
  BY HandleFacts DEF IpcInit, LpcInitialize, SlotsTyped, NoHandle
<1>2. SlotOwned /\ FreeSlotsEmpty
  BY DEF IpcInit, LpcInitialize, SlotOwned, FreeSlotsEmpty
<1> QED BY <1>1, <1>2 DEF SlotInv

(* The wait queue of a port in use changes, or none does. *)
LEMMA WaitingKeepsSlots ==
  ASSUME SlotInv, WaitersTyped', UNCHANGED slotVars,
         \/ UNCHANGED <<waitHead, waitTail>>
         \/ \E p \in Slots : \E q : slotInUse[p] /\ SetWaitQueue(p, q)
  PROVE  SlotInv'
<1>1. SlotsTyped'
  BY DEF SlotInv, SlotsTyped, slotVars, WaitersTyped
<1>2. SlotOwned'
  BY DEF SlotInv, SlotOwned, slotVars
<1>3. FreeSlotsEmpty'
  BY DEF SlotInv, SlotsTyped, FreeSlotsEmpty, slotVars, SetWaitQueue
<1> QED BY <1>1, <1>2, <1>3 DEF SlotInv

(* LpcCreatePortHandle in terms of the slot it takes. *)
LEMMA CreateEffect ==
  ASSUME slotInUse \in [Slots -> BOOLEAN], NEW rights, LpcCreatePortHandle(rights)
  PROVE  \/ UNCHANGED <<slotVars, waitHead, waitTail, queue, sent, received>>
         \/ \E p \in Slots, used \in BOOLEAN, header \in {NoHandle, lastHandle + 1} :
              /\ ~slotInUse[p]
              /\ slotInUse' = [slotInUse EXCEPT ![p] = used]
              /\ slotHeader' = [slotHeader EXCEPT ![p] = header]
              /\ waitHead' = [waitHead EXCEPT ![p] = NoThread]
              /\ waitTail' = [waitTail EXCEPT ![p] = NoThread]
              /\ UNCHANGED <<sent, received>>
              /\ \/ header = NoHandle /\ UNCHANGED <<access, lastHandle>>
                    /\ (queue' = queue \/ queue' = [queue EXCEPT ![p] = <<>>])
                 \/ /\ used /\ header = lastHandle + 1 /\ lastHandle < MaxCreates
                    /\ lastHandle' = header
                    /\ access' = [access EXCEPT ![header] = rights]
                    /\ queue' = [queue EXCEPT ![p] = <<>>]
<1> DEFINE free == {q \in Slots : ~slotInUse[q]}
           p    == CHOOSE f \in free : \A g \in free : f <= g
<1>1. UNCHANGED <<sent, received>>
  BY DEF LpcCreatePortHandle, ghosts
<1>2. CASE UNCHANGED portVars
  BY <1>1, <1>2 DEF portVars, slotVars
<1>3. CASE ~ UNCHANGED portVars
  <2>1. free # {}
    BY <1>3 DEF LpcCreatePortHandle
  <2>2. p \in Slots /\ ~slotInUse[p]
    BY <2>1, FirstFreeSlot
  <2>3. \/ /\ slotInUse' = [slotInUse EXCEPT ![p] = TRUE]
           /\ slotHeader' = [slotHeader EXCEPT ![p] = NoHandle]
           /\ SetWaitQueue(p, EmptyQueue(waitNext))
           /\ UNCHANGED <<queue, access, lastHandle>>
        \/ /\ slotInUse' = slotInUse
           /\ slotHeader' = [slotHeader EXCEPT ![p] = NoHandle]
           /\ queue' = NkPortInitialize(p)
           /\ SetWaitQueue(p, EmptyQueue(waitNext))
           /\ UNCHANGED <<access, lastHandle>>
        \/ /\ lastHandle < MaxCreates
           /\ lastHandle' = lastHandle + 1
           /\ slotInUse' = [slotInUse EXCEPT ![p] = TRUE]
           /\ slotHeader' = [slotHeader EXCEPT ![p] = lastHandle + 1]
           /\ queue' = NkPortInitialize(p)
           /\ SetWaitQueue(p, EmptyQueue(waitNext))
           /\ access' = [access EXCEPT ![lastHandle + 1] = rights]
    BY <1>3 DEF LpcCreatePortHandle
  <2> HIDE DEF p
  <2>4. SetWaitQueue(p, EmptyQueue(waitNext)) =>
          /\ waitHead' = [waitHead EXCEPT ![p] = NoThread]
          /\ waitTail' = [waitTail EXCEPT ![p] = NoThread]
    BY DEF SetWaitQueue, EmptyQueue
  <2>5. CASE /\ slotInUse' = slotInUse
             /\ slotHeader' = [slotHeader EXCEPT ![p] = NoHandle]
             /\ queue' = NkPortInitialize(p)
             /\ SetWaitQueue(p, EmptyQueue(waitNext))
             /\ UNCHANGED <<access, lastHandle>>
    <3>1. slotInUse' = [slotInUse EXCEPT ![p] = FALSE]
      BY <2>2, <2>5
    <3> QED BY <1>1, <2>2, <2>4, <2>5, <3>1 DEF NkPortInitialize
  <2> QED BY <1>1, <2>2, <2>3, <2>4, <2>5 DEF NkPortInitialize
<1> QED BY <1>2, <1>3

LEMMA CreateKeepsSlots ==
  ASSUME SlotInv, NEW rights \in (SUBSET Rights) \ {{}}, LpcCreatePortHandle(rights)
  PROVE  SlotInv'
<1>1. CASE UNCHANGED <<slotVars, waitHead, waitTail>>
  BY <1>1 DEF SlotInv, SlotsTyped, SlotOwned, FreeSlotsEmpty, slotVars
<1>2. ASSUME NEW p \in Slots, NEW used \in BOOLEAN, NEW header \in {NoHandle, lastHandle + 1},
             ~slotInUse[p],
             slotInUse' = [slotInUse EXCEPT ![p] = used],
             slotHeader' = [slotHeader EXCEPT ![p] = header],
             waitHead' = [waitHead EXCEPT ![p] = NoThread],
             waitTail' = [waitTail EXCEPT ![p] = NoThread],
             \/ header = NoHandle /\ UNCHANGED <<access, lastHandle>>
             \/ /\ used /\ header = lastHandle + 1 /\ lastHandle < MaxCreates
                /\ lastHandle' = header
                /\ access' = [access EXCEPT ![header] = rights]
      PROVE  SlotInv'
  <2>1. lastHandle \in 0 .. MaxCreates /\ (lastHandle < MaxCreates => lastHandle + 1 \in Handles)
        /\ (lastHandle + 1 > lastHandle)
    BY HandleFacts DEF SlotInv, SlotsTyped, Handles
  <2>2. SlotsTyped'
    <3>1. header \in Handles \cup {NoHandle}
      BY <1>2, <2>1
    <3>2. access' \in [Handles -> SUBSET Rights]
      BY <1>2 DEF SlotInv, SlotsTyped
    <3>3. lastHandle' \in 0 .. MaxCreates
      BY <1>2, <2>1, HandleFacts DEF Handles
    <3> QED BY <1>2, <3>1, <3>2, <3>3 DEF SlotInv, SlotsTyped
  <2>3. \A q \in Slots : q # p => slotInUse'[q] = slotInUse[q] /\ slotHeader'[q] = slotHeader[q]
                                  /\ waitHead'[q] = waitHead[q] /\ waitTail'[q] = waitTail[q]
    BY <1>2 DEF SlotInv, SlotsTyped
  <2>4. slotInUse'[p] = used /\ slotHeader'[p] = header
        /\ waitHead'[p] = NoThread /\ waitTail'[p] = NoThread
    BY <1>2 DEF SlotInv, SlotsTyped
  <2>5. FreeSlotsEmpty'
    BY <2>3, <2>4 DEF SlotInv, FreeSlotsEmpty
  <2>6. CASE header = NoHandle /\ UNCHANGED <<access, lastHandle>>
    <3>1. ASSUME NEW h \in Handles, access[h] # {}
          PROVE  \E q \in Slots : slotInUse'[q] /\ slotHeader'[q] = h
      BY <3>1, <1>2, <2>3 DEF SlotInv, SlotOwned
    <3>2. SlotOwned'
      BY <2>3, <2>4, <2>6, <3>1 DEF SlotInv, SlotOwned
    <3> QED BY <2>2, <2>5, <3>2 DEF SlotInv
  <2>7. CASE /\ used /\ header = lastHandle + 1 /\ lastHandle < MaxCreates
             /\ lastHandle' = header
             /\ access' = [access EXCEPT ![header] = rights]
    <3>1. header \in Handles /\ access[header] = {} /\ header # NoHandle
      BY <2>1, <2>7, HandleFacts DEF SlotInv, SlotOwned
    <3>2. \A q \in Slots : slotInUse[q] => slotHeader[q] # header
      BY <3>1 DEF SlotInv, SlotOwned
    <3>3. access'[header] = rights /\ \A h \in Handles : h # header => access'[h] = access[h]
      BY <2>7, <3>1 DEF SlotInv, SlotsTyped
    <3>4. ASSUME NEW h \in Handles, access'[h] # {}
          PROVE  \E q \in Slots : slotInUse'[q] /\ slotHeader'[q] = h
      <4>1. CASE h = header
        BY <4>1, <2>4, <2>7
      <4>2. CASE h # header
        BY <4>2, <3>3, <3>4, <1>2, <2>3 DEF SlotInv, SlotOwned
      <4> QED BY <4>1, <4>2
    <3>5. ASSUME NEW a \in Slots, NEW b \in Slots, slotInUse'[a], slotInUse'[b],
                 slotHeader'[a] = slotHeader'[b], slotHeader'[a] # NoHandle
          PROVE  a = b
      BY <3>5, <2>3, <2>4, <3>2 DEF SlotInv, SlotOwned
    <3>6. ASSUME NEW q \in Slots, slotInUse'[q], slotHeader'[q] # NoHandle
          PROVE  access'[slotHeader'[q]] # {}
      <4>1. CASE q = p
        BY <4>1, <2>4, <3>3
      <4>2. CASE q # p
        <5>1. slotInUse[q] /\ slotHeader'[q] = slotHeader[q] /\ slotHeader[q] \in Handles
              /\ slotHeader[q] # header
          BY <4>2, <2>3, <3>2, <3>6 DEF SlotInv, SlotsTyped
        <5> QED BY <5>1, <3>3, <3>6 DEF SlotInv, SlotOwned
      <4> QED BY <4>1, <4>2
    <3>7. ASSUME NEW h \in Handles, h > lastHandle' PROVE access'[h] = {}
      <4>1. h \in Nat /\ lastHandle \in Nat /\ h > lastHandle /\ h # header
        BY <2>1, <2>7, <3>7, HandleFacts
      <4> QED BY <4>1, <3>3 DEF SlotInv, SlotOwned
    <3>8. SlotOwned'
      BY <3>4, <3>5, <3>6, <3>7 DEF SlotOwned
    <3> QED BY <2>2, <2>5, <3>8 DEF SlotInv
  <2> QED BY <1>2, <2>6, <2>7
<1>3. slotInUse \in [Slots -> BOOLEAN]
  BY DEF SlotInv, SlotsTyped
<1> QED BY <1>1, <1>2, <1>3, CreateEffect

LEMMA CloseKeepsSlots ==
  ASSUME SlotInv, NEW h \in Handles, LpcCloseHandle(h)
  PROVE  SlotInv'
<1>1. CASE access[h] = {}
  BY <1>1 DEF LpcCloseHandle, SlotInv, SlotsTyped, SlotOwned, FreeSlotsEmpty
<1>2. CASE access[h] # {}
  <2> DEFINE gone == LpcpFindPortByHeader(h)
  <2>1. /\ slotInUse' = [p \in Slots |-> slotInUse[p] /\ p \notin gone]
        /\ slotHeader' = [p \in Slots |-> IF p \in gone THEN NoHandle ELSE slotHeader[p]]
        /\ waitHead' = [p \in Slots |-> IF p \in gone THEN NoThread ELSE waitHead[p]]
        /\ waitTail' = [p \in Slots |-> IF p \in gone THEN NoThread ELSE waitTail[p]]
        /\ access' = [access EXCEPT ![h] = {}] /\ lastHandle' = lastHandle
    BY <1>2 DEF LpcCloseHandle, LpcpDeletePortObject
  <2>2. \A p \in Slots : p \in gone <=> slotInUse[p] /\ slotHeader[p] = h
    BY DEF LpcpFindPortByHeader
  <2> HIDE DEF gone
  <2>3. SlotsTyped'
    BY <2>1 DEF SlotInv, SlotsTyped
  <2>4. FreeSlotsEmpty'
    BY <2>1, <2>2 DEF SlotInv, FreeSlotsEmpty
  <2>5. access'[h] = {} /\ \A g \in Handles : g # h => access'[g] = access[g]
    BY <2>1 DEF SlotInv, SlotsTyped
  <2>6. \A p \in Slots : /\ slotInUse'[p] <=> slotInUse[p] /\ slotHeader[p] # h
                         /\ slotInUse'[p] => slotHeader'[p] = slotHeader[p]
    BY <2>1, <2>2 DEF SlotInv, SlotsTyped
  <2>7. ASSUME NEW g \in Handles, access'[g] # {}
        PROVE  \E p \in Slots : slotInUse'[p] /\ slotHeader'[p] = g
    <3>1. g # h /\ access[g] # {}
      BY <2>5, <2>7
    <3>2. PICK p \in Slots : slotInUse[p] /\ slotHeader[p] = g
      BY <3>1 DEF SlotInv, SlotOwned
    <3> QED BY <3>1, <3>2, <2>6
  <2>8. ASSUME NEW p \in Slots, slotInUse'[p], slotHeader'[p] # NoHandle
        PROVE  access'[slotHeader'[p]] # {}
    <3>1. slotInUse[p] /\ slotHeader'[p] = slotHeader[p] /\ slotHeader[p] # h
          /\ slotHeader[p] \in Handles
      BY <2>6, <2>8 DEF SlotInv, SlotsTyped
    <3> QED BY <3>1, <2>5, <2>8 DEF SlotInv, SlotOwned
  <2>9. ASSUME NEW p \in Slots, NEW q \in Slots, slotInUse'[p], slotInUse'[q],
               slotHeader'[p] = slotHeader'[q], slotHeader'[p] # NoHandle
        PROVE  p = q
    BY <2>6, <2>9 DEF SlotInv, SlotOwned
  <2>10. \A g \in Handles : g > lastHandle' => access'[g] = {}
    BY <2>1, <2>5 DEF SlotInv, SlotOwned
  <2>11. SlotOwned'
    BY <2>7, <2>8, <2>9, <2>10 DEF SlotOwned
  <2> QED BY <2>3, <2>4, <2>11 DEF SlotInv
<1> QED BY <1>1, <1>2

LEMMA SlotInvStep == RunInv /\ SlotInv /\ [IpcNext]_ipcVars => SlotInv'
<1> SUFFICES ASSUME RunInv, SlotInv, [IpcNext]_ipcVars PROVE SlotInv'
  OBVIOUS
<1>0. WaitersTyped'
  BY RunInvStep DEF RunInv
<1>1. CASE Scheduling(CooperativeNext) \/ Scheduling(PsExitCurrentThread) \/ UNCHANGED ipcVars
  BY <1>0, <1>1, WaitingKeepsSlots DEF Scheduling, ipcVars, portVars, slotVars
<1>2. ASSUME NEW h, NEW current, NEW wait, ReceiveTurn(h, current, wait) PROVE SlotInv'
  <2>1. /\ UNCHANGED slotVars
        /\ \/ UNCHANGED <<waitHead, waitTail>>
           \/ /\ Lookup(h, "RECV") = "SUCCESS"
              /\ SetWaitQueue(PortOf(h), LpcpEnqueueWaiter(WaitQueue(PortOf(h)), current))
    BY <1>2 DEF ReceiveTurn, slotVars
  <2>2. Lookup(h, "RECV") = "SUCCESS" => PortOf(h) \in Slots /\ slotInUse[PortOf(h)]
    BY LookupFindsSlot
  <2> QED BY <1>0, <2>1, <2>2, WaitingKeepsSlots
<1>3. CASE ReceiveAgain
  BY <1>2, <1>3 DEF ReceiveAgain
<1>4. ASSUME NEW rights \in (SUBSET Rights) \ {{}}, LpcCreatePortHandle(rights) PROVE SlotInv'
  BY <1>4, CreateKeepsSlots
<1>5. ASSUME NEW h \in Handles, LpcSendByHandle(h) PROVE SlotInv'
  <2>1. /\ UNCHANGED slotVars
        /\ \/ UNCHANGED <<waitHead, waitTail>>
           \/ /\ Lookup(h, "SEND") = "SUCCESS"
              /\ SetWaitQueue(PortOf(h), LpcpDequeueWaiter(WaitQueue(PortOf(h))))
    BY <1>5 DEF LpcSendByHandle, slotVars
  <2>2. Lookup(h, "SEND") = "SUCCESS" => PortOf(h) \in Slots /\ slotInUse[PortOf(h)]
    BY LookupFindsSlot
  <2> QED BY <1>0, <2>1, <2>2, WaitingKeepsSlots
<1>6. ASSUME NEW h \in Handles, NEW wait \in BOOLEAN, LpcReceiveByHandle(h, wait) PROVE SlotInv'
  <2>1. CASE UNCHANGED portVars
    BY <1>0, <2>1, WaitingKeepsSlots DEF portVars, slotVars
  <2>2. CASE ReceiveTurn(h, currentThread, wait)
    BY <1>2, <2>2
  <2> QED BY <1>6, <2>1, <2>2 DEF LpcReceiveByHandle
<1>7. ASSUME NEW h \in Handles, LpcCloseHandle(h) PROVE SlotInv'
  BY <1>7, CloseKeepsSlots
<1> QED BY <1>1, <1>3, <1>4, <1>5, <1>6, <1>7 DEF IpcNext

(* An open handle has exactly one slot. *)
LEMMA OneSlotPerHandle ==
  ASSUME SlotInv, NEW h \in Handles, access[h] # {}
  PROVE  \E p \in Slots : LpcpFindPortByHeader(h) = {p}
<1>1. PICK p \in Slots : slotInUse[p] /\ slotHeader[p] = h
  BY DEF SlotInv, SlotOwned
<1>2. h # NoHandle
  BY HandleFacts
<1> QED BY <1>1, <1>2 DEF LpcpFindPortByHeader, SlotInv, SlotOwned

(* Through failed and successful creations, closes and the reuse of slots, *)
(* LpcpFindPortByHeader stays unambiguous: an open handle has exactly one  *)
(* slot, a slot with a header belongs to an open handle, and a free slot   *)
(* has no waiters.                                                         *)
THEOREM EachHandleHasOneSlot == IpcSpec => []HandlesHaveSlots
<1>1. SlotInv => HandlesHaveSlots
  <2> SUFFICES ASSUME SlotInv PROVE HandlesHaveSlots
    OBVIOUS
  <2>1. ASSUME NEW h \in Handles, access[h] # {}
        PROVE  Cardinality(LpcpFindPortByHeader(h)) = 1
    BY <2>1, OneSlotPerHandle, FS_Singleton
  <2> QED BY <2>1 DEF HandlesHaveSlots, SlotInv, SlotOwned, FreeSlotsEmpty
<1>2. IpcInit => RunInv /\ SlotInv
  BY RunInvInit, SlotInvInit
<1>3. RunInv /\ SlotInv /\ [IpcNext]_ipcVars => (RunInv /\ SlotInv)'
  BY RunInvStep, SlotInvStep
<1> QED BY <1>1, <1>2, <1>3, PTL DEF IpcSpec

-----------------------------------------------------------------------------
(* Delivery.  What was sent through a handle is what was received through  *)
(* it, then what its slot holds; of a closed handle, some rest is lost.    *)
InOrder(h) ==
  \E rest \in Seq(Messages) :
    /\ sent[h] = received[h] \o rest
    /\ \A p \in Slots : slotInUse[p] /\ slotHeader[p] = h => queue[p] = rest

OrderInv ==
  /\ queue \in [Slots -> Seq(Messages)]
  /\ sent \in [Handles -> Seq(Messages)]
  /\ received \in [Handles -> Seq(Messages)]
  /\ \A h \in Handles : InOrder(h)
  /\ \A h \in Handles : h > lastHandle => sent[h] = <<>> /\ received[h] = <<>>

(* What appending to the end and taking from the front do to the equation. *)
LEMMA AppendInOrder ==
  \A a, b \in Seq(Messages) : \A m \in Messages : Append(a \o b, m) = a \o Append(b, m)
<1> SUFFICES ASSUME NEW a \in Seq(Messages), NEW b \in Seq(Messages), NEW m \in Messages
             PROVE  Append(a \o b, m) = a \o Append(b, m)
  OBVIOUS
<1>1. <<m>> \in Seq(Messages) /\ a \o b \in Seq(Messages)
  BY ConcatProperties
<1>2. Append(a \o b, m) = (a \o b) \o <<m>> /\ Append(b, m) = b \o <<m>>
  BY <1>1, AppendIsConcat
<1>3. (a \o b) \o <<m>> = a \o (b \o <<m>>)
  BY <1>1, ConcatAssociative
<1> QED BY <1>2, <1>3

LEMMA TakeInOrder ==
  ASSUME NEW S, NEW a \in Seq(S), NEW b \in Seq(S), b # <<>>
  PROVE  /\ Append(a, Head(b)) \in Seq(S) /\ Tail(b) \in Seq(S)
         /\ a \o b = Append(a, Head(b)) \o Tail(b)
<1>1. Head(b) \in S /\ Tail(b) \in Seq(S) /\ <<Head(b)>> \in Seq(S)
  BY HeadTailProperties
<1>2. b = <<Head(b)>> \o Tail(b)
  BY <1>1
<1>3. Append(a, Head(b)) = a \o <<Head(b)>> /\ Append(a, Head(b)) \in Seq(S)
  BY <1>1, AppendIsConcat, AppendProperties
<1>4. (a \o <<Head(b)>>) \o Tail(b) = a \o (<<Head(b)>> \o Tail(b))
  BY <1>1, ConcatAssociative
<1> QED BY <1>1, <1>2, <1>3, <1>4

LEMMA RestOfConcat ==
  ASSUME NEW S, NEW a \in Seq(S), NEW b \in Seq(S)
  PROVE  SubSeq(a \o b, Len(a) + 1, Len(a \o b)) = b
<1> DEFINE c == a \o b
           r == SubSeq(c, Len(a) + 1, Len(c))
<1>1. /\ c \in Seq(S) /\ Len(c) = Len(a) + Len(b) /\ Len(a) \in Nat /\ Len(b) \in Nat
      /\ \A i \in 1 .. Len(b) : c[Len(a) + i] = b[i]
  BY ConcatProperties
<1> HIDE DEF c
<1>2. r \in Seq(S) /\ Len(r) = Len(b)
  BY <1>1
<1>3. \A i \in 1 .. Len(r) : r[i] = b[i]
  BY <1>1, <1>2
<1> HIDE DEF r
<1>4. r = b
  BY <1>2, <1>3, SeqEqual
<1> QED BY <1>4 DEF r, c

LEMMA OrderInvInit == IpcInit => OrderInv
<1> SUFFICES ASSUME IpcInit PROVE OrderInv
  OBVIOUS
<1>1. /\ queue \in [Slots -> Seq(Messages)] /\ sent \in [Handles -> Seq(Messages)]
      /\ received \in [Handles -> Seq(Messages)]
      /\ \A h \in Handles : sent[h] = <<>> /\ received[h] = <<>>
      /\ \A p \in Slots : ~slotInUse[p]
  BY DEF IpcInit, LpcInitialize
<1>2. <<>> \in Seq(Messages) /\ <<>> = <<>> \o <<>>
  OBVIOUS
<1>3. \A h \in Handles : InOrder(h)
  BY <1>1, <1>2 DEF InOrder
<1> QED BY <1>1, <1>3 DEF OrderInv

(* A number of messages that have been sent is a number. *)
LEMMA MessageNumber ==
  Cardinality({x \in Handles \X Messages : x[2] <= Len(sent[x[1]])}) \in Nat
<1>1. IsFiniteSet(Handles) /\ IsFiniteSet(Messages)
  BY HandleFacts, FS_Interval DEF Handles, Messages
<1>2. IsFiniteSet(Handles \X Messages)
  BY <1>1, FS_Product
<1>3. IsFiniteSet({x \in Handles \X Messages : x[2] <= Len(sent[x[1]])})
  BY <1>2, FS_Subset
<1> QED BY <1>3, FS_CardinalityType

LEMMA OrderStays ==
  ASSUME OrderInv, UNCHANGED <<slotInUse, slotHeader, queue, lastHandle, sent, received>>
  PROVE  OrderInv'
<1>1. ASSUME NEW h \in Handles PROVE InOrder(h)'
  <2>1. InOrder(h)
    BY DEF OrderInv
  <2> QED BY <2>1 DEF InOrder
<1> QED BY <1>1 DEF OrderInv

LEMMA CreateKeepsOrder ==
  ASSUME SlotInv, OrderInv, NEW rights \in (SUBSET Rights) \ {{}}, LpcCreatePortHandle(rights)
  PROVE  OrderInv'
<1>1. CASE UNCHANGED <<slotVars, waitHead, waitTail, queue, sent, received>>
  BY <1>1, OrderStays DEF slotVars
<1>2. ASSUME NEW p \in Slots, NEW used \in BOOLEAN, NEW header \in {NoHandle, lastHandle + 1},
             ~slotInUse[p],
             slotInUse' = [slotInUse EXCEPT ![p] = used],
             slotHeader' = [slotHeader EXCEPT ![p] = header],
             UNCHANGED <<sent, received>>,
             \/ header = NoHandle /\ UNCHANGED <<access, lastHandle>>
                /\ (queue' = queue \/ queue' = [queue EXCEPT ![p] = <<>>])
             \/ /\ used /\ header = lastHandle + 1 /\ lastHandle < MaxCreates
                /\ lastHandle' = header
                /\ access' = [access EXCEPT ![header] = rights]
                /\ queue' = [queue EXCEPT ![p] = <<>>]
      PROVE  OrderInv'
  <2>1. lastHandle \in 0 .. MaxCreates /\ lastHandle' \in Nat /\ lastHandle' >= lastHandle
    BY <1>2, HandleFacts DEF SlotInv, SlotsTyped
  <2>2. /\ slotInUse'[p] = used /\ slotHeader'[p] = header
        /\ \A q \in Slots : q # p => slotInUse'[q] = slotInUse[q] /\ slotHeader'[q] = slotHeader[q]
                                     /\ queue'[q] = queue[q]
    BY <1>2 DEF SlotInv, SlotsTyped, OrderInv
  <2>3. queue' \in [Slots -> Seq(Messages)]
    <3>1. <<>> \in Seq(Messages)
      BY EmptySeq
    <3>2. [queue EXCEPT ![p] = <<>>] \in [Slots -> Seq(Messages)]
      BY <3>1 DEF OrderInv
    <3> QED BY <1>2, <3>2 DEF OrderInv
  <2>4. ASSUME NEW h \in Handles PROVE InOrder(h)'
    <3>1. PICK rest \in Seq(Messages) :
            /\ sent[h] = received[h] \o rest
            /\ \A q \in Slots : slotInUse[q] /\ slotHeader[q] = h => queue[q] = rest
      BY DEF OrderInv, InOrder
    <3>2. sent'[h] = received'[h] \o rest
      BY <1>2, <3>1
    <3>3. ASSUME NEW q \in Slots, slotInUse'[q], slotHeader'[q] = h PROVE queue'[q] = rest
      <4>1. CASE q # p
        BY <4>1, <2>2, <3>1, <3>3
      <4>2. CASE q = p
        <5>1. h = header /\ header # NoHandle /\ header = lastHandle + 1 /\ queue'[p] = <<>>
          BY <4>2, <1>2, <2>2, <3>3, HandleFacts DEF OrderInv
        <5>2. sent[h] = <<>> /\ received[h] = <<>>
          BY <5>1, <2>1, HandleFacts DEF OrderInv
        <5>3. rest = <<>>
          BY <3>1, <5>2, ConcatEmptySeq
        <5> QED BY <4>2, <5>1, <5>3
      <4> QED BY <4>1, <4>2
    <3> QED BY <3>2, <3>3 DEF InOrder
  <2>5. \A h \in Handles : h > lastHandle' => h > lastHandle
    BY <2>1, HandleFacts
  <2> QED BY <1>2, <2>3, <2>4, <2>5 DEF OrderInv
<1>3. slotInUse \in [Slots -> BOOLEAN]
  BY DEF SlotInv, SlotsTyped
<1> QED BY <1>1, <1>2, <1>3, CreateEffect

LEMMA SendKeepsOrder ==
  ASSUME SlotInv, OrderInv, NEW h \in Handles, LpcSendByHandle(h)
  PROVE  OrderInv'
<1> DEFINE p == PortOf(h)
           m == Cardinality({x \in Handles \X Messages : x[2] <= Len(sent[x[1]])}) + 1
<1>1. /\ m <= MaxSends /\ UNCHANGED <<slotInUse, slotHeader, access, lastHandle, received>>
      /\ \/ UNCHANGED <<queue, sent>>
         \/ /\ Lookup(h, "SEND") = "SUCCESS"
            /\ queue' = [queue EXCEPT ![p] = Append(@, m)]
            /\ sent' = [sent EXCEPT ![h] = Append(@, m)]
  BY DEF LpcSendByHandle
<1>2. m \in Messages
  BY <1>1, MessageNumber, HandleFacts DEF Messages
<1> HIDE DEF m
<1>3. CASE UNCHANGED <<queue, sent>>
  BY <1>1, <1>3, OrderStays
<1>4. CASE /\ Lookup(h, "SEND") = "SUCCESS"
           /\ queue' = [queue EXCEPT ![p] = Append(@, m)]
           /\ sent' = [sent EXCEPT ![h] = Append(@, m)]
  <2>1. p \in Slots /\ slotInUse[p] /\ slotHeader[p] = h
    BY <1>4, LookupFindsSlot
  <2> HIDE DEF p
  <2>2. access[h] # {} /\ h # NoHandle
    BY <1>4, HandleFacts DEF Lookup, LpcpReferencePortByHandle
  <2>3. \A q \in Slots : slotInUse[q] /\ slotHeader[q] = h => q = p
    BY <2>1, <2>2 DEF SlotInv, SlotOwned
  <2>4. /\ queue'[p] = Append(queue[p], m) /\ \A q \in Slots : q # p => queue'[q] = queue[q]
        /\ sent'[h] = Append(sent[h], m) /\ \A g \in Handles : g # h => sent'[g] = sent[g]
        /\ queue' \in [Slots -> Seq(Messages)] /\ sent' \in [Handles -> Seq(Messages)]
    BY <1>2, <1>4, <2>1 DEF OrderInv
  <2>5. ASSUME NEW g \in Handles PROVE InOrder(g)'
    <3>1. PICK rest \in Seq(Messages) :
            /\ sent[g] = received[g] \o rest
            /\ \A q \in Slots : slotInUse[q] /\ slotHeader[q] = g => queue[q] = rest
      BY DEF OrderInv, InOrder
    <3>2. CASE g = h
      <4>1. queue[p] = rest /\ Append(rest, m) \in Seq(Messages)
        BY <1>2, <2>1, <3>1, <3>2
      <4>2. sent'[h] = received[h] \o Append(rest, m)
        <5> DEFINE a == received[h]
        <5>1. a \in Seq(Messages)
          BY DEF OrderInv
        <5>2. sent[h] = a \o rest
          BY <3>1, <3>2
        <5> HIDE DEF a
        <5>3. Append(a \o rest, m) = a \o Append(rest, m)
          BY <1>2, <5>1, AppendInOrder, Zenon
        <5>4. sent'[h] = Append(a \o rest, m)
          BY <2>4, <5>2
        <5> QED BY <5>3, <5>4 DEF a
      <4>3. \A q \in Slots : slotInUse[q] /\ slotHeader[q] = h => queue'[q] = Append(rest, m)
        BY <2>3, <2>4, <4>1
      <4> QED BY <1>1, <3>2, <4>1, <4>2, <4>3 DEF InOrder
    <3>3. CASE g # h
      <4>1. \A q \in Slots : slotInUse[q] /\ slotHeader[q] = g => queue'[q] = rest
        BY <2>1, <2>4, <3>1, <3>3
      <4> QED BY <1>1, <2>4, <3>1, <3>3, <4>1 DEF InOrder
    <3> QED BY <3>2, <3>3
  <2>6. ~ (h > lastHandle)
    BY <2>2 DEF SlotInv, SlotOwned
  <2> QED BY <1>1, <2>4, <2>5, <2>6 DEF OrderInv
<1> QED BY <1>1, <1>3, <1>4

LEMMA ReceiveKeepsOrder ==
  ASSUME SlotInv, OrderInv, NEW h, NEW current, NEW wait, ReceiveTurn(h, current, wait)
  PROVE  OrderInv'
<1> DEFINE p == PortOf(h)
<1>1. /\ UNCHANGED <<slotInUse, slotHeader, access, lastHandle, sent>>
      /\ \/ UNCHANGED <<queue, received>>
         \/ /\ Lookup(h, "RECV") = "SUCCESS" /\ queue[p] # <<>>
            /\ queue' = [queue EXCEPT ![p] = Tail(@)]
            /\ received' = [received EXCEPT ![h] = Append(@, Head(queue[p]))]
  BY DEF ReceiveTurn
<1>2. CASE UNCHANGED <<queue, received>>
  BY <1>1, <1>2, OrderStays
<1>3. CASE /\ Lookup(h, "RECV") = "SUCCESS" /\ queue[p] # <<>>
           /\ queue' = [queue EXCEPT ![p] = Tail(@)]
           /\ received' = [received EXCEPT ![h] = Append(@, Head(queue[p]))]
  <2>1. p \in Slots /\ slotInUse[p] /\ slotHeader[p] = h
    BY <1>3, LookupFindsSlot
  <2> HIDE DEF p
  <2>2. /\ Head(queue[p]) \in Messages /\ Tail(queue[p]) \in Seq(Messages)
        /\ queue[p] \in Seq(Messages) /\ queue[p] # <<>>
    BY <1>3, <2>1, HeadTailProperties DEF OrderInv
  <2>3. /\ queue'[p] = Tail(queue[p]) /\ \A q \in Slots : q # p => queue'[q] = queue[q]
        /\ \A g \in Handles : received'[g] = IF g = h THEN Append(received[g], Head(queue[p]))
                                             ELSE received[g]
        /\ queue' \in [Slots -> Seq(Messages)] /\ received' \in [Handles -> Seq(Messages)]
    <3>1. /\ queue'[p] = Tail(queue[p]) /\ \A q \in Slots : q # p => queue'[q] = queue[q]
          /\ queue' \in [Slots -> Seq(Messages)]
      BY <1>3, <2>1, <2>2 DEF OrderInv
    <3> DEFINE x == Head(queue[p])
    <3>2. x \in Messages /\ received' = [received EXCEPT ![h] = Append(@, x)]
          /\ received \in [Handles -> Seq(Messages)]
      BY <1>3, <2>2 DEF OrderInv
    <3> HIDE DEF x
    <3>3. \A g \in Handles : received'[g] = IF g = h THEN Append(received[g], x) ELSE received[g]
      BY <3>2
    <3>4. \A g \in Handles : Append(received[g], x) \in Seq(Messages)
      BY <3>2, AppendProperties
    <3>5. received' \in [Handles -> Seq(Messages)]
      BY <3>2, <3>4
    <3> QED BY <3>1, <3>3, <3>5 DEF x
  <2>4. ASSUME NEW g \in Handles PROVE InOrder(g)'
    <3>1. PICK rest \in Seq(Messages) :
            /\ sent[g] = received[g] \o rest
            /\ \A q \in Slots : slotInUse[q] /\ slotHeader[q] = g => queue[q] = rest
      BY DEF OrderInv, InOrder
    <3>2. CASE g = h
      <4>1. queue[p] = rest
        BY <2>1, <3>1, <3>2
      <4>2. sent[h] = received'[h] \o Tail(rest) /\ Tail(rest) \in Seq(Messages)
        <5>1. /\ received[h] \in Seq(Messages) /\ sent[h] = received[h] \o rest /\ rest # <<>>
              /\ received'[h] = Append(received[h], Head(rest))
          BY <2>2, <2>3, <3>1, <3>2, <4>1 DEF OrderInv
        <5>2. /\ Tail(rest) \in Seq(Messages)
              /\ received[h] \o rest = Append(received[h], Head(rest)) \o Tail(rest)
          BY <5>1, TakeInOrder
        <5> QED BY <5>1, <5>2
      <4>3. \A q \in Slots : slotInUse[q] /\ slotHeader[q] = h => q = p
        BY <2>1, <3>2, HandleFacts DEF SlotInv, SlotOwned
      <4>4. \A q \in Slots : slotInUse[q] /\ slotHeader[q] = h => queue'[q] = Tail(rest)
        BY <2>3, <4>1, <4>3
      <4> QED BY <1>1, <3>2, <4>2, <4>4 DEF InOrder
    <3>3. CASE g # h
      <4>1. \A q \in Slots : slotInUse[q] /\ slotHeader[q] = g => queue'[q] = rest
        BY <2>1, <2>3, <3>1, <3>3
      <4> QED BY <1>1, <2>3, <3>1, <3>3, <4>1 DEF InOrder
    <3> QED BY <3>2, <3>3
  <2>5. \A g \in Handles : g > lastHandle => g # h
    <3>1. h \in Handles => access[h] # {}
      BY <1>3 DEF Lookup, LpcpReferencePortByHandle
    <3> QED BY <3>1 DEF SlotInv, SlotOwned
  <2> QED BY <1>1, <2>3, <2>4, <2>5 DEF OrderInv
<1> QED BY <1>1, <1>2, <1>3

LEMMA CloseKeepsOrder ==
  ASSUME SlotInv, OrderInv, NEW h \in Handles, LpcCloseHandle(h)
  PROVE  OrderInv'
<1>1. UNCHANGED <<queue, sent, received, lastHandle>>
  BY DEF LpcCloseHandle, ghosts
<1>2. \A p \in Slots : slotInUse'[p] => slotInUse[p] /\ slotHeader'[p] = slotHeader[p]
  BY DEF LpcCloseHandle, LpcpDeletePortObject, LpcpFindPortByHeader
<1>3. ASSUME NEW g \in Handles PROVE InOrder(g)'
  <2>1. PICK rest \in Seq(Messages) :
          /\ sent[g] = received[g] \o rest
          /\ \A q \in Slots : slotInUse[q] /\ slotHeader[q] = g => queue[q] = rest
    BY DEF OrderInv, InOrder
  <2> QED BY <1>1, <1>2, <2>1 DEF InOrder
<1> QED BY <1>1, <1>3 DEF OrderInv

LEMMA OrderInvStep == SlotInv /\ OrderInv /\ [IpcNext]_ipcVars => OrderInv'
<1> SUFFICES ASSUME SlotInv, OrderInv, [IpcNext]_ipcVars PROVE OrderInv'
  OBVIOUS
<1>1. CASE Scheduling(CooperativeNext) \/ Scheduling(PsExitCurrentThread) \/ UNCHANGED ipcVars
  BY <1>1, OrderStays DEF Scheduling, ipcVars, portVars, ghosts
<1>2. CASE ReceiveAgain
  BY <1>2, ReceiveKeepsOrder DEF ReceiveAgain
<1>3. ASSUME NEW rights \in (SUBSET Rights) \ {{}}, LpcCreatePortHandle(rights) PROVE OrderInv'
  BY <1>3, CreateKeepsOrder
<1>4. ASSUME NEW h \in Handles, LpcSendByHandle(h) PROVE OrderInv'
  BY <1>4, SendKeepsOrder
<1>5. ASSUME NEW h \in Handles, NEW wait \in BOOLEAN, LpcReceiveByHandle(h, wait) PROVE OrderInv'
  <2>1. CASE UNCHANGED <<portVars, ghosts>>
    BY <2>1, OrderStays DEF portVars, ghosts
  <2>2. CASE ReceiveTurn(h, currentThread, wait)
    BY <2>2, ReceiveKeepsOrder
  <2> QED BY <1>5, <2>1, <2>2 DEF LpcReceiveByHandle
<1>6. ASSUME NEW h \in Handles, LpcCloseHandle(h) PROVE OrderInv'
  BY <1>6, CloseKeepsOrder
<1> QED BY <1>1, <1>2, <1>3, <1>4, <1>5, <1>6 DEF IpcNext

(* A port delivers what was sent through its own handle, in that order and *)
(* each message once, with any number of senders and receivers, blocking   *)
(* receives, closes and slots that a later port reuses.                    *)
THEOREM DeliveryInOrder == IpcSpec => []PortsDeliverInOrder
<1>1. SlotInv /\ OrderInv => PortsDeliverInOrder
  <2> SUFFICES ASSUME SlotInv, OrderInv, NEW h \in Handles
               PROVE  sent[h] = received[h] \o
                        (IF access[h] = {}
                         THEN SubSeq(sent[h], Len(received[h]) + 1, Len(sent[h]))
                         ELSE queue[PortOf(h)])
    BY DEF PortsDeliverInOrder
  <2>1. PICK rest \in Seq(Messages) :
          /\ sent[h] = received[h] \o rest
          /\ \A q \in Slots : slotInUse[q] /\ slotHeader[q] = h => queue[q] = rest
    BY DEF OrderInv, InOrder
  <2>2. CASE access[h] = {}
    <3>1. SubSeq(sent[h], Len(received[h]) + 1, Len(sent[h])) = rest
      BY <2>1, RestOfConcat DEF OrderInv
    <3> QED BY <2>1, <2>2, <3>1
  <2>3. CASE access[h] # {}
    <3>1. LpcpFindPortByHeader(h) # {}
      BY <2>3, OneSlotPerHandle
    <3>2. PortOf(h) \in Slots /\ slotInUse[PortOf(h)] /\ slotHeader[PortOf(h)] = h
      BY <3>1 DEF PortOf, LpcpFindPortByHeader
    <3> QED BY <2>1, <2>3, <3>2
  <2> QED BY <2>2, <2>3
<1>2. IpcInit => RunInv /\ SlotInv /\ OrderInv
  BY RunInvInit, SlotInvInit, OrderInvInit
<1>3. RunInv /\ SlotInv /\ OrderInv /\ [IpcNext]_ipcVars => (RunInv /\ SlotInv /\ OrderInv)'
  BY RunInvStep, SlotInvStep, OrderInvStep
<1> QED BY <1>1, <1>2, <1>3, PTL DEF IpcSpec
=============================================================================
