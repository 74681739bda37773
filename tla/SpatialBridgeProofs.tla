------------------------ MODULE SpatialBridgeProofs ------------------------
(***************************************************************************)
(* The bridge matches answers to requests by position only.  Proved here,  *)
(* for any number of drivers and promises: until a write fails, the queue  *)
(* of promises and the two pipes stay aligned, so that no promise is given *)
(* the answer to another request, and promises settle in order.            *)
(*                                                                         *)
(* The argument: the waiting promises are the last ones made, in order;    *)
(* the printed answers are those to the oldest of them, one after the      *)
(* other; the commands to be answered that the engine has not read ask,    *)
(* in order, for all the others.  A crash cuts the last part off and       *)
(* leaves the others alone.                                                *)
(*                                                                         *)
(* The bridge also keeps the engine's tree in step with the index of the   *)
(* registry.  What the commands in the pipe will make of the tree is a     *)
(* fold; shown first is that a driver is in its result if and only if the  *)
(* last command that decides about it inserts it.  Then a command told by  *)
(* the bridge does to that result what it does to the index, and an INIT   *)
(* followed by the simulated drivers leaves exactly these, whatever was    *)
(* in the tree.                                                            *)
(***************************************************************************)
EXTENDS SpatialBridge, SequenceTheorems, FiniteSetTheorems, WellFoundedInduction,
        TLAPS

-----------------------------------------------------------------------------
(* The inductive invariant *)

\* How many promises have settled.
Settled == Len(results) - Len(pendingQueue)

\* The queue holds the promises that have not settled, which are the last ones.
QueueIsTail ==
    /\ Len(pendingQueue) <= Len(results)
    /\ \A k \in 1..Len(pendingQueue) : pendingQueue[k] = Settled + k
    /\ \A i \in 1..Len(results) : results[i] = Pending <=> i > Settled

\* A bridge without a process holds no promises and is not ready.
GoneIsEmpty == process = "none" => Len(pendingQueue) = 0

\* The printed answers are those to the oldest promises, in order.
AnswersAligned ==
    /\ Len(stdout) <= Len(pendingQueue)
    /\ \A k \in 1..Len(stdout) : stdout[k].request = Settled + k

\* Before this promise, all are settled or their answers printed.
NextAnswer == Settled + Len(stdout) + 1

\* The lines that ask for an answer ask for all the remaining ones, in order.
CommandsAligned ==
    /\ \A i \in 1..Len(stdin) : IsAnswered(stdin[i]) => stdin[i].request \in NextAnswer..Len(results)
    /\ \A i, j \in 1..Len(stdin) :
          i < j /\ IsAnswered(stdin[i]) /\ IsAnswered(stdin[j])
              => stdin[i].request < stdin[j].request
    /\ \A r \in NextAnswer..Len(results) :
          \E i \in 1..Len(stdin) : IsAnswered(stdin[i]) /\ stdin[i].request = r

Aligned ==
    pipe = "open" /\ process = "running" =>
        /\ AnswersAligned
        /\ engine = "alive" => CommandsAligned

Inv ==
    /\ TypeOK
    /\ QueueIsTail
    /\ GoneIsEmpty
    /\ Aligned
    /\ OwnAnswer

-----------------------------------------------------------------------------
(* Sequences *)

\* A function on 1..m is a sequence of length m.
LEMMA FunctionIsSeq ==
  ASSUME NEW S, NEW m \in Nat, NEW f \in [1..m -> S]
  PROVE  f \in Seq(S) /\ Len(f) = m /\ DOMAIN f = 1..m
<1>1. f \in Seq(S)
  BY SeqDef
<1>2. DOMAIN f = 1..m
  OBVIOUS
<1>3. Len(f) = m
  BY <1>1, <1>2, LenProperties
<1> QED
  BY <1>1, <1>2, <1>3

\* What callers may ask of sendCommand.
Ops ==
    [op : {"INSERT", "REMOVE"}, driver : Drivers]
    \cup [op : {"INIT", "KNN"}, driver : {None}]

\* The simulated drivers can be listed.
LEMMA InsertVirtualIsSeq ==
  InsertVirtual \in Seq(Ops) /\ Len(InsertVirtual) = Cardinality(Virtual)
<1> DEFINE m == Cardinality(Virtual)
<1>1. m \in Nat /\ ExistsBijection(1..m, Virtual)
  BY FS_CardinalityType, BridgeAssumption
<1>2. PICK f \in [1..m -> Virtual] : \A a, b \in 1..m : f[a] = f[b] => a = b
  BY <1>1 DEF ExistsBijection, Bijection, Injection, IsInjective
<1>3. SetToSeq(Virtual) \in [1..m -> Virtual]
  BY <1>2 DEF SetToSeq, IsInjective
<1>4. InsertVirtual \in [1..m -> Ops]
  BY <1>3, BridgeAssumption DEF InsertVirtual, Op, Ops
<1> QED
  BY <1>1, <1>4, FunctionIsSeq

LEMMA SeedIsSeq == Seed \in Seq(Ops) /\ Len(Seed) = Cardinality(Virtual) + 1
<1>1. <<Op("INIT", None)>> \in Seq(Ops) /\ Len(<<Op("INIT", None)>>) = 1
  BY DEF Op, Ops
<1>2. Cardinality(Virtual) \in Nat
  BY FS_CardinalityType, BridgeAssumption
<1> QED
  BY <1>1, <1>2, InsertVirtualIsSeq, ConcatProperties DEF Seed

-----------------------------------------------------------------------------
(* Preservation *)

LEMMA InitInv == Init => Inv
<1> SUFFICES ASSUME Init PROVE Inv
  OBVIOUS
<1> USE DEF Init
<1>0. MaxRequests \in Nat /\ 1 <= MaxRequests
  BY FS_CardinalityType, BridgeAssumption
<1>1. /\ stdin \in Seq(Lines) /\ Len(stdin) = 1
      /\ IsAnswered(stdin[1]) /\ stdin[1].request = 1
  BY <1>0 DEF Command, Lines, IsAnswered
<1>2. TypeOK
  <2>1. pendingQueue \in Seq(1..MaxRequests)
    BY <1>0
  <2>2. results \in Seq({Pending, Error} \cup 1..MaxRequests)
    OBVIOUS
  <2>3. stdout \in Seq(Answers)
    OBVIOUS
  <2> QED
    BY <1>1, <2>1, <2>2, <2>3, BridgeAssumption DEF TypeOK
<1>3. QueueIsTail /\ GoneIsEmpty
  BY DEF QueueIsTail, GoneIsEmpty, Settled
<1>4. Aligned
  <2>1. AnswersAligned
    BY DEF AnswersAligned, Settled
  <2>2. NextAnswer = 1 /\ Len(results) = 1
    BY DEF NextAnswer, Settled
  <2>3. CommandsAligned
    BY <1>1, <2>2 DEF CommandsAligned
  <2> QED
    BY <2>1, <2>3 DEF Aligned
<1>5. OwnAnswer
  BY DEF OwnAnswer
<1> QED
  BY <1>2, <1>3, <1>4, <1>5 DEF Inv

\* The lines of ops all want an answer, and carry the numbers after n.
LEMMA NumberedLines ==
  ASSUME NEW ops \in Seq(Ops), NEW n \in Nat, n + Len(ops) <= MaxRequests
  PROVE  /\ Numbered(ops, n) \in Seq(Lines)
         /\ Len(Numbered(ops, n)) = Len(ops)
         /\ \A i \in 1..Len(ops) : /\ Numbered(ops, n)[i].request = n + i
                                   /\ IsAnswered(Numbered(ops, n)[i])
<1>1. MaxRequests \in Nat /\ Len(ops) \in Nat /\ DOMAIN ops = 1..Len(ops)
  BY BridgeAssumption, LenProperties
<1>2. ASSUME NEW i \in 1..Len(ops)
      PROVE  /\ Command(ops[i].op, ops[i].driver, n + i) \in Lines
             /\ Command(ops[i].op, ops[i].driver, n + i).request = n + i
             /\ IsAnswered(Command(ops[i].op, ops[i].driver, n + i))
  <2>1. ops[i] \in Ops
    BY <1>2, ElementOfSeq
  <2> QED
    BY <1>1, <1>2, <2>1 DEF Command, Ops, Lines, IsAnswered
<1>3. Numbered(ops, n) \in [1..Len(ops) -> Lines]
  BY <1>1, <1>2 DEF Numbered
<1> QED
  BY <1>1, <1>2, <1>3, FunctionIsSeq DEF Numbered

\* The promises of k requests join a queue that is the tail of those made: the
\* queue is a tail still, with as many settled as before.
LEMMA PromisesJoin ==
  ASSUME TypeOK, QueueIsTail, NEW k \in Nat, Len(results) + k <= MaxRequests,
         results' = results \o [i \in 1..k |-> Pending],
         pendingQueue' = pendingQueue \o [i \in 1..k |-> Len(results) + i]
  PROVE  /\ results' \in Seq({Pending, Error} \cup 1..MaxRequests)
         /\ pendingQueue' \in Seq(1..MaxRequests)
         /\ Len(results') = Len(results) + k
         /\ Len(pendingQueue') = Len(pendingQueue) + k
         /\ Settled' = Settled
         /\ QueueIsTail'
         /\ OwnAnswer /\ pipe' = pipe => OwnAnswer'
<1> DEFINE R == {Pending, Error} \cup 1..MaxRequests
           n == Len(results)
           more == [i \in 1..k |-> Pending]
           queued == [i \in 1..k |-> n + i]
<1>1. n \in Nat /\ Len(pendingQueue) \in Nat /\ MaxRequests \in Nat
  BY LenProperties, BridgeAssumption DEF TypeOK
<1>2. more \in Seq(R) /\ Len(more) = k
  <2>1. more \in [1..k -> R]
    OBVIOUS
  <2> QED
    BY <2>1, FunctionIsSeq
<1>3. queued \in Seq(1..MaxRequests) /\ Len(queued) = k
  <2>1. queued \in [1..k -> 1..MaxRequests]
    BY <1>1
  <2> QED
    BY <2>1, FunctionIsSeq
<1> HIDE DEF R
<1>4. /\ results' \in Seq(R)
      /\ Len(results') = n + k
      /\ \A i \in 1..n+k : results'[i] = IF i <= n THEN results[i] ELSE more[i - n]
  <2>1. results \in Seq(R) /\ results' = results \o more
    BY DEF TypeOK, R
  <2> QED
    BY <2>1, <1>2, ConcatProperties
<1>5. /\ pendingQueue' \in Seq(1..MaxRequests)
      /\ Len(pendingQueue') = Len(pendingQueue) + k
      /\ \A i \in 1..Len(pendingQueue)+k :
            pendingQueue'[i] = IF i <= Len(pendingQueue) THEN pendingQueue[i]
                               ELSE queued[i - Len(pendingQueue)]
  <2>1. pendingQueue \in Seq(1..MaxRequests) /\ pendingQueue' = pendingQueue \o queued
    BY DEF TypeOK
  <2> QED
    BY <2>1, <1>3, ConcatProperties
<1>6. Settled' = Settled
  BY <1>1, <1>4, <1>5 DEF Settled
<1>7. \A i \in 1..n+k : i > n => results'[i] = Pending
  BY <1>1, <1>4
<1>8. \A i \in 1..n : results'[i] = results[i]
  BY <1>1, <1>4
<1>9. QueueIsTail'
  <2>1. \A j \in 1..Len(pendingQueue') : pendingQueue'[j] = Settled' + j
    BY <1>1, <1>5, <1>6 DEF QueueIsTail, Settled
  <2>2. \A i \in 1..Len(results') : results'[i] = Pending <=> i > Settled'
    BY <1>1, <1>4, <1>6, <1>7, <1>8 DEF QueueIsTail, Settled
  <2>3. Len(pendingQueue') <= Len(results')
    BY <1>1, <1>4, <1>5 DEF QueueIsTail
  <2> QED
    BY <2>1, <2>2, <2>3 DEF QueueIsTail
<1>10. OwnAnswer /\ pipe' = pipe => OwnAnswer'
  <2> SUFFICES ASSUME OwnAnswer, pipe' = pipe, pipe = "open",
                      NEW i \in DOMAIN results'
               PROVE  results'[i] \in {Pending, Error, i}
    BY DEF OwnAnswer
  <2>1. i \in 1..n+k /\ DOMAIN results = 1..n
    BY <1>4, LenProperties DEF TypeOK
  <2>2. CASE i <= n
    BY <1>1, <1>8, <2>1, <2>2 DEF OwnAnswer
  <2>3. CASE i > n
    BY <1>1, <1>7, <2>1, <2>3
  <2> QED
    BY <1>1, <2>1, <2>2, <2>3
<1> QED
  BY <1>4, <1>5, <1>6, <1>9, <1>10 DEF R

\* sendCommand keeps everything aligned.
LEMMA SendInv ==
  ASSUME Inv, NEW ops \in Seq(Ops), Send(ops), process = "running",
         UNCHANGED <<process, isReady, engine, tree, pipe, stdout>>,
         index' \subseteq Drivers
  PROVE  Inv'
<1> DEFINE n == Len(results)
           k == Len(ops)
           m == Len(stdin)
           new == Numbered(ops, n)
<1>1. /\ n \in Nat /\ k \in Nat /\ m \in Nat /\ Len(stdout) \in Nat
      /\ Len(pendingQueue) \in Nat /\ Len(pendingQueue) <= n
      /\ DOMAIN ops = 1..k
  BY LenProperties DEF Inv, TypeOK, QueueIsTail
<1>2. n + k <= MaxRequests
  BY DEF Send
<1>3. /\ results' \in Seq({Pending, Error} \cup 1..MaxRequests)
      /\ pendingQueue' \in Seq(1..MaxRequests)
      /\ Len(results') = n + k
      /\ Len(pendingQueue') = Len(pendingQueue) + k
      /\ Settled' = Settled
      /\ QueueIsTail'
      /\ OwnAnswer'
  BY <1>1, <1>2, PromisesJoin DEF Send, Inv
<1>4. /\ new \in Seq(Lines)
      /\ Len(new) = k
      /\ \A i \in 1..k : new[i].request = n + i /\ IsAnswered(new[i])
  BY <1>1, <1>2, NumberedLines
<1>5. stdin' = IF engine = "alive" THEN stdin \o new ELSE stdin
  BY DEF Send
<1> HIDE DEF new
<1>6. /\ stdin \o new \in Seq(Lines)
      /\ Len(stdin \o new) = m + k
      /\ \A i \in 1..m+k : (stdin \o new)[i] = IF i <= m THEN stdin[i] ELSE new[i - m]
  <2>1. stdin \in Seq(Lines)
    BY DEF Inv, TypeOK
  <2> HIDE DEF k
  <2>2. \A i \in 1..Len(stdin)+Len(new) :
           (stdin \o new)[i] = IF i <= Len(stdin) THEN stdin[i] ELSE new[i - Len(stdin)]
    BY <1>4, <2>1, ConcatProperties
  <2>3. stdin \o new \in Seq(Lines) /\ Len(stdin \o new) = Len(stdin) + Len(new)
    BY <1>4, <2>1, ConcatProperties
  <2> QED
    BY <1>4, <2>2, <2>3
<1>7. TypeOK'
  BY <1>3, <1>5, <1>6 DEF Inv, TypeOK
<1>8. GoneIsEmpty'
  BY DEF GoneIsEmpty
<1>9. ASSUME pipe = "open" PROVE AnswersAligned'
  BY <1>1, <1>3, <1>9 DEF Inv, Aligned, AnswersAligned
<1>10. ASSUME pipe = "open", engine = "alive" PROVE CommandsAligned'
  <2>1. /\ Len(stdin') = m + k
        /\ \A i \in 1..m : stdin'[i] = stdin[i]
        /\ \A i \in m+1..m+k : /\ stdin'[i].request = n + (i - m)
                                /\ IsAnswered(stdin'[i])
    BY <1>1, <1>4, <1>5, <1>6, <1>10
  <2>2. CommandsAligned /\ Len(stdout) <= Len(pendingQueue)
    BY <1>10 DEF Inv, Aligned, AnswersAligned
  <2>3. /\ NextAnswer' = NextAnswer /\ NextAnswer \in Nat
        /\ 1 <= NextAnswer /\ NextAnswer <= n + 1
    BY <1>1, <1>3, <2>2 DEF NextAnswer, Settled
  <2>4. ASSUME NEW i \in 1..m+k, IsAnswered(stdin'[i])
        PROVE  stdin'[i].request \in NextAnswer..n+k
    <3>1. CASE i <= m
      BY <1>1, <2>1, <2>2, <2>3, <2>4, <3>1 DEF CommandsAligned
    <3>2. CASE i > m
      BY <1>1, <2>1, <2>3, <3>2
    <3> QED
      BY <1>1, <3>1, <3>2
  <2>5. ASSUME NEW i \in 1..m+k, NEW j \in 1..m+k, i < j,
               IsAnswered(stdin'[i]), IsAnswered(stdin'[j])
        PROVE  stdin'[i].request < stdin'[j].request
    <3>1. CASE j <= m
      <4>1. i \in 1..m /\ j \in 1..m
        BY <1>1, <2>5, <3>1
      <4>2. stdin'[i] = stdin[i] /\ stdin'[j] = stdin[j]
        BY <2>1, <4>1
      <4> QED
        BY <2>2, <2>5, <4>1, <4>2 DEF CommandsAligned
    <3>2. CASE i <= m /\ j > m
      <4>1. stdin'[i].request \in NextAnswer..n
        BY <1>1, <2>1, <2>2, <2>5, <3>2 DEF CommandsAligned
      <4>2. j \in m+1..m+k
        BY <1>1, <3>2
      <4>3. stdin'[j].request = n + (j - m)
        BY <2>1, <4>2
      <4> HIDE DEF n, m, k
      <4> QED
        BY <1>1, <2>3, <4>1, <4>2, <4>3
    <3>3. CASE i > m
      <4>1. i \in m+1..m+k /\ j \in m+1..m+k
        BY <1>1, <2>5, <3>3
      <4>2. stdin'[i].request = n + (i - m) /\ stdin'[j].request = n + (j - m)
        BY <2>1, <4>1
      <4> HIDE DEF n, m, k
      <4> QED
        BY <1>1, <2>5, <4>1, <4>2
    <3> QED
      BY <1>1, <2>5, <3>1, <3>2, <3>3
  <2>6. ASSUME NEW r \in NextAnswer..n+k
        PROVE  \E i \in 1..m+k : IsAnswered(stdin'[i]) /\ stdin'[i].request = r
    <3>1. CASE r <= n
      <4>1. PICK i \in 1..m : IsAnswered(stdin[i]) /\ stdin[i].request = r
        BY <1>1, <2>2, <2>3, <3>1 DEF CommandsAligned
      <4> QED
        BY <1>1, <2>1, <4>1
    <3>2. CASE r > n
      <4> DEFINE j == m + (r - n)
      <4>1. j \in m+1..m+k /\ j \in 1..m+k /\ n + (j - m) = r
        BY <1>1, <2>3, <3>2
      <4>2. IsAnswered(stdin'[j]) /\ stdin'[j].request = r
        <5> HIDE DEF j
        <5> QED
          BY <2>1, <4>1
      <4> QED
        BY <4>1, <4>2
    <3> QED
      BY <1>1, <2>3, <3>1, <3>2
  <2> QED
    BY <1>3, <2>1, <2>3, <2>4, <2>5, <2>6 DEF CommandsAligned
<1>11. Aligned'
  BY <1>9, <1>10 DEF Aligned
<1> QED
  BY <1>3, <1>7, <1>8, <1>11 DEF Inv

LEMMA SendIfAvailableInv ==
  ASSUME Inv, NEW ops \in Seq(Ops), SendIfAvailable(ops),
         UNCHANGED <<process, isReady, engineVars, pipe, stdout>>,
         index' \subseteq Drivers
  PROVE  Inv'
<1>1. CASE Available
  BY <1>1, SendInv DEF SendIfAvailable, Available, engineVars
<1>2. CASE ~ Available
  BY <1>2 DEF SendIfAvailable, engineVars, Inv, TypeOK, QueueIsTail, GoneIsEmpty,
              Aligned, AnswersAligned, CommandsAligned, OwnAnswer, Settled, NextAnswer
<1> QED
  BY <1>1, <1>2

\* A drained bridge holds no promises and has given nobody a wrong answer.
LEMMA DrainInv ==
  ASSUME Inv, Drain
  PROVE  /\ results' \in Seq({Pending, Error} \cup 1..MaxRequests)
         /\ pendingQueue' \in Seq(1..MaxRequests)
         /\ Len(pendingQueue') = 0
         /\ QueueIsTail'
         /\ OwnAnswer /\ pipe' = pipe => OwnAnswer'
<1> DEFINE R == {Pending, Error} \cup 1..MaxRequests
           n == Len(results)
<1>1. results \in Seq(R) /\ n \in Nat /\ DOMAIN results = 1..n
  BY LenProperties DEF Inv, TypeOK
<1>2. \A i \in 1..n : results[i] \in R
  BY <1>1, ElementOfSeq
<1>3. results' = [i \in 1..n |-> IF results[i] = Pending THEN Error ELSE results[i]]
  BY <1>1 DEF Drain
<1>4. results' \in Seq(R) /\ Len(results') = n
  <2>1. results' \in [1..n -> R]
    BY <1>2, <1>3
  <2> QED
    BY <1>1, <2>1, FunctionIsSeq
<1>5. pendingQueue' = <<>> /\ Len(pendingQueue') = 0
  BY DEF Drain
<1>6. \A i \in 1..n : results'[i] # Pending
  BY <1>3, BridgeAssumption
<1>7. QueueIsTail'
  BY <1>1, <1>4, <1>5, <1>6 DEF QueueIsTail, Settled
<1>8. OwnAnswer /\ pipe' = pipe => OwnAnswer'
  BY <1>1, <1>3 DEF OwnAnswer
<1> QED
  BY <1>4, <1>5, <1>7, <1>8

LEMMA ProcessExitsInv == Inv /\ ProcessExits => Inv'
<1> SUFFICES ASSUME Inv, ProcessExits PROVE Inv'
  OBVIOUS
<1> USE DEF ProcessExits
<1>1. TypeOK' /\ QueueIsTail' /\ OwnAnswer' /\ GoneIsEmpty'
  BY DrainInv DEF Inv, TypeOK, GoneIsEmpty, engineVars
<1>2. Aligned'
  BY DEF Aligned
<1> QED
  BY <1>1, <1>2 DEF Inv

LEMMA StdinFailsInv == Inv /\ StdinFails => Inv'
<1> SUFFICES ASSUME Inv, StdinFails PROVE Inv'
  OBVIOUS
<1> USE DEF StdinFails
<1>1. TypeOK' /\ QueueIsTail' /\ GoneIsEmpty'
  BY DrainInv DEF Inv, TypeOK, GoneIsEmpty, engineVars
<1>2. Aligned' /\ OwnAnswer'
  BY DEF Aligned, OwnAnswer
<1> QED
  BY <1>1, <1>2 DEF Inv

LEMMA StopInv == Inv /\ Stop => Inv'
<1> SUFFICES ASSUME Inv, Stop PROVE Inv'
  OBVIOUS
<1> USE DEF Stop
<1>1. TypeOK' /\ QueueIsTail' /\ OwnAnswer' /\ GoneIsEmpty'
  BY DrainInv, EmptySeq DEF Inv, TypeOK, GoneIsEmpty
<1>2. Aligned'
  BY DEF Aligned
<1> QED
  BY <1>1, <1>2 DEF Inv

\* The oldest promise settles: queue and results move on by one.
LEMMA OldestSettles ==
  ASSUME TypeOK, QueueIsTail, pendingQueue # <<>>, NEW res \in {Error} \cup 1..MaxRequests,
         results' = [results EXCEPT ![Head(pendingQueue)] = res],
         pendingQueue' = Tail(pendingQueue)
  PROVE  /\ Head(pendingQueue) = Settled + 1
         /\ Settled + 1 \in 1..Len(results)
         /\ results' \in Seq({Pending, Error} \cup 1..MaxRequests)
         /\ Len(results') = Len(results)
         /\ \A i \in 1..Len(results) :
               results'[i] = IF i = Settled + 1 THEN res ELSE results[i]
         /\ pendingQueue' \in Seq(1..MaxRequests)
         /\ Len(pendingQueue') = Len(pendingQueue) - 1
         /\ Settled' = Settled + 1
         /\ QueueIsTail'
<1> DEFINE R == {Pending, Error} \cup 1..MaxRequests
           n == Len(results)
           q == Len(pendingQueue)
<1>1. results \in Seq(R) /\ pendingQueue \in Seq(1..MaxRequests)
  BY DEF TypeOK
<1>2. n \in Nat /\ q \in Nat \ {0} /\ q <= n
  BY <1>1, LenProperties, EmptySeq DEF QueueIsTail
<1>3. Head(pendingQueue) = Settled + 1 /\ Settled + 1 \in 1..n
  <2>1. Head(pendingQueue) = pendingQueue[1]
    BY <1>1
  <2> QED
    BY <1>2, <2>1 DEF QueueIsTail, Settled
<1>4. /\ pendingQueue' \in Seq(1..MaxRequests)
      /\ Len(pendingQueue') = q - 1
      /\ \A i \in 1..q-1 : pendingQueue'[i] = pendingQueue[i+1]
  BY <1>1, HeadTailProperties
<1>5. /\ results' \in Seq(R)
      /\ Len(results') = n
      /\ \A i \in 1..n : results'[i] = IF i = Settled + 1 THEN res ELSE results[i]
  <2>1. res \in R
    OBVIOUS
  <2> HIDE DEF R
  <2> QED
    BY <1>1, <1>3, <2>1, ExceptSeq
<1>6. Settled' = Settled + 1
  BY <1>2, <1>4, <1>5 DEF Settled
<1>7. res # Pending
  BY BridgeAssumption
<1>8. \A k \in 1..q-1 : pendingQueue'[k] = Settled' + k
  BY <1>2, <1>4, <1>6 DEF QueueIsTail, Settled
<1>9. \A i \in 1..n : results'[i] = Pending <=> i > Settled'
  BY <1>2, <1>3, <1>5, <1>6, <1>7 DEF QueueIsTail, Settled
<1>10. QueueIsTail'
  BY <1>2, <1>4, <1>5, <1>8, <1>9 DEF QueueIsTail
<1> QED
  BY <1>3, <1>4, <1>5, <1>6, <1>10

\* A line read from the engine is the answer to the oldest promise.
LEMMA ReadLineInv == Inv /\ ReadLine => Inv'
<1> SUFFICES ASSUME Inv, ReadLine PROVE Inv'
  OBVIOUS
<1> DEFINE res == Outcome(Head(stdout))
<1>1. /\ stdout \in Seq(Answers) /\ stdout # <<>>
      /\ Head(stdout) = stdout[1] /\ stdout[1] \in Answers
      /\ Len(stdout) \in Nat \ {0}
      /\ stdout' \in Seq(Answers)
      /\ Len(stdout') = Len(stdout) - 1
      /\ \A i \in 1..Len(stdout') : stdout'[i] = stdout[i+1]
  BY HeadTailProperties, EmptySeq DEF Inv, TypeOK, ReadLine
<1>2. res \in {Error} \cup 1..MaxRequests /\ res \in {Error, stdout[1].request}
  BY <1>1 DEF Outcome, Answers
<1>3. /\ TypeOK /\ QueueIsTail /\ pendingQueue # <<>>
      /\ results' = [results EXCEPT ![Head(pendingQueue)] = res]
      /\ pendingQueue' = Tail(pendingQueue)
  BY DEF ReadLine, NextResolver, Inv
<1> HIDE DEF res
<1>4. /\ Settled + 1 \in 1..Len(results)
      /\ results' \in Seq({Pending, Error} \cup 1..MaxRequests)
      /\ Len(results') = Len(results)
      /\ \A i \in 1..Len(results) :
            results'[i] = IF i = Settled + 1 THEN res ELSE results[i]
      /\ pendingQueue' \in Seq(1..MaxRequests)
      /\ Len(pendingQueue') = Len(pendingQueue) - 1
      /\ Settled' = Settled + 1
      /\ QueueIsTail'
  BY <1>2, <1>3, OldestSettles
<1>5. Len(results) \in Nat /\ Len(pendingQueue) \in Nat /\ Settled \in Int
  BY LenProperties DEF Inv, TypeOK, Settled
<1>6. UNCHANGED <<process, isReady, engine, tree, pipe, stdin, index>>
  BY DEF ReadLine, engineVars
<1>7. TypeOK'
  BY <1>1, <1>4, <1>6 DEF Inv, TypeOK
<1>8. GoneIsEmpty'
  BY <1>3, <1>5, <1>6, EmptySeq DEF Inv, TypeOK, GoneIsEmpty
<1>9. ASSUME pipe = "open", process = "running"
      PROVE  /\ AnswersAligned'
             /\ engine = "alive" => CommandsAligned'
  <2>1. AnswersAligned /\ (engine = "alive" => CommandsAligned)
    BY <1>9 DEF Inv, Aligned
  <2>2. AnswersAligned'
    <3>1. Len(stdout') <= Len(pendingQueue')
      BY <1>1, <1>4, <1>5, <2>1 DEF AnswersAligned
    <3>2. ASSUME NEW k \in 1..Len(stdout')
          PROVE  stdout'[k].request = Settled' + k
      <4>1. k + 1 \in 1..Len(stdout) /\ stdout'[k] = stdout[k+1]
        BY <1>1
      <4>2. stdout[k+1].request = Settled + (k + 1)
        BY <2>1, <4>1 DEF AnswersAligned
      <4> QED
        BY <1>4, <1>5, <4>1, <4>2
    <3> QED
      BY <3>1, <3>2 DEF AnswersAligned
  <2>3. NextAnswer' = NextAnswer
    BY <1>1, <1>4, <1>5 DEF NextAnswer
  <2>4. engine = "alive" => CommandsAligned'
    BY <1>4, <1>6, <2>1, <2>3 DEF CommandsAligned
  <2> QED
    BY <2>2, <2>4
<1>10. ASSUME pipe = "open" PROVE res \in {Error, Settled + 1}
  <2>1. process = "running"
    BY <1>3, EmptySeq DEF Inv, TypeOK, GoneIsEmpty
  <2>2. stdout[1].request = Settled + 1
    BY <1>1, <1>10, <2>1 DEF Inv, Aligned, AnswersAligned
  <2> QED
    BY <1>2, <2>2
<1>11. OwnAnswer'
  <2>1. DOMAIN results = 1..Len(results) /\ DOMAIN results' = 1..Len(results)
    BY <1>3, <1>4, LenProperties DEF TypeOK
  <2> QED
    BY <1>4, <1>6, <1>10, <2>1 DEF Inv, OwnAnswer
<1>12. Aligned'
  BY <1>6, <1>9 DEF Aligned
<1> QED
  BY <1>4, <1>7, <1>8, <1>11, <1>12 DEF Inv

\* A line without a promise waiting can only be left from before a drain.
LEMMA DropLineInv == Inv /\ DropLine => Inv'
<1> SUFFICES ASSUME Inv, DropLine PROVE Inv'
  OBVIOUS
<1>1. UNCHANGED <<process, isReady, pendingQueue, results, engine, tree, pipe, stdin, index>>
  BY DEF DropLine, bridgeVars, engineVars
<1>2. stdout \in Seq(Answers) /\ stdout # <<>> /\ Len(pendingQueue) = 0
  BY DEF Inv, TypeOK, DropLine
<1>3. stdout' \in Seq(Answers) /\ Len(stdout) \in Nat \ {0}
  BY <1>2, HeadTailProperties, EmptySeq DEF DropLine
<1>4. ~ (pipe = "open" /\ process = "running")
  BY <1>2, <1>3 DEF Inv, Aligned, AnswersAligned
<1>5. TypeOK' /\ GoneIsEmpty'
  BY <1>1, <1>3 DEF Inv, TypeOK, GoneIsEmpty
<1>6. QueueIsTail' /\ OwnAnswer'
  BY <1>1 DEF Inv, QueueIsTail, Settled, OwnAnswer
<1>7. Aligned'
  BY <1>1, <1>4 DEF Aligned
<1> QED
  BY <1>5, <1>6, <1>7 DEF Inv

\* The PONG answers the only promise, and the seeding joins an empty pipe.
LEMMA ReadPongInv == Inv /\ ReadPong => Inv'
<1> SUFFICES ASSUME Inv, ReadPong PROVE Inv'
  OBVIOUS
<1> DEFINE R == {Pending, Error} \cup 1..MaxRequests
           k == Len(Seed)
           waiting == [i \in 1..k |-> Pending]
           new == Numbered(Seed, 1)
           m == Len(stdin)
<1>1. /\ UNCHANGED <<process, engine, tree, pipe, index>>
      /\ pendingQueue = <<1>>
      /\ stdout # <<>>
      /\ stdout' = Tail(stdout)
  BY DEF ReadPong, IsPong, engineVars
<1>2. /\ k \in Nat /\ MaxRequests \in Nat /\ 1 + k <= MaxRequests
      /\ DOMAIN Seed = 1..k
  <2>1. Cardinality(Virtual) \in Nat
    BY FS_CardinalityType, BridgeAssumption
  <2> QED
    BY <2>1, SeedIsSeq, LenProperties, BridgeAssumption
<1>3. Len(results) = 1 /\ Settled = 0 /\ Len(pendingQueue) = 1
  <2>1. pendingQueue[1] = 1 /\ Len(pendingQueue) = 1 /\ Len(results) \in Nat
    BY <1>1, LenProperties DEF Inv, TypeOK
  <2> QED
    BY <2>1 DEF Inv, QueueIsTail, Settled
<1>4. /\ new \in Seq(Lines)
      /\ Len(new) = k
      /\ \A i \in 1..k : new[i].request = 1 + i /\ IsAnswered(new[i])
  BY <1>2, SeedIsSeq, NumberedLines
<1>5. waiting \in Seq(R) /\ Len(waiting) = k
  <2>1. waiting \in [1..k -> R]
    OBVIOUS
  <2> QED
    BY <1>2, <2>1, FunctionIsSeq
<1>6. /\ results' \in Seq(R)
      /\ Len(results') = 1 + k
      /\ results'[1] = 1
      /\ \A i \in 2..1+k : results'[i] = Pending
  <2>1. results' = <<1>> \o waiting
    BY <1>2 DEF ReadPong
  <2>2. <<1>> \in Seq(R) /\ Len(<<1>>) = 1 /\ <<1>>[1] = 1
    BY <1>2
  <2>3. \A i \in 1..k : waiting[i] = Pending
    OBVIOUS
  <2> HIDE DEF R, waiting, k
  <2>4. /\ <<1>> \o waiting \in Seq(R)
        /\ Len(<<1>> \o waiting) = Len(<<1>>) + Len(waiting)
        /\ \A i \in 1..Len(<<1>>) + Len(waiting) :
              (<<1>> \o waiting)[i] =
                  IF i <= Len(<<1>>) THEN <<1>>[i] ELSE waiting[i - Len(<<1>>)]
    BY <1>5, <2>2, ConcatProperties
  <2> QED
    BY <1>2, <1>5, <2>1, <2>2, <2>3, <2>4
<1>7. /\ pendingQueue' \in Seq(1..MaxRequests)
      /\ Len(pendingQueue') = k
      /\ \A i \in 1..k : pendingQueue'[i] = 1 + i
  <2>1. pendingQueue' = [i \in 1..k |-> 1 + i]
    BY <1>2 DEF ReadPong
  <2>2. pendingQueue' \in [1..k -> 1..MaxRequests]
    BY <1>2, <2>1
  <2> QED
    BY <1>2, <2>1, <2>2, FunctionIsSeq
<1>8. stdin' = IF engine = "alive" THEN stdin \o new ELSE stdin
  BY DEF ReadPong
<1>9. /\ stdout' \in Seq(Answers) /\ Len(stdout') = Len(stdout) - 1
      /\ Len(stdout) \in Nat \ {0}
  BY <1>1, HeadTailProperties, EmptySeq DEF Inv, TypeOK
<1> HIDE DEF k, new, waiting
<1>10. /\ stdin \in Seq(Lines) /\ m \in Nat
       /\ stdin \o new \in Seq(Lines)
       /\ Len(stdin \o new) = m + k
       /\ \A i \in 1..m+k : (stdin \o new)[i] = IF i <= m THEN stdin[i] ELSE new[i - m]
  <2>1. stdin \in Seq(Lines) /\ m \in Nat
    BY LenProperties DEF Inv, TypeOK
  <2>2. /\ stdin \o new \in Seq(Lines)
        /\ Len(stdin \o new) = Len(stdin) + Len(new)
        /\ \A i \in 1..Len(stdin)+Len(new) :
              (stdin \o new)[i] = IF i <= Len(stdin) THEN stdin[i] ELSE new[i - Len(stdin)]
    BY <1>4, <2>1, ConcatProperties
  <2> QED
    BY <1>4, <2>1, <2>2
<1>11. TypeOK'
  <2>1. isReady' = TRUE
    BY DEF ReadPong
  <2> QED
    BY <1>1, <1>6, <1>7, <1>8, <1>9, <1>10, <2>1 DEF Inv, TypeOK
<1>12. Settled' = 1
  BY <1>2, <1>6, <1>7 DEF Settled
<1>13. QueueIsTail'
  BY <1>2, <1>6, <1>7, <1>12, BridgeAssumption DEF QueueIsTail
<1>14. process = "running" /\ GoneIsEmpty'
  BY <1>1, <1>3 DEF Inv, TypeOK, GoneIsEmpty
<1>15. OwnAnswer'
  <2>1. DOMAIN results' = 1..1+k
    BY <1>6, LenProperties
  <2>2. ASSUME NEW i \in 1..1+k PROVE results'[i] \in {Pending, Error, i}
    <3>1. CASE i = 1
      BY <1>6, <3>1
    <3>2. CASE i # 1
      BY <1>2, <1>6, <3>2
    <3> QED
      BY <3>1, <3>2
  <2> QED
    BY <2>1, <2>2 DEF OwnAnswer
<1>16. ASSUME pipe = "open"
       PROVE  AnswersAligned' /\ (engine = "alive" => CommandsAligned')
  <2>1. Len(stdout) = 1 /\ Len(stdout') = 0
    BY <1>3, <1>9, <1>14, <1>16 DEF Inv, Aligned, AnswersAligned
  <2>2. AnswersAligned'
    BY <1>2, <1>7, <2>1 DEF AnswersAligned
  <2>3. NextAnswer = 2 /\ NextAnswer' = 2
    BY <1>3, <1>12, <2>1 DEF NextAnswer
  <2>4. ASSUME engine = "alive" PROVE CommandsAligned'
    <3>1. \A i \in 1..m : ~ IsAnswered(stdin[i])
      BY <1>3, <1>14, <1>16, <2>3, <2>4 DEF Inv, Aligned, CommandsAligned
    <3>2. /\ Len(stdin') = m + k
          /\ \A i \in 1..m : ~ IsAnswered(stdin'[i])
          /\ \A i \in m+1..m+k : /\ stdin'[i].request = 1 + (i - m)
                                  /\ IsAnswered(stdin'[i])
      BY <1>2, <1>4, <1>8, <1>10, <2>4, <3>1
    <3>3. \A i \in 1..m+k : IsAnswered(stdin'[i])
                               => i \in m+1..m+k /\ stdin'[i].request = 1 + (i - m)
      BY <1>2, <1>10, <3>2
    <3>4. ASSUME NEW r \in 2..1+k
          PROVE  \E i \in 1..m+k : IsAnswered(stdin'[i]) /\ stdin'[i].request = r
      <4> DEFINE j == m + (r - 1)
      <4>1. j \in m+1..m+k /\ j \in 1..m+k /\ 1 + (j - m) = r
        BY <1>2, <1>10
      <4> HIDE DEF j
      <4> QED
        BY <3>2, <4>1
    <3>5. \A i \in 1..m+k : IsAnswered(stdin'[i]) => stdin'[i].request \in 2..1+k
      BY <1>2, <1>10, <3>3
    <3>6. ASSUME NEW i \in 1..m+k, NEW j \in 1..m+k, i < j,
                 IsAnswered(stdin'[i]), IsAnswered(stdin'[j])
          PROVE  stdin'[i].request < stdin'[j].request
      BY <1>2, <1>10, <3>3, <3>6
    <3> QED
      BY <1>6, <2>3, <3>2, <3>4, <3>5, <3>6 DEF CommandsAligned
  <2> QED
    BY <2>2, <2>4
<1>17. Aligned'
  BY <1>1, <1>16 DEF Aligned
<1> QED
  BY <1>11, <1>13, <1>14, <1>15, <1>17 DEF Inv

\* The engine's next command, if it wants an answer, is the request after those
\* answered.
LEMMA NextCommand ==
  ASSUME Inv, pipe = "open", process = "running", engine = "alive",
         stdin # <<>>, IsAnswered(Head(stdin))
  PROVE  Head(stdin).request = NextAnswer /\ NextAnswer <= Len(results)
<1>1. /\ stdin \in Seq(Lines) /\ Len(stdin) \in Nat \ {0} /\ Head(stdin) = stdin[1]
      /\ Len(results) \in Nat /\ Len(pendingQueue) \in Nat /\ Len(stdout) \in Nat
  BY LenProperties, EmptySeq DEF Inv, TypeOK
<1>2. NextAnswer \in Int
  BY <1>1 DEF NextAnswer, Settled
<1>3. CommandsAligned
  BY DEF Inv, Aligned
<1>4. stdin[1].request \in NextAnswer..Len(results)
  BY <1>1, <1>3 DEF CommandsAligned
<1>5. NextAnswer \in NextAnswer..Len(results)
  BY <1>1, <1>2, <1>4
<1>6. PICK i \in 1..Len(stdin) : IsAnswered(stdin[i]) /\ stdin[i].request = NextAnswer
  BY <1>3, <1>5 DEF CommandsAligned
<1>7. CASE i = 1
  BY <1>1, <1>5, <1>6, <1>7
<1>8. CASE i # 1
  <2>1. stdin[1].request < stdin[i].request
    BY <1>1, <1>3, <1>6, <1>8 DEF CommandsAligned
  <2> QED
    BY <1>1, <1>2, <1>4, <1>6, <2>1
<1> QED
  BY <1>7, <1>8

\* The type of what the engine does to its tree.
LEMMA ApplyType ==
  ASSUME NEW t \in SUBSET Drivers, NEW cmd \in Lines
  PROVE  Apply(t, cmd) \subseteq Drivers
BY DEF Apply, Lines

\* A printed answer, whole or not, continues the answers in order.
LEMMA AnswerPrinted ==
  ASSUME Inv, pipe = "open", process = "running", engine = "alive",
         stdin # <<>>, IsAnswered(Head(stdin)), NEW w \in BOOLEAN,
         stdout' = Append(stdout, [request |-> Head(stdin).request, whole |-> w]),
         UNCHANGED <<results, pendingQueue>>
  PROVE  AnswersAligned' /\ NextAnswer' = NextAnswer + 1
<1> DEFINE line == [request |-> Head(stdin).request, whole |-> w]
<1>1. /\ Head(stdin) \in Lines /\ stdout \in Seq(Answers)
      /\ Len(results) \in Nat /\ Len(pendingQueue) \in Nat /\ Len(stdout) \in Nat
  BY LenProperties, HeadTailProperties DEF Inv, TypeOK
<1>2. Head(stdin).request = NextAnswer /\ NextAnswer <= Len(results)
  BY NextCommand
<1>3. line \in Answers
  BY <1>1 DEF Lines, IsAnswered, Answers
<1>4. line.request = NextAnswer
  BY <1>2
<1> HIDE DEF line
<1>5. /\ Len(stdout') = Len(stdout) + 1
      /\ \A i \in 1..Len(stdout) : stdout'[i] = stdout[i]
      /\ stdout'[Len(stdout) + 1] = line
  <2>1. stdout' = Append(stdout, line)
    BY DEF line
  <2> QED
    BY <1>1, <1>3, <2>1, AppendProperties
<1>6. Settled' = Settled /\ Len(pendingQueue') = Len(pendingQueue)
  BY DEF Settled
<1>7. NextAnswer' = NextAnswer + 1
  BY <1>1, <1>5, <1>6 DEF NextAnswer, Settled
<1>8. Len(stdout') <= Len(pendingQueue')
  BY <1>1, <1>2, <1>5, <1>6 DEF NextAnswer, Settled
<1>9. ASSUME NEW k \in 1..Len(stdout') PROVE stdout'[k].request = Settled' + k
  <2>1. CASE k <= Len(stdout)
    BY <1>1, <1>5, <1>6, <2>1 DEF Inv, Aligned, AnswersAligned
  <2>2. CASE k > Len(stdout)
    <3>1. k = Len(stdout) + 1
      BY <1>1, <1>5, <2>2
    <3>2. stdout'[k] = line
      BY <1>5, <3>1
    <3>3. line.request = Settled + (Len(stdout) + 1)
      BY <1>1, <1>4 DEF NextAnswer, Settled
    <3> QED
      BY <1>6, <3>1, <3>2, <3>3
  <2> QED
    BY <1>1, <1>5, <2>1, <2>2
<1> QED
  BY <1>7, <1>8, <1>9 DEF AnswersAligned

LEMMA EngineStepInv == Inv /\ EngineStep => Inv'
<1> SUFFICES ASSUME Inv, EngineStep PROVE Inv'
  OBVIOUS
<1> DEFINE cmd == Head(stdin)
<1>1. /\ UNCHANGED <<process, isReady, pendingQueue, results, engine, pipe, index>>
      /\ engine = "alive" /\ stdin # <<>>
      /\ stdin' = Tail(stdin)
      /\ tree' = Apply(tree, cmd)
      /\ stdout' = IF IsAnswered(cmd)
                   THEN Append(stdout, [request |-> cmd.request, whole |-> TRUE])
                   ELSE stdout
  BY DEF EngineStep, bridgeVars
<1>2. /\ stdin \in Seq(Lines) /\ stdout \in Seq(Answers)
      /\ cmd \in Lines /\ cmd = stdin[1]
      /\ Len(stdin) \in Nat \ {0} /\ Len(stdout) \in Nat
      /\ stdin' \in Seq(Lines)
      /\ Len(stdin') = Len(stdin) - 1
      /\ \A i \in 1..Len(stdin') : stdin'[i] = stdin[i+1]
  BY <1>1, HeadTailProperties, LenProperties, EmptySeq DEF Inv, TypeOK
<1> HIDE DEF cmd
<1>3. TypeOK'
  <2>1. tree' \subseteq Drivers
    BY <1>1, <1>2, ApplyType DEF Inv, TypeOK
  <2>2. stdout' \in Seq(Answers)
    <3>1. IsAnswered(cmd) => [request |-> cmd.request, whole |-> TRUE] \in Answers
      BY <1>2 DEF Lines, IsAnswered, Answers
    <3> QED
      BY <1>1, <1>2, <3>1, AppendProperties
  <2> QED
    BY <1>1, <1>2, <2>1, <2>2 DEF Inv, TypeOK
<1>4. QueueIsTail' /\ GoneIsEmpty' /\ OwnAnswer'
  BY <1>1 DEF Inv, QueueIsTail, Settled, GoneIsEmpty, OwnAnswer
<1>5. ASSUME pipe = "open", process = "running"
      PROVE  AnswersAligned' /\ CommandsAligned'
  <2>1. AnswersAligned /\ CommandsAligned
    BY <1>1, <1>5 DEF Inv, Aligned
  <2>2. /\ Len(results') = Len(results) /\ Len(results) \in Nat
        /\ Settled' = Settled /\ NextAnswer \in Int
    BY <1>1, <1>2, LenProperties DEF Inv, TypeOK, Settled, NextAnswer
  <2>3. CASE IsAnswered(cmd)
    <3>1. AnswersAligned' /\ NextAnswer' = NextAnswer + 1
      BY <1>1, <1>5, <2>3, AnswerPrinted DEF cmd
    <3>2. stdin[1].request = NextAnswer
      BY <1>1, <1>2, <1>5, <2>3, NextCommand DEF cmd
    <3>3. ASSUME NEW i \in 1..Len(stdin'), IsAnswered(stdin'[i])
          PROVE  stdin'[i].request \in NextAnswer+1..Len(results)
      <4>1. i + 1 \in 1..Len(stdin) /\ 1 < i + 1 /\ 1 \in 1..Len(stdin)
            /\ stdin'[i] = stdin[i+1]
        BY <1>2
      <4>2. stdin[i+1].request \in NextAnswer..Len(results)
        BY <2>1, <3>3, <4>1 DEF CommandsAligned
      <4>3. stdin[1].request < stdin[i+1].request
        BY <1>2, <2>1, <2>3, <3>3, <4>1 DEF CommandsAligned
      <4> QED
        BY <2>2, <3>2, <4>1, <4>2, <4>3
    <3>4. ASSUME NEW i \in 1..Len(stdin'), NEW j \in 1..Len(stdin'), i < j,
                 IsAnswered(stdin'[i]), IsAnswered(stdin'[j])
          PROVE  stdin'[i].request < stdin'[j].request
      <4>1. /\ i + 1 \in 1..Len(stdin) /\ stdin'[i] = stdin[i+1]
            /\ j + 1 \in 1..Len(stdin) /\ stdin'[j] = stdin[j+1]
            /\ i + 1 < j + 1
        BY <1>2, <3>4
      <4> DEFINE a == i + 1
                 b == j + 1
      <4>2. /\ a \in 1..Len(stdin) /\ b \in 1..Len(stdin) /\ a < b
            /\ IsAnswered(stdin[a]) /\ IsAnswered(stdin[b])
        BY <3>4, <4>1
      <4> HIDE DEF a, b
      <4>3. stdin[a].request < stdin[b].request
        BY <2>1, <4>2 DEF CommandsAligned
      <4> QED
        BY <4>1, <4>3 DEF a, b
    <3>5. ASSUME NEW r \in NextAnswer+1..Len(results)
          PROVE  \E i \in 1..Len(stdin') : IsAnswered(stdin'[i]) /\ stdin'[i].request = r
      <4>1. PICK i \in 1..Len(stdin) : IsAnswered(stdin[i]) /\ stdin[i].request = r
        BY <2>1, <2>2 DEF CommandsAligned
      <4>2. i # 1
        BY <2>2, <3>2, <4>1
      <4>3. i - 1 \in 1..Len(stdin') /\ stdin'[i-1] = stdin[i]
        BY <1>2, <4>2
      <4> QED
        BY <4>1, <4>3
    <3>6. CommandsAligned'
      BY <2>2, <3>1, <3>3, <3>4, <3>5 DEF CommandsAligned
    <3> QED
      BY <3>1, <3>6
  <2>4. CASE ~ IsAnswered(cmd)
    <3>1. AnswersAligned' /\ NextAnswer' = NextAnswer
      BY <1>1, <2>1, <2>2, <2>4 DEF AnswersAligned, NextAnswer
    <3>2. ASSUME NEW i \in 1..Len(stdin'), IsAnswered(stdin'[i])
          PROVE  stdin'[i].request \in NextAnswer..Len(results)
      <4>1. i + 1 \in 1..Len(stdin) /\ stdin'[i] = stdin[i+1]
        BY <1>2
      <4> QED
        BY <2>1, <3>2, <4>1 DEF CommandsAligned
    <3>3. ASSUME NEW i \in 1..Len(stdin'), NEW j \in 1..Len(stdin'), i < j,
                 IsAnswered(stdin'[i]), IsAnswered(stdin'[j])
          PROVE  stdin'[i].request < stdin'[j].request
      <4>1. /\ i + 1 \in 1..Len(stdin) /\ stdin'[i] = stdin[i+1]
            /\ j + 1 \in 1..Len(stdin) /\ stdin'[j] = stdin[j+1]
            /\ i + 1 < j + 1
        BY <1>2, <3>3
      <4> DEFINE a == i + 1
                 b == j + 1
      <4>2. /\ a \in 1..Len(stdin) /\ b \in 1..Len(stdin) /\ a < b
            /\ IsAnswered(stdin[a]) /\ IsAnswered(stdin[b])
        BY <3>3, <4>1
      <4> HIDE DEF a, b
      <4>3. stdin[a].request < stdin[b].request
        BY <2>1, <4>2 DEF CommandsAligned
      <4> QED
        BY <4>1, <4>3 DEF a, b
    <3>4. ASSUME NEW r \in NextAnswer..Len(results)
          PROVE  \E i \in 1..Len(stdin') : IsAnswered(stdin'[i]) /\ stdin'[i].request = r
      <4>1. PICK i \in 1..Len(stdin) : IsAnswered(stdin[i]) /\ stdin[i].request = r
        BY <2>1 DEF CommandsAligned
      <4>2. i # 1
        BY <1>2, <2>4, <4>1
      <4>3. i - 1 \in 1..Len(stdin') /\ stdin'[i-1] = stdin[i]
        BY <1>2, <4>2
      <4> QED
        BY <4>1, <4>3
    <3>5. CommandsAligned'
      BY <2>2, <3>1, <3>2, <3>3, <3>4 DEF CommandsAligned
    <3> QED
      BY <3>1, <3>5
  <2> QED
    BY <2>3, <2>4
<1>6. Aligned'
  BY <1>1, <1>5 DEF Aligned
<1> QED
  BY <1>3, <1>4, <1>6 DEF Inv

LEMMA EngineDiesInv == Inv /\ EngineDies => Inv'
<1> SUFFICES ASSUME Inv, EngineDies PROVE Inv'
  OBVIOUS
<1>1. /\ UNCHANGED <<process, isReady, pendingQueue, results, tree, pipe, index>>
      /\ engine = "alive" /\ engine' = "exited" /\ stdin' = <<>>
  BY DEF EngineDies, bridgeVars
<1>2. QueueIsTail' /\ GoneIsEmpty' /\ OwnAnswer'
  BY <1>1 DEF Inv, QueueIsTail, Settled, GoneIsEmpty, OwnAnswer
<1>3. CASE UNCHANGED stdout
  <2>1. TypeOK'
    BY <1>1, <1>3, EmptySeq DEF Inv, TypeOK
  <2>2. Aligned'
    BY <1>1, <1>3 DEF Inv, Aligned, AnswersAligned, Settled
  <2> QED
    BY <1>2, <2>1, <2>2 DEF Inv
<1>4. CASE /\ stdin # <<>>
           /\ IsAnswered(Head(stdin))
           /\ stdout' = Append(stdout, [request |-> Head(stdin).request, whole |-> FALSE])
  <2>1. [request |-> Head(stdin).request, whole |-> FALSE] \in Answers
    <3>1. Head(stdin) \in Lines
      BY <1>4, HeadTailProperties DEF Inv, TypeOK
    <3> QED
      BY <1>4, <3>1 DEF Lines, IsAnswered, Answers
  <2>2. stdout' \in Seq(Answers)
    BY <1>4, <2>1, AppendProperties DEF Inv, TypeOK
  <2>3. TypeOK'
    BY <1>1, <2>2, EmptySeq DEF Inv, TypeOK
  <2>4. pipe = "open" /\ process = "running" => AnswersAligned'
    BY <1>1, <1>4, AnswerPrinted
  <2>5. Aligned'
    BY <1>1, <2>4 DEF Aligned
  <2> QED
    BY <1>2, <2>3, <2>5 DEF Inv
<1> QED
  BY <1>3, <1>4 DEF EngineDies

\* An update wants no answer, so it leaves the commands aligned.
LEMMA UpdateInv == Inv /\ Update => Inv'
<1> SUFFICES ASSUME Inv, Update PROVE Inv'
  OBVIOUS
<1> DEFINE cmd == Command("UPDATE", None, 0)
           m == Len(stdin)
<1>1. /\ UNCHANGED <<process, isReady, pendingQueue, results, engine, tree, pipe, stdout, index>>
      /\ stdin' = Append(stdin, cmd)
  BY DEF Update, bridgeVars, engineVars
<1>2. cmd \in Lines /\ ~ IsAnswered(cmd)
  BY DEF Command, Lines, IsAnswered
<1> HIDE DEF cmd
<1>3. stdin \in Seq(Lines) /\ m \in Nat
  BY LenProperties DEF Inv, TypeOK
<1>4. /\ stdin' \in Seq(Lines)
      /\ Len(stdin') = m + 1
      /\ \A i \in 1..m : stdin'[i] = stdin[i]
      /\ stdin'[m+1] = cmd
  BY <1>1, <1>2, <1>3, AppendProperties
<1>5. TypeOK' /\ QueueIsTail' /\ GoneIsEmpty' /\ OwnAnswer'
  BY <1>1, <1>4 DEF Inv, TypeOK, QueueIsTail, Settled, GoneIsEmpty, OwnAnswer
<1>6. AnswersAligned => AnswersAligned'
  BY <1>1 DEF AnswersAligned, Settled
<1>7. NextAnswer' = NextAnswer /\ Len(results') = Len(results)
  BY <1>1 DEF NextAnswer, Settled
<1>8. \A i \in 1..m+1 : IsAnswered(stdin'[i]) => i \in 1..m /\ stdin'[i] = stdin[i]
  BY <1>2, <1>3, <1>4
<1>9. ASSUME CommandsAligned PROVE CommandsAligned'
  <2>1. ASSUME NEW r \in NextAnswer..Len(results)
        PROVE  \E i \in 1..m+1 : IsAnswered(stdin'[i]) /\ stdin'[i].request = r
    <3>1. PICK i \in 1..m : IsAnswered(stdin[i]) /\ stdin[i].request = r
      BY <1>9 DEF CommandsAligned
    <3>2. i \in 1..m+1 /\ stdin'[i] = stdin[i]
      BY <1>3, <1>4
    <3> QED
      BY <3>1, <3>2
  <2>2. \A i \in 1..m+1 : IsAnswered(stdin'[i])
                             => stdin'[i].request \in NextAnswer..Len(results)
    BY <1>8, <1>9 DEF CommandsAligned
  <2>3. \A i, j \in 1..m+1 :
            i < j /\ IsAnswered(stdin'[i]) /\ IsAnswered(stdin'[j])
                => stdin'[i].request < stdin'[j].request
    BY <1>8, <1>9 DEF CommandsAligned
  <2> QED
    BY <1>4, <1>7, <2>1, <2>2, <2>3 DEF CommandsAligned
<1>10. Aligned'
  BY <1>1, <1>6, <1>9 DEF Inv, Aligned
<1> QED
  BY <1>5, <1>10 DEF Inv

\* Every step keeps the invariant.
LEMMA NextInv == Inv /\ [Next]_vars => Inv'
<1> SUFFICES ASSUME Inv, [Next]_vars PROVE Inv'
  OBVIOUS
<1>1. ASSUME NEW d \in Drivers, IdxInsert(d) PROVE Inv'
  <2>1. <<Op("INSERT", d)>> \in Seq(Ops)
    BY DEF Op, Ops
  <2>2. index' \subseteq Drivers
    BY <1>1 DEF IdxInsert, Inv, TypeOK
  <2> QED
    BY <1>1, <2>1, <2>2, SendIfAvailableInv DEF IdxInsert
<1>2. ASSUME NEW d \in Drivers, IdxRemove(d) PROVE Inv'
  <2>1. <<Op("REMOVE", d)>> \in Seq(Ops)
    BY DEF Op, Ops
  <2>2. index' \subseteq Drivers
    BY <1>2 DEF IdxRemove, Inv, TypeOK
  <2> QED
    BY <1>2, <2>1, <2>2, SendIfAvailableInv DEF IdxRemove
<1>3. CASE Query
  <2>1. <<Op("KNN", None)>> \in Seq(Ops)
    BY DEF Op, Ops
  <2>2. index' \subseteq Drivers
    BY <1>3 DEF Query, Inv, TypeOK
  <2> QED
    BY <1>3, <2>1, <2>2, SendInv DEF Query, Available, engineVars
<1>4. CASE ResetRegion
  <2>1. InsertVirtual \o Seed \in Seq(Ops)
    BY InsertVirtualIsSeq, SeedIsSeq, ConcatProperties
  <2>2. index' \subseteq Drivers
    BY <1>4, BridgeAssumption DEF ResetRegion
  <2> QED
    BY <1>4, <2>1, <2>2, SendIfAvailableInv DEF ResetRegion
<1>5. CASE UNCHANGED vars
  BY <1>5 DEF vars, bridgeVars, engineVars, Inv, TypeOK, QueueIsTail, GoneIsEmpty,
              Aligned, AnswersAligned, CommandsAligned, OwnAnswer, Settled, NextAnswer
<1> QED
  BY <1>1, <1>2, <1>3, <1>4, <1>5, UpdateInv, ProcessExitsInv, StdinFailsInv, StopInv,
     ReadLineInv, DropLineInv, ReadPongInv, EngineStepInv, EngineDiesInv DEF Next

-----------------------------------------------------------------------------
(* Theorems *)

\* The invariant holds throughout: types, the queue being the tail of the
\* promises made, and the alignment of promises, answers and commands.
THEOREM BridgeInvariant == Spec => []Inv
BY InitInv, NextInv, PTL DEF Spec

\* Until a write to the engine has failed, no promise sendCommand made is given
\* the answer to another request.
THEOREM OwnAnswerHolds == Spec => []OwnAnswer
<1>1. Inv => OwnAnswer
  BY DEF Inv
<1> QED
  BY <1>1, BridgeInvariant, PTL

\* Promises settle in the order in which sendCommand made them, whether by an
\* answer, by stop(), or by the end of the engine.
THEOREM SettledInOrderHolds == Spec => []SettledInOrder
<1>1. ASSUME Inv PROVE SettledInOrder
  <2>1. /\ DOMAIN results = 1..Len(results)
        /\ Len(results) \in Nat /\ Len(pendingQueue) \in Nat
    BY <1>1, LenProperties DEF Inv, TypeOK
  <2>2. \A i \in 1..Len(results) : results[i] = Pending <=> i > Settled
    BY <1>1 DEF Inv, QueueIsTail
  <2>3. Settled \in Int
    BY <2>1 DEF Settled
  <2> QED
    BY <2>1, <2>2, <2>3 DEF SettledInOrder
<1> QED
  BY <1>1, BridgeInvariant, PTL

-----------------------------------------------------------------------------
(* What the commands of a pipe make of the engine's tree *)

\* The command decides whether driver d is in the tree.
Decides(cmd, d) == cmd.op = "INIT" \/ (cmd.op \in {"INSERT", "REMOVE"} /\ cmd.driver = d)

Inserts(cmd, d) == cmd.op = "INSERT" /\ cmd.driver = d

\* Driver d is in tree t after the commands of w at the positions s: the last of
\* them that decides about d inserts it, or none does and d is in t.
InAfter(t, w, s, d) ==
    \/ d \in t /\ \A i \in s : ~Decides(w[i], d)
    \/ \E i \in s : Inserts(w[i], d) /\ \A j \in s : j > i => ~Decides(w[j], d)

TreeAfter(t, w, s) == {d \in Drivers : InAfter(t, w, s, d)}

\* Induction over the natural numbers up to n, for a set of numbers.
LEMMA CountingUp ==
  ASSUME NEW n \in Nat, NEW S, 0 \in S, \A i \in 0..(n - 1) : i \in S => i + 1 \in S
  PROVE  n \in S
<1> DEFINE T == {i \in Nat : i <= n /\ i \notin S}
<1> SUFFICES ASSUME T # {} PROVE FALSE
  OBVIOUS
<1>1. PICK i \in T : \A j \in T : ~(<<j, i>> \in OpToRel(<, Nat))
  BY NatLessThanWellFounded, WFMin
<1>2. i \in Nat /\ i <= n /\ i \notin S /\ i # 0
  BY <1>1
<1>3. i - 1 \in Nat /\ i - 1 <= n /\ i - 1 \in 0..(n - 1) /\ (i - 1) + 1 = i /\ i - 1 < i
  BY <1>2
<1>4. i - 1 \in T
  BY <1>2, <1>3
<1>5. <<i - 1, i>> \in OpToRel(<, Nat)
  BY <1>2, <1>3 DEF OpToRel
<1> QED
  BY <1>1, <1>4, <1>5

\* A set of positions has a last one.
LEMMA LastPosition ==
  ASSUME NEW n \in Nat, NEW s \in SUBSET (1..n), s # {}
  PROVE  Max(s) \in s /\ \A i \in s : i <= Max(s)
<1> DEFINE U == {k \in Nat : \E i \in s : k = n - i}
<1>0. \A i \in s : i \in 1..n /\ i \in Int /\ n - i \in Nat
  OBVIOUS
<1>1. U \subseteq Nat /\ U # {}
  BY <1>0
<1>2. PICK u \in U : \A v \in U : ~(<<v, u>> \in OpToRel(<, Nat))
  <2> HIDE DEF U
  <2> QED
    BY <1>1, NatLessThanWellFounded, WFMin
<1>3. \A v \in U : v \in Nat /\ u \in Nat /\ ~(v < u)
  BY <1>2 DEF OpToRel
<1>4. PICK m \in s : u = n - m
  BY <1>2
<1>5. ASSUME NEW i \in s PROVE m >= i
  <2>1. n - i \in U
    BY <1>0
  <2>2. ~(n - i < u)
    BY <1>3, <2>1
  <2> QED
    BY <1>0, <1>4, <2>2
<1>7. Max(s) \in s /\ \A i \in s : Max(s) >= i
  BY <1>5 DEF Max
<1>8. \A i \in s : i <= Max(s)
  <2> DEFINE x == Max(s)
  <2>1. x \in s /\ \A i \in s : x >= i
    BY <1>7
  <2> HIDE DEF x
  <2>2. \A i \in s : i <= x
    BY <1>0, <2>1
  <2> QED
    BY <2>2 DEF x
<1> QED
  BY <1>7, <1>8

\* The last command is applied to what the others make.
LEMMA LastApplied ==
  ASSUME NEW t \in SUBSET Drivers, NEW w \in Seq(Lines), NEW s \in SUBSET (1..Len(w)),
         NEW m \in s, \A i \in s : i <= m
  PROVE  TreeAfter(t, w, s) = Apply(TreeAfter(t, w, s \ {m}), w[m])
<1> DEFINE r == s \ {m}
<1>1. m \in 1..Len(w) /\ w[m] \in Lines /\ r \subseteq s
  OBVIOUS
<1>2. \A i \in s : (i \in r /\ i < m) \/ i = m
  BY <1>1
<1>3. \A i \in r : i < m /\ i \in Int /\ ~(m < i)
  BY <1>1
<1>4. m \notin r
  OBVIOUS
<1> HIDE DEF r
<1>5. ASSUME NEW d \in Drivers, ~Decides(w[m], d)
      PROVE  InAfter(t, w, s, d) <=> InAfter(t, w, r, d)
  <2>1. ~Inserts(w[m], d)
    BY <1>5 DEF Inserts, Decides
  <2> QED
    BY <1>1, <1>2, <1>3, <1>4, <1>5, <2>1 DEF InAfter
<1>6. ASSUME NEW d \in Drivers, Decides(w[m], d)
      PROVE  InAfter(t, w, s, d) <=> Inserts(w[m], d)
  BY <1>1, <1>2, <1>3, <1>4, <1>6 DEF InAfter
<1>7. \/ w[m].op = "INIT" \/ (w[m].op = "INSERT" /\ w[m].driver \in Drivers)
      \/ w[m].op = "REMOVE" \/ w[m].op \in {"PING", "KNN", "UPDATE"}
  BY <1>1 DEF Lines
<1>8. ASSUME NEW d \in Drivers
      PROVE  InAfter(t, w, s, d) <=> d \in Apply(TreeAfter(t, w, r), w[m])
  <2>1. d \in TreeAfter(t, w, r) <=> InAfter(t, w, r, d)
    BY DEF TreeAfter
  <2> QED
    BY <1>5, <1>6, <1>7, <2>1 DEF Apply, Decides, Inserts
<1>9. Apply(TreeAfter(t, w, r), w[m]) \subseteq Drivers
  BY <1>7 DEF Apply, TreeAfter
<1>10. TreeAfter(t, w, s) = Apply(TreeAfter(t, w, r), w[m])
  BY <1>8, <1>9 DEF TreeAfter
<1> QED
  BY <1>10 DEF r

\* What the fold over a pipe computes.
LEMMA FoldIs ==
  ASSUME NEW t \in SUBSET Drivers, NEW w \in Seq(Lines)
  PROVE  FoldLeft(Apply, t, w) = TreeAfter(t, w, 1..Len(w))
<1> DEFINE n == Len(w)
           Rest(f, s) == IF s = {} THEN t ELSE Apply(f[s \ {Max(s)}], w[Max(s)])
           Fold(f) == f = [s \in SUBSET (1..n) |-> Rest(f, s)]
           h == CHOOSE f : Fold(f)
           g == [s \in SUBSET (1..n) |-> TreeAfter(t, w, s)]
<1>0. n \in Nat /\ DOMAIN w = 1..n
  OBVIOUS
<1>1. FoldLeft(Apply, t, w) = h[1..n]
  BY <1>0 DEF FoldLeft, MapThenFoldSet
<1> HIDE DEF n
<1>2. TreeAfter(t, w, {}) = t
  BY DEF TreeAfter, InAfter
<1>3. ASSUME NEW s \in SUBSET (1..n) PROVE g[s] = Rest(g, s)
  <2>1. CASE s = {}
    BY <1>2, <2>1
  <2>2. CASE s # {}
    <3>1. Max(s) \in s /\ \A i \in s : i <= Max(s)
      BY <1>0, <2>2, LastPosition
    <3>2. TreeAfter(t, w, s) = Apply(TreeAfter(t, w, s \ {Max(s)}), w[Max(s)])
      BY <3>1, LastApplied DEF n
    <3> QED
      BY <2>2, <3>2
  <2> QED
    BY <2>1, <2>2
<1>4. Fold(g)
  BY <1>3
<1>5. Fold(h)
  <2> HIDE DEF Fold, g
  <2> QED
    BY <1>4
<1>6. \A s \in SUBSET (1..n) : h[s] = Rest(h, s)
  BY <1>5
<1> HIDE DEF h, g
<1> DEFINE U == {m \in Nat : m <= n => h[1..m] = TreeAfter(t, w, 1..m)}
<1>7. 0 \in U
  <2>1. 1..0 = {} /\ {} \in SUBSET (1..n)
    OBVIOUS
  <2>2. h[{}] = t
    BY <1>6, <2>1
  <2> QED
    BY <1>2, <2>1, <2>2
<1>8. ASSUME NEW m \in 0..(n - 1), m \in U PROVE m + 1 \in U
  <2>1. /\ m \in Nat /\ m + 1 \in Nat /\ m + 1 <= n /\ m <= n
        /\ 1..(m + 1) \in SUBSET (1..n) /\ m + 1 \in 1..(m + 1) /\ 1..(m + 1) # {}
        /\ 1..(m + 1) \ {m + 1} = 1..m
        /\ \A i \in 1..(m + 1) : i <= m + 1
    <3>1. m \in Nat /\ m + 1 \in Nat /\ m + 1 <= n /\ m <= n
      BY <1>0
    <3>2. 1..(m + 1) \in SUBSET (1..n) /\ m + 1 \in 1..(m + 1) /\ 1..(m + 1) # {}
      BY <1>0, <3>1
    <3>3. \A i : i \in 1..(m + 1) \ {m + 1} <=> i \in 1..m
      BY <3>1
    <3>4. \A i \in 1..(m + 1) : i <= m + 1
      BY <3>1
    <3>5. 1..(m + 1) \ {m + 1} = 1..m
      BY <3>3
    <3> QED
      BY <3>1, <3>2, <3>4, <3>5
  <2>2. Max(1..(m + 1)) = m + 1
    <3>1. Max(1..(m + 1)) \in 1..(m + 1) /\ \A i \in 1..(m + 1) : i <= Max(1..(m + 1))
      BY <2>1, LastPosition
    <3> QED
      BY <2>1, <3>1
  <2>3. h[1..(m + 1)] = Apply(h[1..m], w[m + 1])
    BY <1>6, <2>1, <2>2
  <2>4. TreeAfter(t, w, 1..(m + 1)) = Apply(TreeAfter(t, w, 1..m), w[m + 1])
    BY <2>1, LastApplied DEF n
  <2>5. h[1..m] = TreeAfter(t, w, 1..m)
    BY <1>8, <2>1
  <2> QED
    BY <2>1, <2>3, <2>4, <2>5
<1>9. n \in U
  <2> HIDE DEF U
  <2> QED
    BY <1>0, <1>7, <1>8, CountingUp
<1> QED
  BY <1>0, <1>1, <1>9 DEF n

Drained(t, w) == TreeAfter(t, w, 1..Len(w))

\* One pipe after the other.
LEMMA DrainedConcat ==
  ASSUME NEW t \in SUBSET Drivers, NEW w \in Seq(Lines), NEW v \in Seq(Lines)
  PROVE  Drained(t, w \o v) = Drained(Drained(t, w), v)
<1> DEFINE u == w \o v
           m == Len(w)
           k == Len(v)
<1>1. /\ m \in Nat /\ k \in Nat /\ Len(u) = m + k
      /\ \A i \in 1..m : u[i] = w[i]
      /\ \A i \in 1..k : u[i + m] = v[i]
  OBVIOUS
<1> HIDE DEF u, m, k
<1>2. \A i \in 1..m : i \in 1..(m + k) /\ i \in Int
  BY <1>1
<1>3. \A i \in 1..k : i + m \in 1..(m + k) /\ i \in Int /\ \A j \in 1..m : i + m > j /\ ~(j > i + m)
  BY <1>1
<1>4. \A i \in 1..(m + k) : i \in 1..m \/ \E j \in 1..k : i = j + m
  <2> TAKE i \in 1..(m + k)
  <2>1. i \in 1..m \/ (i - m \in 1..k /\ i = (i - m) + m)
    BY <1>1
  <2> QED
    BY <2>1
<1>5. \A i, j \in 1..k : i + m > j + m <=> i > j
  BY <1>1
<1>6. ASSUME NEW d
      PROVE  InAfter(t, u, 1..(m + k), d) <=>
                \/ InAfter(t, w, 1..m, d) /\ \A i \in 1..k : ~Decides(v[i], d)
                \/ \E i \in 1..k : Inserts(v[i], d) /\ \A j \in 1..k : j > i => ~Decides(v[j], d)
  <2>1. ASSUME NEW i \in 1..k
        PROVE  (\A j \in 1..(m + k) : j > i + m => ~Decides(u[j], d))
               <=> (\A j \in 1..k : j > i => ~Decides(v[j], d))
    BY <1>1, <1>3, <1>4, <1>5
  <2>2. ASSUME NEW i \in 1..m
        PROVE  (\A j \in 1..(m + k) : j > i => ~Decides(u[j], d))
               <=> /\ \A j \in 1..m : j > i => ~Decides(w[j], d)
                   /\ \A j \in 1..k : ~Decides(v[j], d)
    BY <1>1, <1>2, <1>3, <1>4
  <2>3. (\A j \in 1..(m + k) : ~Decides(u[j], d))
        <=> /\ \A j \in 1..m : ~Decides(w[j], d)
            /\ \A j \in 1..k : ~Decides(v[j], d)
    BY <1>1, <1>2, <1>3, <1>4
  <2>4. (\E i \in 1..(m + k) : Inserts(u[i], d) /\ \A j \in 1..(m + k) : j > i => ~Decides(u[j], d))
        <=> \/ \E i \in 1..m : Inserts(w[i], d) /\ \A j \in 1..(m + k) : j > i => ~Decides(u[j], d)
            \/ \E i \in 1..k : Inserts(v[i], d) /\ \A j \in 1..(m + k) : j > i + m => ~Decides(u[j], d)
    BY <1>1, <1>2, <1>3, <1>4
  <2> QED
    BY <2>1, <2>2, <2>3, <2>4 DEF InAfter
<1>7. Drained(t, u) = Drained(Drained(t, w), v)
  BY <1>1, <1>6 DEF Drained, TreeAfter, InAfter, m, k
<1> QED
  BY <1>7 DEF u

LEMMA DrainedOne ==
  ASSUME NEW t \in SUBSET Drivers, NEW c \in Lines
  PROVE  Drained(t, <<c>>) = Apply(t, c)
<1>1. <<c>> \in Seq(Lines) /\ Len(<<c>>) = 1 /\ <<c>>[1] = c /\ 1..1 = {1} /\ {1} \ {1} = {}
  OBVIOUS
<1>2. TreeAfter(t, <<c>>, {1}) = Apply(TreeAfter(t, <<c>>, {1} \ {1}), <<c>>[1])
  <2>1. {1} \in SUBSET (1..Len(<<c>>)) /\ 1 \in {1} /\ \A i \in {1} : i <= 1
    BY <1>1
  <2> QED
    BY <1>1, <2>1, LastApplied
<1>3. TreeAfter(t, <<c>>, {}) = t
  BY DEF TreeAfter, InAfter
<1> QED
  BY <1>1, <1>2, <1>3 DEF Drained

LEMMA DrainedIs ==
  ASSUME NEW t \in SUBSET Drivers, NEW w \in Seq(Lines)
  PROVE  Drained(t, w) \in SUBSET Drivers
BY DEF Drained, TreeAfter

\* The listing of the simulated drivers leaves out nobody.
LEMMA VirtualListed ==
  /\ Cardinality(Virtual) \in Nat
  /\ \A i \in 1..Cardinality(Virtual) : InsertVirtual[i].op = "INSERT" /\ InsertVirtual[i].driver \in Virtual
  /\ \A d \in Virtual : \E i \in 1..Cardinality(Virtual) : InsertVirtual[i].driver = d
<1> DEFINE m == Cardinality(Virtual)
           s == SetToSeq(Virtual)
<1>1. m \in Nat /\ ExistsBijection(1..m, Virtual)
  BY FS_CardinalityType, BridgeAssumption
<1>2. PICK f \in [1..m -> Virtual] : \A a, b \in 1..m : f[a] = f[b] => a = b
  BY <1>1 DEF ExistsBijection, Bijection, Injection, IsInjective
<1>3. s \in [1..m -> Virtual] /\ \A a, b \in 1..m : s[a] = s[b] => a = b
  <2>1. f \in [1..m -> Virtual] /\ IsInjective(f)
    BY <1>2 DEF IsInjective
  <2>2. s \in [1..m -> Virtual] /\ IsInjective(s)
    BY <2>1 DEF SetToSeq
  <2> HIDE DEF s
  <2>3. DOMAIN s = 1..m
    BY <2>2
  <2> QED
    BY <2>2, <2>3 DEF IsInjective
<1>4. s \in Injection(1..m, Virtual)
  BY <1>3 DEF Injection, IsInjective
<1>5. s \in Surjection(1..m, Virtual)
  <2>1. Cardinality(1..m) = m
    BY <1>1, FS_Interval
  <2> HIDE DEF s
  <2> QED
    BY <1>4, <2>1, FS_Injection, BridgeAssumption
<1>6. \A i \in 1..m : InsertVirtual[i].op = "INSERT" /\ InsertVirtual[i].driver = s[i]
  BY DEF InsertVirtual, Op
<1> HIDE DEF s
<1> QED
  BY <1>1, <1>3, <1>5, <1>6 DEF Surjection

\* An INIT and the insertions after it leave exactly the simulated drivers.
LEMMA DrainedSeed ==
  ASSUME NEW t \in SUBSET Drivers, NEW n \in Nat, n + Len(Seed) <= MaxRequests
  PROVE  Drained(t, Numbered(Seed, n)) = Virtual
<1> DEFINE m == Cardinality(Virtual)
           v == Numbered(Seed, n)
<1>1. /\ m \in Nat /\ Len(v) = m + 1 /\ Len(Seed) = m + 1 /\ DOMAIN Seed = 1..(m + 1)
  BY VirtualListed, SeedIsSeq, NumberedLines, LenProperties
<1>2. Seed[1].op = "INIT" /\ \A i \in 1..m : Seed[i + 1] = InsertVirtual[i]
  <2>1. /\ <<Op("INIT", None)>> \in Seq(Ops) /\ Len(<<Op("INIT", None)>>) = 1
        /\ <<Op("INIT", None)>>[1].op = "INIT"
    BY DEF Op, Ops
  <2> DEFINE a == <<Op("INIT", None)>>
             b == InsertVirtual
  <2>2. Seed = a \o b /\ b \in Seq(Ops) /\ Len(b) = m
    BY InsertVirtualIsSeq DEF Seed
  <2> HIDE DEF a, b
  <2>3. \A i \in 1..(1 + m) : (a \o b)[i] = IF i <= 1 THEN a[i] ELSE b[i - 1]
    BY <2>1, <2>2, ConcatProperties DEF a
  <2>4. (a \o b)[1] = a[1]
    <3>1. 1 \in 1..(1 + m) /\ 1 <= 1
      BY <1>1
    <3> HIDE DEF m
    <3> QED
      BY <2>3, <3>1
  <2>5. \A i \in 1..m : i + 1 \in 1..(1 + m) /\ ~(i + 1 <= 1) /\ (i + 1) - 1 = i
    BY <1>1
  <2> QED
    BY <2>1, <2>2, <2>3, <2>4, <2>5 DEF a, b
<1>3. \A i \in 1..(m + 1) : v[i].op = Seed[i].op /\ v[i].driver = Seed[i].driver
  BY <1>1 DEF Numbered, Command
<1> HIDE DEF v, m
<1>4. /\ 1 \in 1..(m + 1) /\ v[1].op = "INIT"
      /\ \A i \in 1..m : i + 1 \in 1..(m + 1) /\ i + 1 > 1
      /\ \A i \in 1..(m + 1) : i # 1 => i > 1 /\ \E j \in 1..m : i = j + 1
  <2>1. \A i \in 1..(m + 1) : i # 1 => i > 1 /\ i - 1 \in 1..m /\ i = (i - 1) + 1
    BY <1>1
  <2>2. 1 \in 1..(m + 1) /\ \A i \in 1..m : i + 1 \in 1..(m + 1) /\ i + 1 > 1
    BY <1>1
  <2> QED
    BY <1>2, <1>3, <2>1, <2>2
<1>5. /\ \A i \in 1..(m + 1) : i # 1 => v[i].op = "INSERT" /\ v[i].driver \in Virtual
      /\ \A d \in Virtual : \E i \in 1..(m + 1) : i # 1 /\ v[i].driver = d
  <2>1. \A i \in 1..m : v[i + 1].op = "INSERT" /\ v[i + 1].driver = InsertVirtual[i].driver
                        /\ InsertVirtual[i].driver \in Virtual
    BY <1>2, <1>3, <1>4, VirtualListed DEF m
  <2>2. \A d \in Virtual : \E i \in 1..m : InsertVirtual[i].driver = d
    BY VirtualListed DEF m
  <2>3. \A i \in 1..m : i + 1 # 1
    BY <1>1
  <2> QED
    BY <1>4, <2>1, <2>2, <2>3
<1>6. ASSUME NEW d \in Drivers, InAfter(t, v, 1..(m + 1), d) PROVE d \in Virtual
  <2>1. Decides(v[1], d)
    BY <1>4 DEF Decides
  <2>2. PICK i \in 1..(m + 1) : Inserts(v[i], d)
    BY <1>4, <1>6, <2>1 DEF InAfter
  <2> QED
    BY <1>4, <1>5, <2>2 DEF Inserts
<1>7. ASSUME NEW d \in Virtual PROVE InAfter(t, v, 1..(m + 1), d)
  <2> DEFINE s == {i \in 1..(m + 1) : i # 1 /\ v[i].driver = d}
  <2>1. s \in SUBSET (1..(m + 1)) /\ s # {}
    BY <1>5
  <2> DEFINE x == Max(s)
  <2>2. x \in s /\ \A i \in s : i <= x
    <3>1. m + 1 \in Nat
      BY <1>1
    <3> HIDE DEF s
    <3> QED
      BY <2>1, <3>1, LastPosition
  <2> HIDE DEF x
  <2>3. ASSUME NEW j \in 1..(m + 1), j > x PROVE ~Decides(v[j], d)
    <3>1. j # 1 /\ j \notin s
      BY <1>1, <2>2, <2>3
    <3>2. v[j].op = "INSERT" /\ v[j].driver # d
      BY <1>5, <3>1
    <3> QED
      BY <3>2 DEF Decides
  <2>4. Inserts(v[x], d) /\ x \in 1..(m + 1)
    BY <1>5, <2>2 DEF Inserts
  <2> QED
    BY <2>3, <2>4 DEF InAfter
<1>8. Drained(t, v) = Virtual
  BY <1>1, <1>6, <1>7, BridgeAssumption DEF Drained, TreeAfter
<1> QED
  BY <1>8 DEF v

-----------------------------------------------------------------------------
(* The mirror *)

\* Before the engine is ready no driver comes or goes; afterwards, what the pipe
\* makes of its tree is the index.  A bridge that is ready has asked for more than
\* the PONG, so that it is not made ready a second time.
Mirrored ==
    /\ isReady => Len(results) >= 2
    /\ ~EarlyTraffic =>
          /\ ~isReady /\ process = "running" => index = Virtual
          /\ Available /\ engine = "alive" => Drained(tree, stdin) = index

LEMMA InitMirrored == Init => Mirrored
BY DEF Init, Mirrored, Available

LEMMA BridgeTypes ==
  ASSUME Inv
  PROVE  /\ stdin \in Seq(Lines) /\ tree \in SUBSET Drivers /\ index \in SUBSET Drivers
         /\ Len(results) \in Nat
BY LenProperties DEF Inv, TypeOK

\* The commands of a caller reach the pipe behind the others.
LEMMA SendDrains ==
  ASSUME Inv, NEW ops \in Seq(Ops), Send(ops), engine = "alive"
  PROVE  /\ Numbered(ops, Len(results)) \in Seq(Lines)
         /\ Len(results) + Len(ops) <= MaxRequests
         /\ Drained(tree, stdin') = Drained(Drained(tree, stdin), Numbered(ops, Len(results)))
<1>1. /\ Len(results) + Len(ops) <= MaxRequests
      /\ stdin' = stdin \o Numbered(ops, Len(results))
  BY DEF Send
<1>2. Numbered(ops, Len(results)) \in Seq(Lines)
  BY <1>1, BridgeTypes, NumberedLines
<1> QED
  BY <1>1, <1>2, BridgeTypes, DrainedConcat

LEMMA SendOneDrains ==
  ASSUME Inv, NEW op, NEW d, Op(op, d) \in Ops, Send(<<Op(op, d)>>), engine = "alive"
  PROVE  /\ Command(op, d, Len(results) + 1) \in Lines
         /\ Drained(tree, stdin') = Apply(Drained(tree, stdin), Command(op, d, Len(results) + 1))
<1> DEFINE ops == <<Op(op, d)>>
           n == Len(results)
<1>1. ops \in Seq(Ops) /\ Len(ops) = 1 /\ DOMAIN ops = 1..1
  OBVIOUS
<1>2. /\ Numbered(ops, n) \in Seq(Lines)
      /\ Drained(tree, stdin') = Drained(Drained(tree, stdin), Numbered(ops, n))
      /\ n \in Nat
  BY <1>1, SendDrains, BridgeTypes
<1>3. Numbered(ops, n) = <<Command(op, d, n + 1)>>
  <2>1. ops[1].op = op /\ ops[1].driver = d
    BY DEF Op
  <2>2. Numbered(ops, n) = [i \in 1..1 |-> Command(ops[i].op, ops[i].driver, n + i)]
    BY <1>1 DEF Numbered
  <2> HIDE DEF ops
  <2>3. Numbered(ops, n) = [i \in 1..1 |-> Command(op, d, n + 1)]
    BY <2>1, <2>2
  <2> QED
    BY <2>3
<1>4. Command(op, d, n + 1) \in Lines
  <2> HIDE DEF ops, n
  <2>1. <<Command(op, d, n + 1)>> \in Seq(Lines)
    BY <1>2, <1>3
  <2> QED
    BY <2>1
<1>5. Drained(tree, stdin) \in SUBSET Drivers
  BY BridgeTypes, DrainedIs
<1> QED
  BY <1>2, <1>3, <1>4, <1>5, DrainedOne

\* A driver comes, goes, or is asked for.
LEMMA OneMirrored ==
  ASSUME Inv, Mirrored, NEW op, NEW d, Op(op, d) \in Ops, SendIfAvailable(<<Op(op, d)>>),
         Traffic, UNCHANGED <<process, isReady, engine, tree>>,
         \A n : index' = Apply(index, Command(op, d, n))
  PROVE  Mirrored'
<1>1. CASE Available
  <2>1. Send(<<Op(op, d)>>) /\ isReady
    BY <1>1 DEF SendIfAvailable, Available
  <2>2. Len(results') >= 2
    <3>1. <<Op(op, d)>> \in Seq(Ops) /\ Len(<<Op(op, d)>>) = 1 /\ DOMAIN <<Op(op, d)>> = 1..1
      OBVIOUS
    <3>2. Len(results') = Len(results) + 1
      <4>1. results' = results \o [i \in 1..1 |-> Pending]
        BY <2>1, <3>1 DEF Send
      <4>2. [i \in 1..1 |-> Pending] \in Seq({Pending}) /\ Len([i \in 1..1 |-> Pending]) = 1
        BY FunctionIsSeq
      <4>3. results \in Seq({Pending, Error} \cup 1..MaxRequests)
        BY DEF Inv, TypeOK
      <4> QED
        BY <4>1, <4>2, <4>3
    <3> QED
      BY <2>1, <3>2, BridgeTypes DEF Mirrored
  <2>3. ASSUME ~EarlyTraffic, engine = "alive" PROVE Drained(tree', stdin') = index'
    BY <1>1, <2>1, <2>3, SendOneDrains DEF Mirrored
  <2> QED
    BY <2>1, <2>2, <2>3 DEF Mirrored
<1>2. CASE ~Available
  <2>1. UNCHANGED <<results, stdin>> /\ ~Available'
    BY <1>2 DEF SendIfAvailable, Available
  <2>2. ~EarlyTraffic => isReady \/ process = "none"
    BY DEF Traffic
  <2> QED
    BY <2>1, <2>2 DEF Mirrored
<1> QED
  BY <1>1, <1>2

LEMMA IdxMirrored ==
  ASSUME Inv, Mirrored, NEW d \in Drivers, IdxInsert(d) \/ IdxRemove(d)
  PROVE  Mirrored'
<1>1. CASE IdxInsert(d)
  <2>1. Op("INSERT", d) \in Ops /\ \A n : index' = Apply(index, Command("INSERT", d, n))
    BY <1>1 DEF IdxInsert, Op, Ops, Apply, Command
  <2> QED
    BY <1>1, <2>1, OneMirrored DEF IdxInsert, engineVars
<1>2. CASE IdxRemove(d)
  <2>1. Op("REMOVE", d) \in Ops /\ \A n : index' = Apply(index, Command("REMOVE", d, n))
    BY <1>2 DEF IdxRemove, Op, Ops, Apply, Command
  <2> QED
    BY <1>2, <2>1, OneMirrored DEF IdxRemove, engineVars
<1> QED
  BY <1>1, <1>2

LEMMA QueryMirrored == ASSUME Inv, Mirrored, Query PROVE Mirrored'
<1>1. /\ Op("KNN", None) \in Ops
      /\ \A n : index' = Apply(index, Command("KNN", None, n))
  BY DEF Query, Op, Ops, Apply, Command
<1>2. Traffic /\ SendIfAvailable(<<Op("KNN", None)>>)
  BY DEF Query, Traffic, Available, SendIfAvailable
<1> QED
  BY <1>1, <1>2, OneMirrored DEF Query, engineVars

\* What stands where in a concatenation of lists of known lengths.
LEMMA ConcatIs ==
  ASSUME NEW S, NEW a \in Seq(S), NEW b \in Seq(S), NEW m \in Nat, NEW k \in Nat,
         Len(a) = m, Len(b) = k
  PROVE  /\ a \o b \in Seq(S) /\ Len(a \o b) = m + k
         /\ DOMAIN a = 1..m /\ DOMAIN b = 1..k /\ DOMAIN (a \o b) = 1..(m + k)
         /\ \A i \in 1..(m + k) : (a \o b)[i] = IF i <= m THEN a[i] ELSE b[i - m]
<1>1. /\ a \o b \in Seq(S) /\ Len(a \o b) = Len(a) + Len(b)
      /\ \A i \in 1..(Len(a) + Len(b)) : (a \o b)[i] = IF i <= Len(a) THEN a[i] ELSE b[i - Len(a)]
  BY ConcatProperties
<1>2. DOMAIN a = 1..Len(a) /\ DOMAIN b = 1..Len(b) /\ DOMAIN (a \o b) = 1..Len(a \o b)
  BY <1>1, LenProperties
<1> QED
  BY <1>1, <1>2

\* The drivers registered anew are inserted, and then forgotten by the INIT.
LEMMA ResetRegionMirrored == ASSUME Inv, Mirrored, ResetRegion PROVE Mirrored'
<1> DEFINE ops == InsertVirtual \o Seed
           n == Len(results)
           m == Len(InsertVirtual)
<1>1. /\ Traffic /\ index' = Virtual /\ SendIfAvailable(ops)
      /\ UNCHANGED <<process, isReady, engine, tree>>
  BY DEF ResetRegion, engineVars
<1>2. /\ InsertVirtual \in Seq(Ops) /\ Seed \in Seq(Ops) /\ ops \in Seq(Ops)
      /\ Len(ops) = m + Len(Seed) /\ m \in Nat /\ Len(Seed) \in Nat /\ n \in Nat
      /\ DOMAIN ops = 1..(m + Len(Seed))
      /\ DOMAIN InsertVirtual = 1..m /\ DOMAIN Seed = 1..Len(Seed)
      /\ \A i \in 1..(m + Len(Seed)) : ops[i] = IF i <= m THEN InsertVirtual[i] ELSE Seed[i - m]
  <2>1. InsertVirtual \in Seq(Ops) /\ Seed \in Seq(Ops) /\ n \in Nat
    BY InsertVirtualIsSeq, SeedIsSeq, BridgeTypes
  <2>2. m \in Nat /\ Len(Seed) \in Nat
    BY <2>1, LenProperties
  <2>3. /\ ops \in Seq(Ops) /\ Len(ops) = m + Len(Seed)
        /\ DOMAIN InsertVirtual = 1..m /\ DOMAIN Seed = 1..Len(Seed)
        /\ DOMAIN ops = 1..(m + Len(Seed))
        /\ \A i \in 1..(m + Len(Seed)) : ops[i] = IF i <= m THEN InsertVirtual[i] ELSE Seed[i - m]
    BY <2>1, <2>2, ConcatIs
  <2> QED
    BY <2>1, <2>2, <2>3
<1> HIDE DEF ops
<1>3. CASE Available
  <2>1. Send(ops) /\ isReady /\ n + Len(ops) <= MaxRequests
    BY <1>1, <1>3 DEF SendIfAvailable, Available, Send
  <2>2. Len(results') >= 2
    <3>1. results' = results \o [i \in 1..(m + Len(Seed)) |-> Pending]
      BY <1>2, <2>1 DEF Send
    <3>2. m + Len(Seed) \in Nat
      BY <1>2
    <3>3. [i \in 1..(m + Len(Seed)) |-> Pending] \in Seq({Pending})
      BY <3>2, FunctionIsSeq
    <3>4. Len(results') >= n
      <4>1. results \in Seq({Pending, Error} \cup 1..MaxRequests)
        BY DEF Inv, TypeOK
      <4> DEFINE more == [i \in 1..(m + Len(Seed)) |-> Pending]
      <4>2. more \in Seq({Pending}) /\ results' = results \o more /\ Len(more) \in Nat
        BY <3>1, <3>3, LenProperties
      <4> HIDE DEF more
      <4> QED
        BY <1>2, <4>1, <4>2
    <3> QED
      BY <1>2, <2>1, <3>4, BridgeTypes DEF Mirrored
  <2>3. ASSUME engine = "alive" PROVE Drained(tree', stdin') = Virtual
    <3> DEFINE a == Numbered(InsertVirtual, n)
               b == Numbered(Seed, n + m)
    <3>1. Drained(tree, stdin') = Drained(Drained(tree, stdin), Numbered(ops, n))
      BY <1>2, <2>1, <2>3, SendDrains
    <3>2. n + m \in Nat /\ (n + m) + Len(Seed) <= MaxRequests /\ n + m <= MaxRequests
      BY <1>2, <2>1, BridgeAssumption
    <3>3. a \in Seq(Lines) /\ b \in Seq(Lines) /\ Len(a) = m /\ Len(b) = Len(Seed)
      BY <1>2, <3>2, NumberedLines
    <3>4. Numbered(ops, n) = a \o b
      <4>1. /\ \A i \in 1..m : a[i] = Command(InsertVirtual[i].op, InsertVirtual[i].driver, n + i)
            /\ \A i \in 1..Len(Seed) : b[i] = Command(Seed[i].op, Seed[i].driver, (n + m) + i)
        BY <1>2 DEF Numbered
      <4>2. /\ \A i \in 1..(m + Len(Seed)) : Numbered(ops, n)[i] = Command(ops[i].op, ops[i].driver, n + i)
            /\ Numbered(ops, n) \in Seq(Lines) /\ Len(Numbered(ops, n)) = m + Len(Seed)
        BY <1>2, <2>1, NumberedLines DEF Numbered
      <4> HIDE DEF a, b
      <4>3. /\ a \o b \in Seq(Lines) /\ Len(a \o b) = m + Len(Seed)
            /\ \A i \in 1..(m + Len(Seed)) : (a \o b)[i] = IF i <= m THEN a[i] ELSE b[i - m]
        <5> DEFINE k == Len(Seed)
        <5>1. m \in Nat /\ k \in Nat /\ Len(a) = m /\ Len(b) = k
          BY <1>2, <3>3
        <5> HIDE DEF m, k
        <5>2. /\ a \o b \in Seq(Lines) /\ Len(a \o b) = m + k
              /\ \A i \in 1..(m + k) : (a \o b)[i] = IF i <= m THEN a[i] ELSE b[i - m]
          BY <3>3, <5>1, ConcatIs
        <5> QED
          BY <5>2 DEF k
      <4> HIDE DEF m, n
      <4>4. ASSUME NEW i \in 1..(m + Len(Seed)) PROVE Numbered(ops, n)[i] = (a \o b)[i]
        <5>1. CASE i <= m
          <6>1. i \in 1..m
            BY <1>2, <5>1
          <6> QED
            BY <1>2, <4>1, <4>2, <4>3, <5>1, <6>1
        <5>2. CASE ~(i <= m)
          <6>1. i - m \in 1..Len(Seed) /\ (n + m) + (i - m) = n + i
            BY <1>2, <5>2
          <6> QED
            BY <1>2, <4>1, <4>2, <4>3, <5>2, <6>1
        <5> QED
          BY <5>1, <5>2
      <4> QED
        BY <4>2, <4>3, <4>4
    <3> HIDE DEF a, b, m, n
    <3>5. Drained(tree, stdin) \in SUBSET Drivers
      BY BridgeTypes, DrainedIs
    <3>6. /\ Drained(Drained(tree, stdin), a) \in SUBSET Drivers
          /\ Drained(Drained(tree, stdin), a \o b) = Drained(Drained(Drained(tree, stdin), a), b)
      BY <3>3, <3>5, DrainedIs, DrainedConcat
    <3>7. Drained(Drained(Drained(tree, stdin), a), b) = Virtual
      BY <3>2, <3>6, DrainedSeed DEF b
    <3> QED
      BY <1>1, <3>1, <3>4, <3>6, <3>7
  <2> QED
    BY <1>1, <2>1, <2>2, <2>3 DEF Mirrored
<1>4. CASE ~Available
  BY <1>1, <1>4 DEF Mirrored, SendIfAvailable, Available
<1> QED
  BY <1>3, <1>4

\* The engine is ready and seeded; no driver has come or gone until then.
LEMMA ReadPongMirrored == ASSUME Inv, Mirrored, ReadPong PROVE Mirrored'
<1>1. /\ pendingQueue = <<1>> /\ isReady' = TRUE
      /\ results' = <<1>> \o [i \in DOMAIN Seed |-> Pending]
      /\ stdin' = IF engine = "alive" THEN stdin \o Numbered(Seed, 1) ELSE stdin
      /\ UNCHANGED <<process, engine, tree, index>>
  BY DEF ReadPong, IsPong, engineVars
<1>2. Len(results) = 1
  <2>1. pendingQueue[1] = 1 /\ Len(pendingQueue) = 1 /\ Len(results) \in Nat
    BY <1>1, LenProperties DEF Inv, TypeOK
  <2> QED
    BY <2>1 DEF Inv, QueueIsTail, Settled
<1>3. ~isReady
  BY <1>2 DEF Mirrored
<1>4. /\ Len(Seed) \in Nat /\ Len(Seed) >= 1 /\ DOMAIN Seed = 1..Len(Seed)
      /\ 1 + Len(Seed) <= MaxRequests /\ Seed \in Seq(Ops)
  BY SeedIsSeq, VirtualListed, LenProperties, BridgeAssumption
<1>5. Len(results') >= 2
  <2> DEFINE more == [i \in 1..Len(Seed) |-> Pending]
  <2>1. more \in Seq({Pending}) /\ Len(more) = Len(Seed)
    BY <1>4, FunctionIsSeq
  <2>2. results' = <<1>> \o more
    BY <1>1, <1>4
  <2> HIDE DEF more
  <2>3. <<1>> \in Seq({1}) /\ Len(<<1>>) = 1
    OBVIOUS
  <2>4. Len(<<1>> \o more) = 1 + Len(more)
    BY <2>1, <2>3
  <2> QED
    BY <1>4, <2>1, <2>2, <2>4
<1>6. ASSUME engine = "alive" PROVE Drained(tree', stdin') = Virtual
  <2>1. Numbered(Seed, 1) \in Seq(Lines)
    BY <1>4, NumberedLines
  <2>2. Drained(tree, stdin') = Drained(Drained(tree, stdin), Numbered(Seed, 1))
    BY <1>1, <1>6, <2>1, BridgeTypes, DrainedConcat
  <2>3. Drained(tree, stdin) \in SUBSET Drivers
    BY BridgeTypes, DrainedIs
  <2> QED
    BY <1>1, <1>4, <2>2, <2>3, DrainedSeed
<1> QED
  BY <1>1, <1>3, <1>5, <1>6 DEF Mirrored, Available

\* A command of the pipe is carried out.
LEMMA EngineStepMirrored == ASSUME Inv, Mirrored, EngineStep PROVE Mirrored'
<1> DEFINE c == Head(stdin)
           w == Tail(stdin)
<1>1. /\ stdin # <<>> /\ tree' = Apply(tree, c) /\ stdin' = w
      /\ UNCHANGED <<process, isReady, results, engine, index>>
  BY DEF EngineStep, bridgeVars
<1>2. c \in Lines /\ w \in Seq(Lines) /\ stdin = <<c>> \o w /\ <<c>> \in Seq(Lines)
  <2>1. stdin \in Seq(Lines) /\ stdin # <<>>
    BY <1>1, BridgeTypes
  <2> QED
    BY <2>1
<1> HIDE DEF c, w
<1>3. Drained(tree, stdin) = Drained(Drained(tree, <<c>>), w)
  BY <1>2, BridgeTypes, DrainedConcat
<1>4. Drained(tree, <<c>>) = Apply(tree, c)
  BY <1>2, BridgeTypes, DrainedOne
<1> QED
  BY <1>1, <1>3, <1>4 DEF Mirrored, Available

LEMMA UpdateMirrored == ASSUME Inv, Mirrored, Update PROVE Mirrored'
<1> DEFINE c == Command("UPDATE", None, 0)
<1>1. /\ stdin' = Append(stdin, c)
      /\ UNCHANGED <<process, isReady, results, engine, tree, index>>
  BY DEF Update, bridgeVars, engineVars
<1>2. c \in Lines /\ \A t : Apply(t, c) = t
  BY DEF Command, Lines, Apply
<1> HIDE DEF c
<1>3. stdin' = stdin \o <<c>> /\ <<c>> \in Seq(Lines)
  BY <1>1, <1>2, BridgeTypes
<1>4. Drained(tree, stdin') = Apply(Drained(tree, stdin), c)
  <2>1. Drained(tree, stdin) \in SUBSET Drivers
    BY BridgeTypes, DrainedIs
  <2> QED
    BY <1>2, <1>3, <2>1, BridgeTypes, DrainedConcat, DrainedOne
<1> QED
  BY <1>1, <1>2, <1>4 DEF Mirrored, Available

\* No step of the rest makes the bridge available, adds to the pipe of a living
\* engine or moves a driver.
LEMMA OtherMirrored ==
  ASSUME Inv, Mirrored,
         ProcessExits \/ StdinFails \/ Stop \/ ReadLine \/ DropLine \/ EngineDies \/ UNCHANGED vars
  PROVE  Mirrored'
<1>1. CASE ProcessExits \/ Stop
  BY <1>1 DEF ProcessExits, Stop, Mirrored, Available
<1>2. CASE StdinFails
  <2>1. engine = "exited" /\ UNCHANGED <<process, isReady, engine, index>>
    BY <1>2 DEF StdinFails, engineVars
  <2>2. Len(results') = Len(results)
    <3>1. results' = [i \in DOMAIN results |-> IF results[i] = Pending THEN Error ELSE results[i]]
      BY <1>2 DEF StdinFails, Drain
    <3>2. results \in Seq({Pending, Error} \cup 1..MaxRequests)
      BY DEF Inv, TypeOK
    <3>3. DOMAIN results = 1..Len(results) /\ Len(results) \in Nat
      BY <3>2, LenProperties
    <3>4. results' \in [1..Len(results) -> {Pending, Error} \cup 1..MaxRequests]
      BY <3>1, <3>2, <3>3
    <3> QED
      BY <3>3, <3>4, FunctionIsSeq
  <2> QED
    BY <2>1, <2>2 DEF Mirrored, Available
<1>3. CASE ReadLine
  <2>1. UNCHANGED <<process, isReady, engine, tree, index, stdin>>
    BY <1>3 DEF ReadLine, engineVars
  <2>2. Len(results') = Len(results)
    BY <1>3 DEF ReadLine, Inv, TypeOK
  <2> QED
    BY <2>1, <2>2 DEF Mirrored, Available
<1>4. CASE DropLine \/ UNCHANGED vars
  BY <1>4 DEF DropLine, vars, bridgeVars, engineVars, Mirrored, Available
<1>5. CASE EngineDies
  BY <1>5 DEF EngineDies, bridgeVars, Mirrored, Available
<1> QED
  BY <1>1, <1>2, <1>3, <1>4, <1>5

\* The index is mirrored, once the pipe is drained, throughout.
THEOREM MirrorInvariant == Spec => []Mirrored
<1>1. Inv /\ Mirrored /\ [Next]_vars => Mirrored'
  BY IdxMirrored, QueryMirrored, ResetRegionMirrored, ReadPongMirrored, EngineStepMirrored,
     UpdateMirrored, OtherMirrored DEF Next
<1> QED
  BY <1>1, InitMirrored, BridgeInvariant, PTL DEF Spec

\* Where no driver comes or goes before the engine is ready (the server waits for
\* start() before it simulates), the tree of a living engine is, after the commands
\* in its pipe, the index of the registry: no order of insertions, removals, regions
\* and crashes makes the two engines answer differently.
THEOREM MirrorInSyncHolds ==
  ASSUME ~EarlyTraffic
  PROVE  Spec => []MirrorInSync
<1>1. Inv /\ Mirrored => MirrorInSync
  BY BridgeTypes, FoldIs DEF Mirrored, MirrorInSync, Drained
<1> QED
  BY <1>1, BridgeInvariant, MirrorInvariant, PTL
=============================================================================
