--------------------------- MODULE SimulatorProofs ---------------------------
(***************************************************************************)
(* The simulated ride service keeps its virtual drivers with their trips,  *)
(* for any number of riders, drivers, requests, trips and resets of the    *)
(* region, whatever driver panels report, and whatever the dashboard on    *)
(* top of it orders, cancels and reports.                                  *)
(*                                                                         *)
(* The offer loops and the wire.  Exactly the loops that commit or save    *)
(* have a command on the wire, once; a driver under lease belongs to one   *)
(* loop; and the commit of a driver whose last match is still being saved  *)
(* waits behind that save (PoolInv).                                       *)
(*                                                                         *)
(* Trips and drivers.  The entry of a driver names a trip of the driver    *)
(* that is assigned, a virtual driver follows a trip it was matched with,  *)
(* a trip waits at its pickup only with its driver there or because a      *)
(* panel reported so, and a match that is being saved has been announced   *)
(* to nobody (RideInv).                                                    *)
(*                                                                         *)
(* Without resets and short rides, the trip a driver is booked for is then *)
(* being saved, or the virtual driver is on the way to its pickup, there   *)
(* with a boarding timer running, or on the way to the dropoff             *)
(* (DrivenInv), however far ahead of it a panel says the trip is.  With no *)
(* timer left a driver at the dropoff completes its trip, and is announced *)
(* the next one only when free: this is where the order of save and commit *)
(* on the wire enters.                                                     *)
(*                                                                         *)
(* The indices of the state machine agree with its trips here too: every   *)
(* step but the reset is a step of it, and the reset drops the entries of  *)
(* the trips it cancels and leaves the others theirs.  So every trip with  *)
(* a driver has the driver's entry, and DrivenInv, which is about entries, *)
(* is about every ride.                                                    *)
(*                                                                         *)
(* The dashboard.  Until the first reset, the last message under way about *)
(* a trip of the dashboard says what has become of the trip, so a hook     *)
(* that has read its messages and missed none shows the present status     *)
(* (ViewInv).  The match of a trip already cancelled would be announced    *)
(* last; that the dashboard cannot cancel before the announcement, nor a   *)
(* panel report, since they learn the trip's id from it, is where          *)
(* OwnDashboard enters.                                                    *)
(***************************************************************************)
EXTENDS RiderView, FiniteSetTheorems, SequenceTheorems, WellFoundedInduction, TLAPS

\* The values of loops and of commands.
LoopStates == [at : {"idle", "top", "offer", "commit", "saving", "rollback"},
               driver : Drivers \cup {None}, tried : SUBSET Drivers]

Calls == [call : {"save", "fail", "commit", "free", "reset"},
          trip : FSM!TripIds \cup {None}, driver : Drivers \cup {None}]

-----------------------------------------------------------------------------
(* Calls on the wire *)

Occurs(w, c) == \E i \in DOMAIN w : w[i] = c
Once(w, c) == \A i, j \in DOMAIN w : w[i] = c /\ w[j] = c => i = j
Before(w, b, c) == \A i, j \in DOMAIN w : w[i] = b /\ w[j] = c => i < j

LEMMA CallsAre ==
  ASSUME NEW t \in FSM!TripIds, NEW d \in Drivers
  PROVE  /\ SaveCall(t) \in Calls /\ FailCall(t) \in Calls /\ CommitCall(t) \in Calls
         /\ FreeCall(t, d) \in Calls /\ ResetCall \in Calls
BY DEF SaveCall, FailCall, CommitCall, FreeCall, ResetCall, Calls

LEMMA CallsDiffer ==
  /\ \A t, u : SaveCall(t) = SaveCall(u) => t = u
  /\ \A t, u : CommitCall(t) = CommitCall(u) => t = u
  /\ \A t, u, d : /\ SaveCall(t) # CommitCall(u) /\ SaveCall(t) # FailCall(u)
                  /\ SaveCall(t) # FreeCall(u, d) /\ SaveCall(t) # ResetCall
                  /\ CommitCall(t) # FailCall(u)
                  /\ CommitCall(t) # FreeCall(u, d) /\ CommitCall(t) # ResetCall
                  /\ ResetCall # FailCall(u) /\ ResetCall # FreeCall(u, d)
<1>1. ASSUME NEW t, NEW u, NEW d
      PROVE  /\ SaveCall(t).call = "save" /\ CommitCall(t).call = "commit"
             /\ FailCall(t).call = "fail" /\ FreeCall(t, d).call = "free"
             /\ ResetCall.call = "reset"
             /\ SaveCall(t).trip = t /\ CommitCall(t).trip = t
  BY DEF SaveCall, FailCall, CommitCall, FreeCall, ResetCall
<1> QED
  BY <1>1

LEMMA AppendFacts ==
  ASSUME NEW S, NEW w \in Seq(S), NEW c \in S
  PROVE  /\ Append(w, c) \in Seq(S)
         /\ \A b : Occurs(Append(w, c), b) <=> Occurs(w, b) \/ b = c
         /\ \A b : Once(w, b) /\ (b = c => ~Occurs(w, b)) => Once(Append(w, c), b)
         /\ \A a, b : Before(w, a, b) /\ (a = c => ~Occurs(w, b)) /\ a # b
                      => Before(Append(w, c), a, b)
<1>1. /\ Append(w, c) \in Seq(S) /\ Len(Append(w, c)) = Len(w) + 1 /\ Len(w) \in Nat
      /\ \A i \in 1..Len(w) : Append(w, c)[i] = w[i]
      /\ Append(w, c)[Len(w) + 1] = c
      /\ DOMAIN w = 1..Len(w) /\ DOMAIN Append(w, c) = 1..(Len(w) + 1)
  OBVIOUS
<1> DEFINE v == Append(w, c)
           n == Len(w)
<1> HIDE DEF v, n
<1>2. /\ v \in Seq(S) /\ n \in Nat /\ \A i \in 1..n : v[i] = w[i] /\ v[n + 1] = c
      /\ v[n + 1] = c /\ DOMAIN w = 1..n /\ DOMAIN v = 1..(n + 1)
      /\ \A i \in DOMAIN v : i \in 1..n \/ i = n + 1
  BY <1>1 DEF v, n
<1>3. \A b : Occurs(v, b) <=> Occurs(w, b) \/ b = c
  BY <1>2 DEF Occurs
<1>4. ASSUME NEW b, Once(w, b), b = c => ~Occurs(w, b) PROVE Once(v, b)
  BY <1>2, <1>4 DEF Occurs, Once
<1>5. ASSUME NEW a, NEW b, Before(w, a, b), a = c => ~Occurs(w, b), a # b
      PROVE  Before(v, a, b)
  BY <1>2, <1>5 DEF Occurs, Before
<1> QED
  BY <1>2, <1>3, <1>4, <1>5 DEF v

LEMMA TailFacts ==
  ASSUME NEW S, NEW w \in Seq(S), w # <<>>
  PROVE  /\ Tail(w) \in Seq(S) /\ Occurs(w, Head(w)) /\ Head(w) \in S
         /\ \A b : Occurs(Tail(w), b) => Occurs(w, b)
         /\ \A b : b # Head(w) /\ Occurs(w, b) => Occurs(Tail(w), b)
         /\ Once(w, Head(w)) => ~Occurs(Tail(w), Head(w))
         /\ \A b : Once(w, b) => Once(Tail(w), b)
         /\ \A a, b : Before(w, a, b) => Before(Tail(w), a, b)
         /\ \A a : Before(w, a, Head(w)) => ~Occurs(w, a)
<1>1. /\ Tail(w) \in Seq(S) /\ Head(w) = w[1] /\ Head(w) \in S
      /\ Len(w) \in Nat \ {0} /\ Len(Tail(w)) = Len(w) - 1
      /\ DOMAIN w = 1..Len(w) /\ DOMAIN Tail(w) = 1..(Len(w) - 1)
      /\ \A i \in 1..(Len(w) - 1) : Tail(w)[i] = w[i + 1]
  OBVIOUS
<1> DEFINE v == Tail(w)
           n == Len(w)
           c == Head(w)
<1> HIDE DEF v, n, c
<1>2. /\ v \in Seq(S) /\ c = w[1] /\ c \in S /\ n \in Nat \ {0}
      /\ DOMAIN w = 1..n /\ DOMAIN v = 1..(n - 1)
      /\ \A i \in DOMAIN v : v[i] = w[i + 1] /\ i + 1 \in DOMAIN w
      /\ 1 \in DOMAIN w
      /\ \A i \in DOMAIN w : i = 1 \/ (i - 1 \in DOMAIN v /\ v[i - 1] = w[i])
  BY <1>1 DEF v, n, c
<1>3. \A b : Occurs(v, b) => Occurs(w, b)
  BY <1>2 DEF Occurs
<1>4. \A b : b # c /\ Occurs(w, b) => Occurs(v, b)
  BY <1>2 DEF Occurs
<1>5. ASSUME Once(w, c), NEW i \in DOMAIN v, v[i] = c PROVE FALSE
  <2>1. /\ w[i + 1] = c /\ w[1] = c /\ i + 1 \in DOMAIN w /\ 1 \in DOMAIN w
        /\ i + 1 # 1
    BY <1>2, <1>5
  <2> QED
    BY <1>5, <2>1 DEF Once
<1>6. ASSUME NEW b, Once(w, b) PROVE Once(v, b)
  <2>1. ASSUME NEW i \in DOMAIN v, NEW j \in DOMAIN v, v[i] = b, v[j] = b PROVE i = j
    <3>1. /\ w[i + 1] = b /\ w[j + 1] = b
          /\ i + 1 \in DOMAIN w /\ j + 1 \in DOMAIN w
      BY <1>2, <2>1
    <3>2. i + 1 = j + 1
      BY <1>6, <3>1 DEF Once
    <3>3. i \in Int /\ j \in Int
      BY <1>2
    <3> QED
      BY <3>2, <3>3
  <2> QED
    BY <2>1 DEF Once
<1>7. ASSUME NEW a, NEW b, Before(w, a, b) PROVE Before(v, a, b)
  <2>1. ASSUME NEW i \in DOMAIN v, NEW j \in DOMAIN v, v[i] = a, v[j] = b PROVE i < j
    <3>1. i + 1 < j + 1
      BY <1>2, <1>7, <2>1 DEF Before
    <3> QED
      BY <1>2, <3>1
  <2> QED
    BY <2>1 DEF Before
<1>8. ASSUME NEW a, Before(w, a, c) PROVE ~Occurs(w, a)
  BY <1>2, <1>8 DEF Before, Occurs
<1> QED
  <2>1. Once(w, c) => ~Occurs(v, c)
    BY <1>5 DEF Occurs
  <2>2. Occurs(w, c)
    BY <1>2 DEF Occurs
  <2> QED
    BY <1>2, <1>3, <1>4, <1>6, <1>7, <1>8, <2>1, <2>2 DEF v, c

LEMMA ConcatFacts ==
  ASSUME NEW S, NEW w \in Seq(S), NEW u \in Seq(S)
  PROVE  /\ w \o u \in Seq(S)
         /\ \A b : Occurs(w \o u, b) <=> Occurs(w, b) \/ Occurs(u, b)
         /\ \A b : ~Occurs(u, b) /\ Once(w, b) => Once(w \o u, b)
         /\ \A a, b : ~Occurs(u, a) /\ ~Occurs(u, b) /\ Before(w, a, b) => Before(w \o u, a, b)
<1>1. /\ w \o u \in Seq(S) /\ Len(w) \in Nat /\ Len(u) \in Nat
      /\ DOMAIN w = 1..Len(w) /\ DOMAIN u = 1..Len(u) /\ DOMAIN (w \o u) = 1..(Len(w) + Len(u))
      /\ \A i \in 1..Len(w) : (w \o u)[i] = w[i]
      /\ \A i \in 1..Len(u) : (w \o u)[i + Len(w)] = u[i]
  OBVIOUS
<1> DEFINE v == w \o u
           m == Len(w)
           n == Len(u)
<1> HIDE DEF v, m, n
<1>2. /\ v \in Seq(S) /\ m \in Nat /\ n \in Nat
      /\ DOMAIN w = 1..m /\ DOMAIN u = 1..n /\ DOMAIN v = 1..(m + n)
      /\ \A i \in 1..m : v[i] = w[i] /\ i \in DOMAIN v
      /\ \A i \in 1..n : v[i + m] = u[i] /\ i + m \in DOMAIN v
      /\ \A i \in 1..(m + n) : i \in 1..m \/ (i - m \in 1..n /\ v[i] = u[i - m])
  <2>1. \A i \in 1..(m + n) : i \in 1..m \/ (i - m \in 1..n /\ (i - m) + m = i)
    BY <1>1 DEF m, n
  <2>2. \A i \in 1..(m + n) : i \in 1..m \/ (i - m \in 1..n /\ v[i] = u[i - m])
    BY <1>1, <2>1 DEF v, m, n
  <2> QED
    BY <1>1, <2>2 DEF v, m, n
<1>3. \A b : Occurs(v, b) <=> Occurs(w, b) \/ Occurs(u, b)
  BY <1>2 DEF Occurs
<1>4. ASSUME NEW b, ~Occurs(u, b), Once(w, b) PROVE Once(v, b)
  <2>1. \A i \in DOMAIN v : v[i] = b => i \in DOMAIN w /\ w[i] = b
    BY <1>2, <1>4 DEF Occurs
  <2> QED
    BY <1>4, <2>1 DEF Once
<1>5. ASSUME NEW a, NEW b, ~Occurs(u, a), ~Occurs(u, b), Before(w, a, b) PROVE Before(v, a, b)
  <2>1. ASSUME NEW c, ~Occurs(u, c), NEW i \in DOMAIN v, v[i] = c
        PROVE  i \in DOMAIN w /\ w[i] = c
    <3>1. i \in 1..m \/ (i - m \in 1..n /\ v[i] = u[i - m])
      BY <1>2
    <3>2. i \in 1..m
      BY <1>2, <2>1, <3>1 DEF Occurs
    <3> QED
      BY <1>2, <2>1, <3>2
  <2>2. \A i \in DOMAIN v : (v[i] = a => i \in DOMAIN w /\ w[i] = a)
    BY <1>5, <2>1
  <2>3. \A i \in DOMAIN v : (v[i] = b => i \in DOMAIN w /\ w[i] = b)
    BY <1>5, <2>1
  <2> QED
    BY <1>5, <2>2, <2>3 DEF Before
<1> QED
  BY <1>2, <1>3, <1>4, <1>5 DEF v

\* Induction over the natural numbers up to n, for a set of numbers.
LEMMA CountingUp ==
  ASSUME NEW n \in Nat, NEW S, 0 \in S, \A i \in 0..(n - 1) : i \in S => i + 1 \in S
  PROVE  n \in S
<1> DEFINE T == {i \in Nat : i <= n /\ i \notin S}
<1> SUFFICES ASSUME T # {} PROVE FALSE
  OBVIOUS
<1>1. PICK i \in T : \A j \in T : ~(<<j, i>> \in OpToRel(<, Nat))
  BY NatLessThanWellFounded, WFMin
<1>2. i \in Nat /\ i <= n /\ i \notin S /\ i # 0
  BY <1>1
<1>3. i - 1 \in Nat /\ i - 1 <= n /\ i - 1 \in 0..(n - 1) /\ (i - 1) + 1 = i /\ i - 1 < i
  BY <1>2
<1>4. i - 1 \in T
  BY <1>2, <1>3
<1>5. <<i - 1, i>> \in OpToRel(<, Nat)
  BY <1>2, <1>3 DEF OpToRel
<1> QED
  BY <1>1, <1>4, <1>5

\* h is what FlattenSeq(s) computes on the way, from left to right.
Flattens(s, n, h) ==
    /\ FlattenSeq(s) = h[n]
    /\ \A i \in 1..n : h[i] = IF i = 1 THEN s[i] ELSE h[i - 1] \o s[i]

LEMMA FlattenSteps ==
  ASSUME NEW n \in Nat \ {0}, NEW S, NEW s \in [1..n -> Seq(S)]
  PROVE  \E h \in [1..n -> Seq(S)] : Flattens(s, n, h)
<1>0. s \in Seq(Seq(S)) /\ Len(s) = n
  OBVIOUS
<1>2. n # 0
  OBVIOUS
<1> QED
  <2> DEFINE Step(f, i) == IF i = 1 THEN s[i] ELSE f[i - 1] \o s[i]
             Flat(f, m) == f = [i \in 1..m |-> Step(f, i)]
             Good == {m \in Nat : \E f \in [1..m -> Seq(S)] : \A i \in 1..m : f[i] = Step(f, i)}
  <2>1. 0 \in Good
    <3>1. [i \in 1..0 |-> <<>>] \in [1..0 -> Seq(S)]
      OBVIOUS
    <3> DEFINE e == [i \in 1..0 |-> <<>>]
    <3> HIDE DEF e, Step
    <3>2. e \in [1..0 -> Seq(S)] /\ \A i \in 1..0 : e[i] = Step(e, i)
      BY <3>1 DEF e
    <3> QED
      BY <3>2
  <2>2. ASSUME NEW m \in 0..(n - 1), m \in Good PROVE m + 1 \in Good
    <3>1. PICK f \in [1..m -> Seq(S)] : \A i \in 1..m : f[i] = Step(f, i)
      BY <2>2
    <3> DEFINE x == IF m = 0 THEN s[1] ELSE f[m] \o s[m + 1]
               g == [i \in 1..(m + 1) |-> IF i = m + 1 THEN x ELSE f[i]]
    <3>2. x \in Seq(S)
      <4>1. m + 1 \in 1..n /\ 1 \in 1..n
        BY <1>2
      <4> QED
        BY <4>1
    <3>3. g \in [1..(m + 1) -> Seq(S)]
      BY <3>2
    <3>4. ASSUME NEW i \in 1..(m + 1) PROVE g[i] = Step(g, i)
      <4>1. CASE i = m + 1
        BY <4>1
      <4>2. CASE i # m + 1 /\ i # 1
        <5>1. i \in 1..m /\ i - 1 \in 1..m /\ i - 1 # m + 1 /\ i - 1 \in 1..(m + 1)
          BY <4>2
        <5>2. g[i] = f[i] /\ g[i - 1] = f[i - 1]
          BY <4>2, <5>1
        <5> QED
          BY <3>1, <4>2, <5>1, <5>2
      <4>3. CASE i # m + 1 /\ i = 1
        <5>1. i \in 1..m /\ g[i] = f[i]
          BY <4>3
        <5> QED
          BY <3>1, <4>3, <5>1
      <4> QED
        BY <4>1, <4>2, <4>3
    <3> HIDE DEF g, x, Step
    <3>5. \E k \in [1..(m + 1) -> Seq(S)] : \A i \in 1..(m + 1) : k[i] = Step(k, i)
      BY <3>3, <3>4
    <3>6. m + 1 \in Nat
      OBVIOUS
    <3> QED
      BY <3>5, <3>6
  <2>3. n \in Good
    BY <2>1, <2>2, CountingUp
  <2>4. PICK f \in [1..n -> Seq(S)] : \A i \in 1..n : f[i] = Step(f, i)
    BY <2>3
  <2>5. Flat(f, n)
    BY <2>4
  <2> DEFINE h == CHOOSE k : Flat(k, n)
  <2>6. Flat(h, n)
    <3> HIDE DEF Flat
    <3> QED
      BY <2>5
  <2>7. \A i \in 1..n : h[i] = Step(h, i)
    <3> HIDE DEF Step, h
    <3> QED
      BY <2>6
  <2> HIDE DEF h
  <2>8. n \in {m \in Nat : \A i \in 1..n : i <= m => h[i] \in Seq(S)}
    <3> DEFINE U == {m \in Nat : \A i \in 1..n : i <= m => h[i] \in Seq(S)}
    <3>1. 0 \in U
      OBVIOUS
    <3>2. ASSUME NEW m \in 0..(n - 1), m \in U PROVE m + 1 \in U
      <4>1. h[m + 1] \in Seq(S)
        <5>1. m + 1 \in 1..n
          OBVIOUS
        <5>2. CASE m = 0
          BY <2>7, <5>1, <5>2
        <5>3. CASE m # 0
          <6>1. m \in 1..n /\ m + 1 # 1 /\ (m + 1) - 1 = m
            BY <5>3
          <6>2. h[m] \in Seq(S)
            BY <3>2, <6>1
          <6>3. h[m + 1] = h[m] \o s[m + 1]
            BY <2>7, <5>1, <6>1
          <6>4. s[m + 1] \in Seq(S)
            BY <5>1
          <6> QED
            BY <6>2, <6>3, <6>4
        <5> QED
          BY <5>2, <5>3
      <4>2. \A i \in 1..n : i <= m + 1 => i <= m \/ i = m + 1
        OBVIOUS
      <4>3. m + 1 \in Nat /\ \A i \in 1..n : i <= m => h[i] \in Seq(S)
        BY <3>2
      <4>4. \A i \in 1..n : i <= m + 1 => h[i] \in Seq(S)
        BY <4>1, <4>2, <4>3
      <4> QED
        BY <4>3, <4>4
    <3> HIDE DEF U
    <3>3. n \in U
      BY <3>1, <3>2, CountingUp
    <3> QED
      BY <3>3 DEF U
  <2>9. \A i \in 1..n : h[i] \in Seq(S)
    BY <2>8
  <2>10. FlattenSeq(s) = h[n]
    BY <1>0, <1>2 DEF FlattenSeq, h
  <2>11. h = [i \in 1..n |-> Step(h, i)]
    BY <2>6
  <2>12. h \in [1..n -> Seq(S)]
    <3>1. DOMAIN h = 1..n /\ h = [i \in 1..n |-> h[i]]
      <4> HIDE DEF Step
      <4> QED
        BY <2>11
    <3> QED
      BY <2>9, <3>1
  <2>13. Flattens(s, n, h)
    BY <2>7, <2>10 DEF Flattens
  <2> QED
    BY <2>12, <2>13

\* Flattening a sequence of sequences over S gives a sequence over S.
LEMMA FlattenIs ==
  ASSUME NEW n \in Nat, NEW S, NEW s \in [1..n -> Seq(S)]
  PROVE  FlattenSeq(s) \in Seq(S)
<1>0. s \in Seq(Seq(S)) /\ Len(s) = n
  OBVIOUS
<1>1. CASE n = 0
  <2>1. s = <<>>
    BY <1>0, <1>1
  <2> QED
    BY <1>0, <1>1, <2>1 DEF FlattenSeq
<1>2. CASE n # 0
  <2>1. n \in Nat \ {0}
    BY <1>2
  <2>2. PICK h \in [1..n -> Seq(S)] : Flattens(s, n, h)
    BY <2>1, FlattenSteps
  <2>3. n \in 1..n /\ FlattenSeq(s) = h[n]
    BY <2>1, <2>2 DEF Flattens
  <2> QED
    BY <2>3
<1> QED
  BY <1>1, <1>2

\* What stands in one of the sequences stands in the flattened one.
LEMMA FlattenHas ==
  ASSUME NEW n \in Nat, NEW S, NEW s \in [1..n -> Seq(S)],
         NEW k \in 1..n, NEW c, Occurs(s[k], c)
  PROVE  Occurs(FlattenSeq(s), c)
<1>1. n \in Nat \ {0}
  OBVIOUS
<1>0. PICK h \in [1..n -> Seq(S)] : Flattens(s, n, h)
  BY <1>1, FlattenSteps
<1>2. /\ FlattenSeq(s) = h[n]
      /\ \A i \in 1..n : h[i] = IF i = 1 THEN s[i] ELSE h[i - 1] \o s[i]
  BY <1>0 DEF Flattens
<1> DEFINE U == {m \in Nat : k <= m /\ m <= n => Occurs(h[m], c)}
<1>3. 0 \in U
  OBVIOUS
<1>4. ASSUME NEW m \in 0..(n - 1), m \in U PROVE m + 1 \in U
  <2>1. m + 1 \in Nat /\ m + 1 \in 1..n /\ (m + 1) - 1 = m
    OBVIOUS
  <2>2. ASSUME k <= m + 1 PROVE Occurs(h[m + 1], c)
    <3>1. CASE m = 0
      <4>1. k = 1 /\ h[m + 1] = s[1]
        BY <1>2, <2>1, <2>2, <3>1
      <4> QED
        BY <4>1
    <3>2. CASE m # 0
      <4>1. m \in 1..n /\ m + 1 # 1
        BY <3>2
      <4>2. h[m + 1] = h[m] \o s[m + 1]
        BY <1>2, <2>1, <4>1
      <4>3. h[m] \in Seq(S) /\ s[m + 1] \in Seq(S)
        BY <2>1, <4>1
      <4>4. k = m + 1 \/ Occurs(h[m], c)
        BY <1>4, <2>2, <4>1
      <4>5. Occurs(s[m + 1], c) \/ Occurs(h[m], c)
        BY <4>4
      <4> HIDE DEF U
      <4> QED
        BY <4>2, <4>3, <4>5, ConcatFacts
    <3> QED
      BY <3>1, <3>2
  <2> QED
    BY <2>1, <2>2
<1> HIDE DEF U
<1>5. n \in U
  BY <1>3, <1>4, CountingUp
<1> QED
  BY <1>2, <1>5 DEF U

-----------------------------------------------------------------------------
(* What the operations of the state machine do to the trips *)

LEMMA RealCardinality == \A S : FSM!Cardinality(S) = Cardinality(S)
BY Zenon DEF FSM!Cardinality, Cardinality

\* The map has room for all trips that are ever created.
LEMMA NothingEvicted ==
  ASSUME FSM!TypeOK
  PROVE  FSM!Evicted = {}
<1>1. DOMAIN trips \subseteq 1..MaxTrips /\ MaxTrips \in Nat
  BY SimulatorAssumption DEF FSM!TypeOK
<1>2. IsFiniteSet(1..MaxTrips) /\ Cardinality(1..MaxTrips) = MaxTrips
  BY <1>1, FS_Interval
<1>3. Cardinality(DOMAIN trips) \in Nat /\ Cardinality(DOMAIN trips) <= MaxTrips
  BY <1>1, <1>2, FS_Subset, FS_CardinalityType
<1>4. ~(Cardinality(DOMAIN trips) >= MaxTrips + 1)
  BY <1>1, <1>3
<1> QED
  BY <1>4, RealCardinality DEF FSM!Evicted

\* Trip t moves to status s and has driver d; the other trips stay as they are.
Moves(t, s, d) ==
    /\ t \in DOMAIN trips
    /\ DOMAIN trips' = DOMAIN trips
    /\ trips'[t].status = s
    /\ trips'[t].driverId = d
    /\ \A u \in DOMAIN trips : u # t => trips'[u] = trips[u]

LEMMA Entered ==
  ASSUME FSM!TypeOK, NEW t \in DOMAIN trips, NEW s \in FSM!TripStatus,
         NEW d \in Drivers \cup {None}, FSM!Enter(t, s, d)
  PROVE  /\ Moves(t, s, d)
         /\ trips' \in [DOMAIN trips' -> FSM!Trip]
         /\ DOMAIN trips' \subseteq 1..created'
         /\ created' = created /\ requestToTrip' = requestToTrip
<1>1. /\ trips \in [DOMAIN trips -> FSM!Trip] /\ DOMAIN trips \subseteq 1..created
      /\ created' = created /\ requestToTrip' = requestToTrip
      /\ trips' = [trips EXCEPT ![t].status = s, ![t].driverId = d]
  BY DEF FSM!TypeOK, FSM!Enter
<1>2. trips[t] \in FSM!Trip
  BY <1>1
<1>3. PICK x : x = [trips[t] EXCEPT !.status = s, !.driverId = d]
  OBVIOUS
<1>4. x \in FSM!Trip /\ x.status = s /\ x.driverId = d
  BY <1>2, <1>3 DEF FSM!Trip
<1>5. trips' = [trips EXCEPT ![t] = x]
  BY <1>1, <1>3
<1>6. DOMAIN trips' = DOMAIN trips /\ trips'[t] = x
      /\ \A u \in DOMAIN trips : u # t => trips'[u] = trips[u]
  BY <1>5
<1>7. trips' \in [DOMAIN trips' -> FSM!Trip]
  BY <1>1, <1>4, <1>5
<1> QED
  BY <1>1, <1>4, <1>6, <1>7 DEF Moves

LEMMA TripIs ==
  ASSUME FSM!TypeOK, NEW t \in DOMAIN trips
  PROVE  /\ trips[t].driverId \in Drivers \cup {None} /\ trips[t].status \in FSM!TripStatus
         /\ trips[t].riderId \in Riders /\ trips[t] \in FSM!Trip /\ t \in FSM!TripIds
BY SimulatorAssumption DEF FSM!TypeOK, FSM!Trip, FSM!TripIds

\* en_route, arrived, in_progress
LEMMA MilestoneMoves ==
  ASSUME FSM!TypeOK, NEW t, NEW s \in {"en_route", "arrived", "in_progress"},
         FSM!Milestone(t, s)
  PROVE  /\ FSM!TypeOK'
         /\ Moves(t, s, trips[t].driverId)
         /\ trips[t].status \notin {"requested", "matching"}
         /\ s = "in_progress" => trips[t].status = "arrived"
         /\ s = "en_route" => trips[t].status = "matched"
         /\ s = "arrived" => trips[t].status \in {"matched", "en_route"}
         /\ activeDriverTrips' = activeDriverTrips
         /\ UNCHANGED <<requestToTrip, created, activeRiderTrips>>
<1>1. /\ t \in DOMAIN trips /\ s \in FSM!AllowedTransitions(trips[t].status)
      /\ FSM!Enter(t, s, trips[t].driverId)
      /\ UNCHANGED <<activeRiderTrips, activeDriverTrips>>
  BY DEF FSM!Milestone, FSM!Accepts
<1>2. s \in FSM!TripStatus
  BY DEF FSM!TripStatus, FSM!Assigned
<1>3. /\ Moves(t, s, trips[t].driverId)
      /\ trips' \in [DOMAIN trips' -> FSM!Trip]
      /\ DOMAIN trips' \subseteq 1..created'
      /\ created' = created /\ requestToTrip' = requestToTrip
  BY <1>1, <1>2, Entered, TripIs
<1>4. FSM!TypeOK'
  BY <1>1, <1>3 DEF FSM!TypeOK
<1>5. /\ trips[t].status \notin {"requested", "matching"}
      /\ s = "in_progress" => trips[t].status = "arrived"
      /\ s = "en_route" => trips[t].status = "matched"
      /\ s = "arrived" => trips[t].status \in {"matched", "en_route"}
  BY <1>1, TripIs DEF FSM!AllowedTransitions, FSM!TripStatus, FSM!Assigned, FSM!Terminal
<1> QED
  BY <1>1, <1>3, <1>4, <1>5

\* A driver's entry stays or is deleted; that of trip t's driver is deleted.
Released(t) ==
    \A d \in Drivers : /\ activeDriverTrips'[d] \in {activeDriverTrips[d], None}
                       /\ trips[t].driverId = d => activeDriverTrips'[d] = None

LEMMA IndexWithout ==
  ASSUME FSM!TypeOK, NEW t \in DOMAIN trips, activeDriverTrips' = FSM!DriverIndexWithout(t)
  PROVE  /\ Released(t)
         /\ activeDriverTrips' \in [Drivers -> FSM!TripIds \cup {None}]
BY TripIs, SimulatorAssumption DEF FSM!TypeOK, FSM!DriverIndexWithout, Released

LEMMA MatchingMoves ==
  ASSUME FSM!TypeOK, NEW t, trips[t].status = "requested", FSM!StartMatching(t)
  PROVE  FSM!TypeOK' /\ Moves(t, "matching", None) /\ Released(t)
<1>1. /\ t \in DOMAIN trips /\ FSM!Enter(t, "matching", None) /\ "matching" \in FSM!TripStatus
      /\ activeDriverTrips' = FSM!DriverIndexWithout(t) /\ UNCHANGED activeRiderTrips
  BY DEF FSM!StartMatching, FSM!Accepts, FSM!TripStatus
<1>2. /\ Moves(t, "matching", None) /\ trips' \in [DOMAIN trips' -> FSM!Trip]
      /\ DOMAIN trips' \subseteq 1..created'
      /\ created' = created /\ requestToTrip' = requestToTrip
  BY <1>1, Entered
<1> QED
  BY <1>1, <1>2, IndexWithout DEF FSM!TypeOK

LEMMA MatchedMoves ==
  ASSUME FSM!TypeOK, NEW t, NEW d \in Drivers, FSM!SetMatched(t, d)
  PROVE  /\ FSM!TypeOK' /\ Moves(t, "matched", d)
         /\ trips[t].status = "matching"
         /\ activeDriverTrips[d] \in {t, None}
         /\ activeDriverTrips' = [activeDriverTrips EXCEPT ![d] = t]
<1>1. /\ t \in DOMAIN trips /\ FSM!Enter(t, "matched", d) /\ "matched" \in FSM!TripStatus
      /\ activeDriverTrips' = [activeDriverTrips EXCEPT ![d] = t]
      /\ activeDriverTrips[d] \in {t, None}
      /\ "matched" \in FSM!AllowedTransitions(trips[t].status)
      /\ UNCHANGED activeRiderTrips
  BY DEF FSM!SetMatched, FSM!Accepts, FSM!Bookable, FSM!TripStatus, FSM!Assigned
<1>2. /\ Moves(t, "matched", d) /\ trips' \in [DOMAIN trips' -> FSM!Trip]
      /\ DOMAIN trips' \subseteq 1..created'
      /\ created' = created /\ requestToTrip' = requestToTrip
  BY <1>1, Entered
<1>3. trips[t].status = "matching"
  BY <1>1, TripIs DEF FSM!AllowedTransitions, FSM!TripStatus, FSM!Assigned, FSM!Terminal
<1>4. FSM!TypeOK'
  <2>1. t \in FSM!TripIds
    BY <1>1, TripIs
  <2> QED
    BY <1>1, <1>2, <2>1 DEF FSM!TypeOK
<1> QED
  BY <1>1, <1>2, <1>3, <1>4

\* completeTrip and cancelTrip
LEMMA EndMoves ==
  ASSUME FSM!TypeOK, NEW t, NEW s,
         \/ s = "completed" /\ FSM!CompleteTrip(t)
         \/ s = "cancelled" /\ \E role : FSM!CancelTrip(t, role)
  PROVE  /\ FSM!TypeOK' /\ Released(t)
         /\ Moves(t, s, trips[t].driverId)
         /\ trips[t].status \notin FSM!Terminal
         /\ s = "completed" => trips[t].status = "in_progress"
<1>1. /\ t \in DOMAIN trips /\ FSM!Enter(t, s, trips[t].driverId)
      /\ s \in FSM!AllowedTransitions(trips[t].status)
      /\ FSM!ClearActiveIndices(t) /\ s \in FSM!Terminal
  BY DEF FSM!CompleteTrip, FSM!CancelTrip, FSM!Accepts, FSM!Terminal
<1>2. s \in FSM!TripStatus /\ trips[t].driverId \in Drivers \cup {None}
  BY <1>1, TripIs DEF FSM!TripStatus
<1>3. /\ Moves(t, s, trips[t].driverId) /\ trips' \in [DOMAIN trips' -> FSM!Trip]
      /\ DOMAIN trips' \subseteq 1..created'
      /\ created' = created /\ requestToTrip' = requestToTrip
  BY <1>1, <1>2, Entered
<1>4. /\ trips[t].status \notin FSM!Terminal
      /\ s = "completed" => trips[t].status = "in_progress"
  BY <1>1 DEF FSM!AllowedTransitions, FSM!Terminal
<1>5. /\ Released(t)
      /\ activeDriverTrips' \in [Drivers -> FSM!TripIds \cup {None}]
  BY <1>1, IndexWithout DEF FSM!ClearActiveIndices
<1>6. activeRiderTrips' \in [Riders -> FSM!TripIds \cup {None}]
  BY <1>1 DEF FSM!ClearActiveIndices, FSM!TypeOK
<1>7. FSM!TypeOK'
  BY <1>3, <1>5, <1>6 DEF FSM!TypeOK
<1> QED
  BY <1>1, <1>3, <1>4, <1>5, <1>7

LEMMA CreateMoves ==
  ASSUME FSM!TypeOK, NEW q \in Requests, NEW r \in Riders, FSM!CreateTrip(q, r)
  PROVE  /\ FSM!TypeOK'
         /\ DOMAIN trips \subseteq DOMAIN trips'
         /\ \A u \in DOMAIN trips : trips'[u] = trips[u]
         /\ \A u \in DOMAIN trips' \ DOMAIN trips : trips'[u].status = "requested"
         /\ activeDriverTrips' = activeDriverTrips
<1>1. FSM!Evicted = {}
  BY NothingEvicted
<1>2. /\ created' = created + 1 /\ created < MaxTrips
      /\ trips' = [t \in DOMAIN trips \cup {created + 1} |->
                     IF t = created + 1 THEN FSM!NewTrip(q, r) ELSE trips[t]]
      /\ activeRiderTrips' = [activeRiderTrips EXCEPT ![r] = created + 1]
      /\ activeDriverTrips' = activeDriverTrips
      /\ requestToTrip' = [p \in Requests |-> IF p = q THEN created + 1 ELSE requestToTrip[p]]
  BY <1>1 DEF FSM!CreateTrip
<1>3. /\ created \in Nat /\ MaxTrips \in Nat /\ created + 1 \notin DOMAIN trips
      /\ created + 1 \in FSM!TripIds /\ created' \in 0..MaxTrips
  BY <1>2, SimulatorAssumption DEF FSM!TypeOK, FSM!TripIds
<1>4. FSM!NewTrip(q, r) \in FSM!Trip /\ FSM!NewTrip(q, r).status = "requested"
  BY DEF FSM!NewTrip, FSM!Trip, FSM!TripStatus
<1>5. DOMAIN trips' \subseteq 1..created'
  BY <1>2, <1>3 DEF FSM!TypeOK
<1>6. trips' \in [DOMAIN trips' -> FSM!Trip]
  BY <1>2, <1>4 DEF FSM!TypeOK
<1>7. /\ requestToTrip' \in [Requests -> FSM!TripIds \cup {None}]
      /\ activeRiderTrips' \in [Riders -> FSM!TripIds \cup {None}]
      /\ activeDriverTrips' \in [Drivers -> FSM!TripIds \cup {None}]
  BY <1>2, <1>3 DEF FSM!TypeOK
<1>8. FSM!TypeOK'
  BY <1>3, <1>5, <1>6, <1>7 DEF FSM!TypeOK
<1> QED
  BY <1>2, <1>3, <1>4, <1>8

-----------------------------------------------------------------------------
(* Offer loops *)

Leading == {"offer", "commit"}

\* Of a wire, loops and drivers: the driver of an offer or a commit is leased, to
\* this loop alone; exactly the loops that commit or save have a command on the
\* wire; and whoever commits a driver whose last match is still being saved waits
\* behind it.
LoopFacts(w, l, st, t) ==
    /\ l[t].at \in Leading => l[t].driver \in Drivers /\ st[l[t].driver] = "leased"
    /\ l[t].at = "commit" <=> Occurs(w, CommitCall(t))
    /\ l[t].at = "saving" <=> Occurs(w, SaveCall(t))
    /\ Once(w, CommitCall(t))
    /\ Once(w, SaveCall(t))

LoopPair(w, l, t, u) ==
    l[t].driver = l[u].driver
    => /\ l[t].at \in Leading /\ l[u].at \in Leading => t = u
       /\ l[t].at = "saving" /\ l[u].at = "commit" => Before(w, SaveCall(t), CommitCall(u))

PoolTyped(w, l, st) ==
    /\ st \in [Drivers -> {"available", "leased", "busy"}]
    /\ l \in [FSM!TripIds -> LoopStates]
    /\ w \in Seq(Calls)

PoolOK(w, l, st) ==
    /\ PoolTyped(w, l, st)
    /\ \A t \in FSM!TripIds : LoopFacts(w, l, st, t)
    /\ \A t, u \in FSM!TripIds : LoopPair(w, l, t, u)

PoolInv == PoolOK(wire, loop, status)

LEMMA CallsApart ==
  ASSUME NEW t \in FSM!TripIds, NEW u \in FSM!TripIds
  PROVE  /\ SaveCall(t) # CommitCall(u)
         /\ (t # u => CommitCall(t) # CommitCall(u) /\ SaveCall(t) # SaveCall(u))
BY CallsDiffer

\* Commands that no loop commits or saves with.
OtherCalls == {c \in Calls : c.call \in {"fail", "free", "reset"}}

LEMMA OtherCallsApart ==
  ASSUME NEW c \in OtherCalls, NEW t
  PROVE  c # CommitCall(t) /\ c # SaveCall(t)
BY DEF OtherCalls, CommitCall, SaveCall

LEMMA OthersAre ==
  /\ ResetCall \in OtherCalls
  /\ \A t \in FSM!TripIds : FailCall(t) \in OtherCalls
  /\ \A t \in FSM!TripIds, d \in Drivers : FreeCall(t, d) \in OtherCalls
BY DEF OtherCalls, Calls, FailCall, FreeCall, ResetCall

\* Commands that no loop waits for come or go.
LEMMA SameLoopCalls ==
  ASSUME NEW w, NEW l, NEW st, PoolOK(w, l, st), NEW v \in Seq(Calls),
         \A t \in FSM!TripIds :
            /\ Occurs(v, CommitCall(t)) <=> Occurs(w, CommitCall(t))
            /\ Occurs(v, SaveCall(t)) <=> Occurs(w, SaveCall(t))
            /\ Once(w, CommitCall(t)) => Once(v, CommitCall(t))
            /\ Once(w, SaveCall(t)) => Once(v, SaveCall(t)),
         \A t, u \in FSM!TripIds :
            Before(w, SaveCall(t), CommitCall(u)) => Before(v, SaveCall(t), CommitCall(u))
  PROVE  PoolOK(v, l, st)
<1>1. PoolTyped(v, l, st)
  BY DEF PoolOK, PoolTyped
<1>2. \A t \in FSM!TripIds : LoopFacts(v, l, st, t)
  BY DEF PoolOK, LoopFacts
<1>3. \A t, u \in FSM!TripIds : LoopPair(v, l, t, u)
  BY DEF PoolOK, LoopPair
<1> QED
  BY <1>1, <1>2, <1>3 DEF PoolOK

\* The head of the wire is answered: it is gone.
LEMMA Replied ==
  ASSUME NEW w, NEW l, NEW st, PoolOK(w, l, st), w # <<>>
  PROVE  /\ Tail(w) \in Seq(Calls) /\ Head(w) \in Calls /\ Occurs(w, Head(w))
         /\ \A b : Occurs(Tail(w), b) => Occurs(w, b)
         /\ \A b : b # Head(w) /\ Occurs(w, b) => Occurs(Tail(w), b)
         /\ Once(w, Head(w)) => ~Occurs(Tail(w), Head(w))
         /\ \A b : Once(w, b) => Once(Tail(w), b)
         /\ \A a, b : Before(w, a, b) => Before(Tail(w), a, b)
         /\ \A a : Before(w, a, Head(w)) => ~Occurs(w, a)
BY TailFacts DEF PoolOK, PoolTyped

LEMMA OtherAnswered ==
  ASSUME NEW w, NEW l, NEW st, PoolOK(w, l, st), w # <<>>, Head(w) \in OtherCalls
  PROVE  PoolOK(Tail(w), l, st)
<1>1. \A t \in FSM!TripIds : Head(w) # CommitCall(t) /\ Head(w) # SaveCall(t)
  BY OtherCallsApart
<1> QED
  BY <1>1, Replied, SameLoopCalls

LEMMA OthersIssued ==
  ASSUME NEW w, NEW l, NEW st, PoolOK(w, l, st), NEW u \in Seq(OtherCalls)
  PROVE  PoolOK(w \o u, l, st)
<1>1. u \in Seq(Calls) /\ \A i \in DOMAIN u : u[i] \in OtherCalls
  BY DEF OtherCalls
<1>2. ASSUME NEW t PROVE ~Occurs(u, CommitCall(t)) /\ ~Occurs(u, SaveCall(t))
  BY <1>1, OtherCallsApart DEF Occurs
<1>3. w \in Seq(Calls)
  BY DEF PoolOK, PoolTyped
<1>4. /\ w \o u \in Seq(Calls)
      /\ \A b : Occurs(w \o u, b) <=> Occurs(w, b) \/ Occurs(u, b)
      /\ \A b : ~Occurs(u, b) /\ Once(w, b) => Once(w \o u, b)
      /\ \A a, b : ~Occurs(u, a) /\ ~Occurs(u, b) /\ Before(w, a, b) => Before(w \o u, a, b)
  BY <1>1, <1>3, ConcatFacts
<1> QED
  BY <1>2, <1>4, SameLoopCalls

LEMMA OtherIssued ==
  ASSUME NEW w, NEW l, NEW st, PoolOK(w, l, st), NEW c \in OtherCalls
  PROVE  PoolOK(Append(w, c), l, st) /\ PoolOK(w \o <<c>>, l, st)
<1>1. w \in Seq(Calls) /\ c \in Calls
  BY DEF PoolOK, PoolTyped, OtherCalls
<1>2. Append(w, c) = w \o <<c>> /\ <<c>> \in Seq(OtherCalls)
  BY <1>1
<1>3. PoolOK(w \o <<c>>, l, st)
  BY <1>2, OthersIssued
<1> QED
  BY <1>2, <1>3

\* Loops that neither commit nor save move on, and those at an offer leave their
\* drivers.
LEMMA LoopsMove ==
  ASSUME NEW w, NEW l, NEW st, PoolOK(w, l, st), NEW ts, NEW m \in [FSM!TripIds -> LoopStates],
         NEW su \in [Drivers -> {"available", "leased", "busy"}],
         \A t \in FSM!TripIds \ ts : m[t] = l[t],
         \A t \in FSM!TripIds \cap ts : /\ l[t].at \notin {"commit", "saving"}
                                       /\ m[t].at \notin {"offer", "commit", "saving"},
         \A d \in Drivers : \/ st[d] = "leased" => su[d] = "leased"
                            \/ \E t \in FSM!TripIds \cap ts : l[t].at = "offer" /\ l[t].driver = d
  PROVE  PoolOK(w, m, su)
<1>1. PoolTyped(w, m, su)
  BY DEF PoolOK, PoolTyped
<1>2. ASSUME NEW u \in FSM!TripIds PROVE LoopFacts(w, m, su, u)
  <2>1. CASE u \in ts
    BY <2>1 DEF PoolOK, LoopFacts, Leading
  <2>2. CASE u \notin ts
    <3>1. LoopFacts(w, l, st, u) /\ m[u] = l[u]
      BY <2>2 DEF PoolOK
    <3>2. ASSUME l[u].at \in Leading PROVE su[l[u].driver] = "leased"
      <4>1. \A t \in FSM!TripIds : l[t].at = "offer" /\ l[t].driver = l[u].driver => t = u
        BY <3>2 DEF PoolOK, LoopPair, Leading
      <4> QED
        BY <2>2, <3>1, <3>2, <4>1 DEF LoopFacts
    <3> QED
      BY <3>1, <3>2 DEF LoopFacts
  <2> QED
    BY <2>1, <2>2
<1>3. ASSUME NEW u \in FSM!TripIds, NEW v \in FSM!TripIds PROVE LoopPair(w, m, u, v)
  <2>1. LoopPair(w, l, u, v)
    BY DEF PoolOK
  <2> QED
    BY <2>1 DEF LoopPair, Leading
<1> QED
  BY <1>1, <1>2, <1>3 DEF PoolOK

LEMMA LoopMoves ==
  ASSUME PoolInv, NEW t \in FSM!TripIds, NEW x \in LoopStates,
         loop[t].at \notin {"commit", "saving"},
         x.at \notin {"offer", "commit", "saving"},
         NEW su \in [Drivers -> {"available", "leased", "busy"}],
         \A d \in Drivers : \/ status[d] = "leased" => su[d] = "leased"
                            \/ loop[t].at = "offer" /\ loop[t].driver = d
  PROVE  PoolOK(wire, [loop EXCEPT ![t] = x], su)
<1> DEFINE m == [loop EXCEPT ![t] = x]
<1>1. /\ m \in [FSM!TripIds -> LoopStates] /\ m[t] = x
      /\ \A u \in FSM!TripIds \ {t} : m[u] = loop[u]
  BY DEF PoolInv, PoolOK, PoolTyped
<1> HIDE DEF m
<1>2. PoolOK(wire, loop, status)
  BY DEF PoolInv
<1> DEFINE ts == {t}
<1>4. \A u \in FSM!TripIds \ ts : m[u] = loop[u]
  BY <1>1
<1>5. \A u \in FSM!TripIds \cap ts : /\ loop[u].at \notin {"commit", "saving"}
                                      /\ m[u].at \notin {"offer", "commit", "saving"}
  BY <1>1
<1>6. \A d \in Drivers : \/ status[d] = "leased" => su[d] = "leased"
                          \/ \E u \in FSM!TripIds \cap ts : loop[u].at = "offer" /\ loop[u].driver = d
  OBVIOUS
<1> HIDE DEF ts
<1>3. PoolOK(wire, m, su)
  BY <1>1, <1>2, <1>4, <1>5, <1>6, LoopsMove
<1> QED
  BY <1>3 DEF m

-----------------------------------------------------------------------------
(* What the actions do to the pool *)

LEMMA PoolTypes ==
  ASSUME PoolInv
  PROVE  /\ status \in [Drivers -> {"available", "leased", "busy"}]
         /\ loop \in [FSM!TripIds -> LoopStates] /\ wire \in Seq(Calls)
BY DEF PoolInv, PoolOK, PoolTyped

LEMMA LoopRecords ==
  ASSUME PoolInv, NEW t \in FSM!TripIds
  PROVE  /\ NoLoop \in LoopStates /\ NoLoop.at = "idle"
         /\ loop[t] \in LoopStates
         /\ \A at \in {"idle", "top", "offer", "commit", "saving", "rollback"} :
               /\ [loop[t] EXCEPT !.at = at] \in LoopStates
               /\ [loop[t] EXCEPT !.at = at].at = at
               /\ [loop[t] EXCEPT !.at = at].driver = loop[t].driver
               /\ [loop EXCEPT ![t].at = at] = [loop EXCEPT ![t] = [loop[t] EXCEPT !.at = at]]
BY PoolTypes DEF NoLoop, LoopStates

LEMMA SamePool == ASSUME PoolInv, UNCHANGED poolVars PROVE PoolInv'
BY DEF PoolInv, poolVars

LEMMA PoolAfter ==
  ASSUME NEW w, NEW l, NEW st, PoolOK(w, l, st), wire' = w, loop' = l, status' = st
  PROVE  PoolInv'
BY DEF PoolInv

LEMMA BeginMatchingPool ==
  ASSUME PoolInv, NEW t \in FSM!TripIds, loop[t].at = "idle", BeginMatching(t)
  PROVE  PoolInv'
<1>1. loop[t].at = "idle"
  OBVIOUS
<1>2. PoolOK(wire, [loop EXCEPT ![t] = [loop[t] EXCEPT !.at = "top"]], status)
  BY <1>1, LoopRecords, LoopMoves, PoolTypes
<1> QED
  BY <1>2, LoopRecords, PoolAfter DEF BeginMatching

LEMMA OfferPool ==
  ASSUME PoolInv, NEW t \in FSM!TripIds, NEW d \in Drivers, Offer(t, d)
  PROVE  PoolInv'
<1>1. /\ loop[t].at = "top" /\ status[d] = "available" /\ wire' = wire
      /\ status' = [status EXCEPT ![d] = "leased"]
      /\ loop'[t].at = "offer" /\ loop'[t].driver = d
      /\ \A u \in FSM!TripIds : u # t => loop'[u] = loop[u]
      /\ loop' \in [FSM!TripIds -> LoopStates]
  BY PoolTypes DEF Offer, LoopStates
<1>2. PoolTyped(wire', loop', status')
  BY <1>1, PoolTypes DEF PoolTyped
<1>3. \A u \in FSM!TripIds : loop[u].at \in Leading =>
         loop[u].driver # d /\ loop[u].driver \in Drivers /\ status[loop[u].driver] = "leased"
  BY <1>1 DEF PoolInv, PoolOK, LoopFacts
<1>4. ASSUME NEW u \in FSM!TripIds PROVE LoopFacts(wire', loop', status', u)
  <2>0. LoopFacts(wire, loop, status, u)
    BY DEF PoolInv, PoolOK
  <2>1. CASE u = t
    BY <1>1, <2>0, <2>1, PoolTypes DEF LoopFacts, Leading
  <2>2. CASE u # t
    BY <1>1, <1>3, <2>0, <2>2, PoolTypes DEF LoopFacts
  <2> QED
    BY <2>1, <2>2
<1>5. ASSUME NEW u \in FSM!TripIds, NEW v \in FSM!TripIds PROVE LoopPair(wire', loop', u, v)
  <2>1. LoopPair(wire, loop, u, v)
    BY DEF PoolInv, PoolOK
  <2> QED
    BY <1>1, <1>3, <2>1 DEF LoopPair, Leading
<1> QED
  BY <1>2, <1>4, <1>5 DEF PoolInv, PoolOK

LEMMA AcceptPool ==
  ASSUME PoolInv, NEW t \in FSM!TripIds, Accept(t)
  PROVE  PoolInv'
<1>1. /\ loop[t].at = "offer" /\ wire' = Append(wire, CommitCall(t)) /\ status' = status
      /\ loop'[t].at = "commit" /\ loop'[t].driver = loop[t].driver
      /\ \A u \in FSM!TripIds : u # t => loop'[u] = loop[u]
      /\ loop' \in [FSM!TripIds -> LoopStates]
  BY PoolTypes DEF Accept, Goto, LoopStates
<1>2. wire \in Seq(Calls) /\ CommitCall(t) \in Calls
  BY PoolTypes DEF CommitCall, Calls
<1>3. PoolTyped(wire', loop', status')
  BY <1>1, <1>2, AppendFacts, PoolTypes DEF PoolTyped
<1>4. /\ \A b : Occurs(wire', b) <=> Occurs(wire, b) \/ b = CommitCall(t)
      /\ \A b : Once(wire, b) /\ (b = CommitCall(t) => ~Occurs(wire, b)) => Once(wire', b)
      /\ \A a, b : Before(wire, a, b) /\ (a = CommitCall(t) => ~Occurs(wire, b)) /\ a # b
                   => Before(wire', a, b)
  BY <1>1, <1>2, AppendFacts
<1>5. ~Occurs(wire, CommitCall(t))
  BY <1>1 DEF PoolInv, PoolOK, LoopFacts
<1>6. ASSUME NEW u \in FSM!TripIds PROVE LoopFacts(wire', loop', status', u)
  <2>0. /\ SaveCall(u) # CommitCall(t) /\ (u # t => CommitCall(u) # CommitCall(t))
        /\ LoopFacts(wire, loop, status, u)
    BY CallsApart DEF PoolInv, PoolOK
  <2>1. CASE u = t
    BY <1>1, <1>4, <1>5, <2>0, <2>1 DEF LoopFacts, Leading
  <2>2. CASE u # t
    BY <1>1, <1>4, <1>5, <2>0, <2>2 DEF LoopFacts
  <2> QED
    BY <2>1, <2>2
<1>7. ASSUME NEW u \in FSM!TripIds, NEW v \in FSM!TripIds PROVE LoopPair(wire', loop', u, v)
  <2>0. /\ SaveCall(u) # CommitCall(t) /\ SaveCall(u) # CommitCall(v)
        /\ LoopPair(wire, loop, u, v)
    BY CallsApart DEF PoolInv, PoolOK
  <2>1. ASSUME v = t PROVE Before(wire', SaveCall(u), CommitCall(v))
    <3>1. Before(wire, SaveCall(u), CommitCall(v))
      BY <1>5, <2>1 DEF Before, Occurs
    <3> QED
      BY <1>4, <2>0, <3>1
  <2>2. Before(wire, SaveCall(u), CommitCall(v)) => Before(wire', SaveCall(u), CommitCall(v))
    BY <1>4, <2>0
  <2> QED
    BY <1>1, <2>0, <2>1, <2>2 DEF LoopPair, Leading
<1> QED
  BY <1>3, <1>6, <1>7 DEF PoolInv, PoolOK

LEMMA DeclinePool ==
  ASSUME PoolInv, NEW t \in FSM!TripIds, Decline(t)
  PROVE  PoolInv'
<1>1. /\ loop[t].at = "offer" /\ wire' = wire
      /\ loop' = [loop EXCEPT ![t] = [loop[t] EXCEPT !.at = "top"]]
      /\ status' = [status EXCEPT ![loop[t].driver] = "available"]
  BY LoopRecords DEF Decline, Goto
<1>2. /\ status' \in [Drivers -> {"available", "leased", "busy"}]
      /\ \A d \in Drivers : (status[d] = "leased" => status'[d] = "leased") \/ loop[t].driver = d
  BY <1>1, PoolTypes
<1>3. PoolOK(wire, [loop EXCEPT ![t] = [loop[t] EXCEPT !.at = "top"]], status')
  BY <1>1, <1>2, LoopRecords, LoopMoves
<1> QED
  BY <1>1, <1>3, PoolAfter

LEMMA GiveUpPool ==
  ASSUME PoolInv, NEW t \in FSM!TripIds, GiveUp(t)
  PROVE  PoolInv'
<1>1. PoolOK(wire, [loop EXCEPT ![t] = NoLoop], status)
  BY LoopRecords, LoopMoves, PoolTypes DEF GiveUp
<1>2. PoolOK(Append(wire, FailCall(t)), [loop EXCEPT ![t] = NoLoop], status)
  BY <1>1, OtherIssued, OthersAre
<1> QED
  BY <1>2, PoolAfter DEF GiveUp

LEMMA LoopAbortedPool ==
  ASSUME PoolInv, NEW t \in FSM!TripIds, LoopAborted(t)
  PROVE  PoolInv'
<1>1. PoolOK(wire, [loop EXCEPT ![t] = NoLoop], status)
  BY LoopRecords, LoopMoves, PoolTypes DEF LoopAborted
<1> QED
  BY <1>1, PoolAfter DEF LoopAborted

\* The answer to a command that no loop commits or saves with.
LEMMA OtherReply ==
  ASSUME PoolInv, NEW c \in OtherCalls, Answered(c), Reply(<<>>)
  PROVE  wire' = Tail(wire) /\ PoolOK(wire', loop, status)
<1>1. PoolOK(wire, loop, status) /\ wire # <<>> /\ Head(wire) = c
  BY DEF PoolInv, Answered
<1>2. Tail(wire) \in Seq(Calls)
  BY <1>1, Replied
<1>3. wire' = Tail(wire)
  BY <1>2 DEF Reply
<1> QED
  BY <1>1, <1>3, OtherAnswered

LEMMA FailReplyPool ==
  ASSUME PoolInv, NEW t \in FSM!TripIds, FailReply(t)
  PROVE  PoolInv'
<1>1. PoolOK(wire', loop, status)
  BY OtherReply, OthersAre DEF FailReply
<1> QED
  BY <1>1, PoolAfter DEF FailReply

LEMMA FreeReplyPool ==
  ASSUME PoolInv, NEW t \in FSM!TripIds, NEW d \in Drivers, FreeReply(t, d)
  PROVE  PoolInv'
<1> DEFINE x == IF loop[t].at = "rollback" THEN [loop[t] EXCEPT !.at = "top"] ELSE loop[t]
           ts == IF loop[t].at = "rollback" THEN {t} ELSE {}
<1>1. /\ PoolOK(wire', loop, status)
      /\ status' = [status EXCEPT ![d] = IF @ = "leased" THEN @ ELSE "available"]
      /\ loop' = [loop EXCEPT ![t].at = IF @ = "rollback" THEN "top" ELSE @]
  BY OtherReply, OthersAre DEF FreeReply
<1>2. /\ loop' \in [FSM!TripIds -> LoopStates]
      /\ \A u \in FSM!TripIds \ ts : loop'[u] = loop[u]
      /\ \A u \in FSM!TripIds \cap ts : loop[u].at = "rollback" /\ loop'[u].at = "top"
  <2>1. CASE loop[t].at = "rollback"
    <3>1. loop' = [loop EXCEPT ![t] = [loop[t] EXCEPT !.at = "top"]]
      BY <1>1, <2>1, PoolTypes DEF LoopStates
    <3> QED
      BY <2>1, <3>1, LoopRecords, PoolTypes
  <2>2. CASE loop[t].at # "rollback"
    <3>1. loop' = [loop EXCEPT ![t] = loop[t]]
      BY <1>1, <2>2, PoolTypes DEF LoopStates
    <3>2. loop' = loop
      BY <3>1, PoolTypes
    <3> QED
      BY <2>2, <3>2, PoolTypes
  <2> QED
    BY <2>1, <2>2
<1>3. /\ status' \in [Drivers -> {"available", "leased", "busy"}]
      /\ \A e \in Drivers : status[e] = "leased" => status'[e] = "leased"
  BY <1>1, PoolTypes
<1>4. \A u \in FSM!TripIds \cap ts : /\ loop[u].at \notin {"commit", "saving"}
                                      /\ loop'[u].at \notin {"offer", "commit", "saving"}
  BY <1>2
<1>5. /\ PoolOK(wire', loop, status)
      /\ loop' \in [FSM!TripIds -> LoopStates]
      /\ \A u \in FSM!TripIds \ ts : loop'[u] = loop[u]
  BY <1>1, <1>2
<1> HIDE DEF ts
<1>6. PoolOK(wire', loop', status')
  BY <1>3, <1>4, <1>5, LoopsMove
<1> QED
  BY <1>6 DEF PoolInv

LEMMA ResetReplyPool ==
  ASSUME PoolInv, ResetReply
  PROVE  PoolInv'
<1>1. /\ PoolOK(wire', loop, status) /\ loop' = loop
      /\ status' = [d \in Drivers |-> IF status[d] = "leased" THEN "leased" ELSE "available"]
  BY OtherReply, OthersAre DEF ResetReply
<1>2. /\ status' \in [Drivers -> {"available", "leased", "busy"}]
      /\ \A e \in Drivers : status[e] = "leased" => status'[e] = "leased"
  BY <1>1, PoolTypes
<1>3. PoolOK(wire', loop, status')
  <2> DEFINE ts == {}
  <2>1. /\ loop \in [FSM!TripIds -> LoopStates]
        /\ \A t \in FSM!TripIds \ ts : loop[t] = loop[t]
        /\ \A t \in FSM!TripIds \cap ts : /\ loop[t].at \notin {"commit", "saving"}
                                          /\ loop[t].at \notin {"offer", "commit", "saving"}
    BY PoolTypes
  <2> HIDE DEF ts
  <2> QED
    BY <1>1, <1>2, <2>1, LoopsMove
<1> QED
  BY <1>1, <1>3 DEF PoolInv

LEMMA ReachDropoffPool ==
  ASSUME PoolInv, NEW d \in Drivers, ReachDropoff(d), activeTripId[d] \in FSM!TripIds \cup {None}
  PROVE  PoolInv'
<1>1. /\ wire' = Append(wire, FreeCall(activeTripId[d], d)) /\ activeTripId[d] \in FSM!TripIds
      /\ loop' = loop /\ status' = status
  BY DEF ReachDropoff
<1>2. PoolOK(wire', loop, status)
  BY <1>1, OtherIssued, OthersAre DEF PoolInv
<1> QED
  BY <1>1, <1>2, PoolAfter

\* Offers are withdrawn, and commands that no loop waits for are issued.
LEMMA WithdrawPool ==
  ASSUME PoolInv, NEW ts \in SUBSET FSM!TripIds, Withdraw(ts), NEW u \in Seq(OtherCalls), wire' = wire \o u
  PROVE  PoolInv'
<1> DEFINE ws == Withdrawn(ts)
<1>1. /\ status' = [d \in Drivers |->
            IF \E t \in ws : loop[t].driver = d THEN "available" ELSE status[d]]
      /\ loop' = [t \in FSM!TripIds |-> IF t \in ws THEN NoLoop ELSE loop[t]]
  BY DEF Withdraw
<1>2. ws \subseteq FSM!TripIds /\ \A t \in ws : loop[t].at = "offer"
  BY DEF Withdrawn
<1>3. NoLoop \in LoopStates /\ NoLoop.at = "idle"
  BY DEF NoLoop, LoopStates
<1> HIDE DEF ws
<1>4. /\ status' \in [Drivers -> {"available", "leased", "busy"}]
      /\ loop' \in [FSM!TripIds -> LoopStates]
      /\ \A t \in FSM!TripIds \ ws : loop'[t] = loop[t]
      /\ \A t \in FSM!TripIds \cap ws : /\ loop[t].at \notin {"commit", "saving"}
                                        /\ loop'[t].at \notin {"offer", "commit", "saving"}
  BY <1>1, <1>2, <1>3, PoolTypes
<1>5. ASSUME NEW d \in Drivers
      PROVE  \/ status[d] = "leased" => status'[d] = "leased"
             \/ \E t \in FSM!TripIds \cap ws : loop[t].at = "offer" /\ loop[t].driver = d
  BY <1>1, <1>2
<1>6. PoolOK(wire, loop', status')
  BY <1>4, <1>5, LoopsMove DEF PoolInv
<1>7. PoolOK(wire', loop', status')
  BY <1>6, OthersIssued
<1> QED
  BY <1>7 DEF PoolInv

\* The commit is answered: its loop neither leads nor saves, and no other loop
\* commits this driver.
LEMMA CommitTaken ==
  ASSUME PoolInv, NEW t \in FSM!TripIds, Answered(CommitCall(t)),
         NEW x \in LoopStates, x.at = "rollback", x.driver = loop[t].driver
  PROVE  /\ loop[t].at = "commit" /\ loop[t].driver \in Drivers
         /\ PoolOK(Tail(wire), [loop EXCEPT ![t] = x], [status EXCEPT ![loop[t].driver] = "busy"])
         /\ \A u \in FSM!TripIds \ {t} :
               loop[u].at \in Leading \cup {"saving"} => loop[u].driver # loop[t].driver
<1> DEFINE w == Tail(wire)
           l == [loop EXCEPT ![t] = x]
           d == loop[t].driver
           st == [status EXCEPT ![d] = "busy"]
<1>1. wire # <<>> /\ Head(wire) = CommitCall(t) /\ PoolOK(wire, loop, status)
  BY DEF Answered, PoolInv
<1>2. /\ w \in Seq(Calls) /\ Occurs(wire, CommitCall(t))
      /\ \A b : Occurs(w, b) => Occurs(wire, b)
      /\ \A b : b # CommitCall(t) /\ Occurs(wire, b) => Occurs(w, b)
      /\ Once(wire, CommitCall(t)) => ~Occurs(w, CommitCall(t))
      /\ \A b : Once(wire, b) => Once(w, b)
      /\ \A a, b : Before(wire, a, b) => Before(w, a, b)
      /\ \A a : Before(wire, a, CommitCall(t)) => ~Occurs(wire, a)
  BY <1>1, Replied
<1>3. /\ \A u \in FSM!TripIds : LoopFacts(wire, loop, status, u)
      /\ \A u, v \in FSM!TripIds : LoopPair(wire, loop, u, v)
  BY <1>1 DEF PoolOK
<1>4. loop[t].at = "commit" /\ d \in Drivers /\ ~Occurs(w, CommitCall(t))
  BY <1>2, <1>3 DEF LoopFacts, Leading
<1>5. ASSUME NEW u \in FSM!TripIds \ {t}, loop[u].at \in Leading \cup {"saving"}
      PROVE  loop[u].driver # d
  <2>1. CASE loop[u].at \in Leading
    BY <1>3, <1>4, <2>1 DEF LoopPair, Leading
  <2>2. CASE loop[u].at = "saving"
    <3>1. Occurs(wire, SaveCall(u))
      BY <1>3, <2>2 DEF LoopFacts
    <3> QED
      BY <1>2, <1>3, <1>4, <2>2, <3>1 DEF LoopPair
  <2> QED
    BY <1>5, <2>1, <2>2
<1>6. /\ l \in [FSM!TripIds -> LoopStates] /\ st \in [Drivers -> {"available", "leased", "busy"}]
      /\ l[t] = x /\ \A u \in FSM!TripIds \ {t} : l[u] = loop[u]
      /\ \A e \in Drivers : e # d => st[e] = status[e]
  BY PoolTypes
<1> HIDE DEF w, l, d, st
<1>7. PoolTyped(w, l, st)
  BY <1>2, <1>6 DEF PoolTyped
<1>8. ASSUME NEW u \in FSM!TripIds PROVE LoopFacts(w, l, st, u)
  <2>0. LoopFacts(wire, loop, status, u) /\ SaveCall(u) # CommitCall(t)
    BY <1>3, CallsApart
  <2>1. CASE u = t
    <3>1. ~Occurs(w, SaveCall(u))
      BY <1>2, <1>4, <2>0, <2>1 DEF LoopFacts
    <3> QED
      BY <1>2, <1>4, <1>6, <2>0, <2>1, <3>1 DEF LoopFacts, Leading
  <2>2. CASE u # t
    <3>1. CommitCall(u) # CommitCall(t)
      BY <2>2, CallsApart
    <3>2. loop[u].at \in Leading => st[loop[u].driver] = status[loop[u].driver]
      BY <1>5, <1>6, <2>0, <2>2 DEF LoopFacts
    <3> QED
      BY <1>2, <1>6, <2>0, <2>2, <3>1, <3>2 DEF LoopFacts
  <2> QED
    BY <2>1, <2>2
<1>9. ASSUME NEW u \in FSM!TripIds, NEW v \in FSM!TripIds PROVE LoopPair(w, l, u, v)
  <2>1. LoopPair(wire, loop, u, v)
    BY <1>3
  <2> QED
    BY <1>2, <1>6, <2>1 DEF LoopPair, Leading
<1>10. PoolOK(w, l, st)
  BY <1>7, <1>8, <1>9 DEF PoolOK
<1> QED
  BY <1>4, <1>5, <1>10 DEF w, l, d, st

\* A loop without a command begins to save the match of a driver nobody commits.
LEMMA SaveIssued ==
  ASSUME NEW w, NEW l, NEW st, PoolOK(w, l, st), NEW t \in FSM!TripIds,
         l[t].at = "rollback",
         NEW m \in [FSM!TripIds -> LoopStates], m[t].at = "saving",
         \A u \in FSM!TripIds \ {t} : m[u] = l[u] /\ (m[u].at = "commit" => m[u].driver # m[t].driver)
  PROVE  PoolOK(Append(w, SaveCall(t)), m, st)
<1> DEFINE v == Append(w, SaveCall(t))
<1>1. w \in Seq(Calls) /\ SaveCall(t) \in Calls
  BY DEF PoolOK, PoolTyped, SaveCall, Calls
<1>2. /\ v \in Seq(Calls)
      /\ \A b : Occurs(v, b) <=> Occurs(w, b) \/ b = SaveCall(t)
      /\ \A b : Once(w, b) /\ (b = SaveCall(t) => ~Occurs(w, b)) => Once(v, b)
      /\ \A a, b : Before(w, a, b) /\ (a = SaveCall(t) => ~Occurs(w, b)) /\ a # b
                   => Before(v, a, b)
  BY <1>1, AppendFacts
<1> HIDE DEF v
<1>3. /\ \A u \in FSM!TripIds : LoopFacts(w, l, st, u)
      /\ \A a, b \in FSM!TripIds : LoopPair(w, l, a, b)
  BY DEF PoolOK
<1>4. PoolTyped(v, m, st)
  BY <1>2 DEF PoolOK, PoolTyped
<1>5. ASSUME NEW u \in FSM!TripIds PROVE LoopFacts(v, m, st, u)
  <2>0. /\ LoopFacts(w, l, st, u) /\ SaveCall(t) # CommitCall(u)
        /\ (u # t => SaveCall(u) # SaveCall(t))
    BY <1>3, CallsApart
  <2>1. CASE u = t
    BY <1>2, <2>0, <2>1 DEF LoopFacts, Leading
  <2>2. CASE u # t
    BY <1>2, <2>0, <2>2 DEF LoopFacts
  <2> QED
    BY <2>1, <2>2
<1>6. ASSUME NEW a \in FSM!TripIds, NEW b \in FSM!TripIds PROVE LoopPair(v, m, a, b)
  <2>0. /\ LoopPair(w, l, a, b) /\ SaveCall(a) # CommitCall(b)
        /\ (a # t => SaveCall(a) # SaveCall(t))
    BY <1>3, CallsApart
  <2>1. CASE a # t
    <3>1. CASE b # t
      BY <1>2, <2>0, <2>1, <3>1 DEF LoopPair
    <3>2. CASE b = t
      BY <2>1, <3>2 DEF LoopPair, Leading
    <3> QED
      BY <3>1, <3>2
  <2>2. CASE a = t
    BY <2>2 DEF LoopPair, Leading
  <2> QED
    BY <2>1, <2>2
<1>7. PoolOK(v, m, st)
  BY <1>4, <1>5, <1>6 DEF PoolOK
<1> QED
  BY <1>7 DEF v

LEMMA CommitReplyPool ==
  ASSUME PoolInv, NEW t \in FSM!TripIds, CommitReply(t)
  PROVE  /\ PoolInv'
         /\ loop[t].at = "commit" /\ loop[t].driver \in Drivers
         /\ \A u \in FSM!TripIds \ {t} :
               loop[u].at \in Leading \cup {"saving"} => loop[u].driver # loop[t].driver
         /\ loop'[t].driver = loop[t].driver /\ loop'[t].at \in {"saving", "rollback"}
         /\ \A u \in FSM!TripIds \ {t} : loop'[u] = loop[u]
<1> DEFINE d == loop[t].driver
           x == [loop[t] EXCEPT !.at = "rollback"]
           l == [loop EXCEPT ![t] = x]
           st == [status EXCEPT ![d] = "busy"]
<1>1. x \in LoopStates /\ x.at = "rollback" /\ x.driver = d
  BY LoopRecords
<1>2. /\ loop[t].at = "commit" /\ d \in Drivers
      /\ PoolOK(Tail(wire), l, st)
      /\ \A u \in FSM!TripIds \ {t} : loop[u].at \in Leading \cup {"saving"} => loop[u].driver # d
  BY <1>1, CommitTaken DEF CommitReply
<1>3. status' = st /\ Tail(wire) \in Seq(Calls)
  BY <1>2 DEF CommitReply, PoolOK, PoolTyped
<1>4. CASE Goto(t, "saving") /\ Reply(<<SaveCall(t)>>)
  <2>1. /\ loop' = [loop EXCEPT ![t] = [loop[t] EXCEPT !.at = "saving"]]
        /\ [loop[t] EXCEPT !.at = "saving"] \in LoopStates
        /\ [loop[t] EXCEPT !.at = "saving"].at = "saving"
        /\ [loop[t] EXCEPT !.at = "saving"].driver = d
    BY <1>4, LoopRecords DEF Goto
  <2>2. /\ loop' \in [FSM!TripIds -> LoopStates] /\ loop'[t].at = "saving"
        /\ loop'[t].driver = d
        /\ \A u \in FSM!TripIds \ {t} : loop'[u] = l[u] /\ loop'[u] = loop[u]
    BY <2>1, PoolTypes
  <2>3. l[t].at = "rollback"
    BY <1>1, PoolTypes
  <2>4. wire' = Append(Tail(wire), SaveCall(t))
    BY <1>3, <1>4, CallsAre DEF Reply
  <2> HIDE DEF l, st
  <2>5. \A u \in FSM!TripIds \ {t} :
           loop'[u] = l[u] /\ (loop'[u].at = "commit" => loop'[u].driver # loop'[t].driver)
    BY <1>2, <2>2 DEF Leading
  <2>6. PoolOK(wire', loop', st)
    BY <1>2, <2>2, <2>3, <2>4, <2>5, SaveIssued
  <2> QED
    BY <1>2, <1>3, <2>2, <2>6 DEF PoolInv
<1>5. CASE Goto(t, "rollback") /\ Reply(RollbackCalls(t, d))
  <2>1. loop' = l
    BY <1>5, LoopRecords DEF Goto
  <2>2. wire' = Tail(wire) \o <<FreeCall(t, d)>> /\ FreeCall(t, d) \in OtherCalls
    BY <1>2, <1>5, OthersAre DEF Reply, RollbackCalls
  <2>3. l[t] = x /\ \A u \in FSM!TripIds \ {t} : l[u] = loop[u]
    BY PoolTypes
  <2> HIDE DEF l, st
  <2>4. PoolOK(wire', loop', st)
    BY <1>2, <2>1, <2>2, OtherIssued
  <2> QED
    BY <1>1, <1>2, <1>3, <2>1, <2>3, <2>4 DEF PoolInv
<1> QED
  BY <1>4, <1>5 DEF CommitReply

LEMMA SaveReplyPool ==
  ASSUME PoolInv, NEW t \in FSM!TripIds, SaveReply(t)
  PROVE  PoolInv' /\ loop[t].at = "saving"
<1> DEFINE w == Tail(wire)
<1>1. wire # <<>> /\ Head(wire) = SaveCall(t) /\ PoolOK(wire, loop, status)
  BY DEF SaveReply, Answered, PoolInv
<1>2. /\ w \in Seq(Calls) /\ Occurs(wire, SaveCall(t))
      /\ \A b : Occurs(w, b) => Occurs(wire, b)
      /\ \A b : b # SaveCall(t) /\ Occurs(wire, b) => Occurs(w, b)
      /\ Once(wire, SaveCall(t)) => ~Occurs(w, SaveCall(t))
      /\ \A b : Once(wire, b) => Once(w, b)
      /\ \A a, b : Before(wire, a, b) => Before(w, a, b)
  BY <1>1, Replied
<1>3. /\ \A u \in FSM!TripIds : LoopFacts(wire, loop, status, u)
      /\ \A u, v \in FSM!TripIds : LoopPair(wire, loop, u, v)
  BY <1>1 DEF PoolOK
<1>4. loop[t].at = "saving" /\ ~Occurs(w, SaveCall(t))
  BY <1>2, <1>3 DEF LoopFacts
<1>5. /\ wire' = w /\ status' = status /\ loop' \in [FSM!TripIds -> LoopStates]
      /\ loop'[t].at = "idle" /\ \A u \in FSM!TripIds \ {t} : loop'[u] = loop[u]
  <2>1. wire' = w \o <<>> /\ loop' = [loop EXCEPT ![t] = NoLoop] /\ status' = status
    BY DEF SaveReply, Reply
  <2>2. wire' = w
    BY <1>2, <2>1
  <2> HIDE DEF w
  <2>3. NoLoop \in LoopStates /\ NoLoop.at = "idle"
    BY LoopRecords
  <2> QED
    BY <2>1, <2>2, <2>3, PoolTypes
<1> HIDE DEF w
<1>6. PoolTyped(wire', loop', status')
  BY <1>2, <1>5, PoolTypes DEF PoolTyped
<1>7. ASSUME NEW u \in FSM!TripIds PROVE LoopFacts(wire', loop', status', u)
  <2>0. /\ LoopFacts(wire, loop, status, u) /\ SaveCall(t) # CommitCall(u)
        /\ (u # t => SaveCall(u) # SaveCall(t))
    BY <1>3, CallsApart
  <2>1. CASE u = t
    <3>1. ~Occurs(w, CommitCall(u))
      BY <1>2, <1>4, <2>0, <2>1 DEF LoopFacts
    <3> QED
      BY <1>2, <1>4, <1>5, <2>0, <2>1, <3>1 DEF LoopFacts, Leading
  <2>2. CASE u # t
    BY <1>2, <1>5, <2>0, <2>2 DEF LoopFacts
  <2> QED
    BY <2>1, <2>2
<1>8. ASSUME NEW u \in FSM!TripIds, NEW v \in FSM!TripIds PROVE LoopPair(wire', loop', u, v)
  <2>1. LoopPair(wire, loop, u, v)
    BY <1>3
  <2> QED
    BY <1>2, <1>5, <2>1 DEF LoopPair, Leading
<1> QED
  BY <1>4, <1>6, <1>7, <1>8 DEF PoolInv, PoolOK

LEMMA FreeCallsAre ==
  ASSUME FSM!TypeOK, NEW t \in FSM!TripIds \cap DOMAIN trips
  PROVE  FreeCalls(t) \in Seq(OtherCalls)
<1>1. CASE trips[t].driverId = None
  BY <1>1 DEF FreeCalls
<1>2. CASE trips[t].driverId # None
  <2>1. FreeCall(t, trips[t].driverId) \in OtherCalls
    BY <1>2, TripIs, OthersAre
  <2> QED
    BY <1>2, <2>1 DEF FreeCalls
<1> QED
  BY <1>1, <1>2

LEMMA CancelRidePool ==
  ASSUME FSM!TypeOK, PoolInv, NEW t \in FSM!TripIds, CancelRide(t)
  PROVE  PoolInv'
<1>1. t \in DOMAIN trips
  BY DEF CancelRide, FSM!CancelTrip, FSM!Accepts
<1>2. FreeCalls(t) \in Seq(OtherCalls)
  BY <1>1, FreeCallsAre
<1> QED
  BY <1>2, WithdrawPool DEF CancelRide

LEMMA ResetRegionPool ==
  ASSUME FSM!TypeOK, PoolInv, ResetRegion
  PROVE  PoolInv'
<1>1. FSM!ActiveTrips \subseteq FSM!TripIds /\ ResetTrips \subseteq DOMAIN trips
  BY TripIs DEF FSM!ActiveTrips, ResetTrips
<1> DEFINE s == [t \in 1..MaxTrips |-> IF t \in ResetTrips THEN FreeCalls(t) ELSE <<>>]
<1>2. s \in [1..MaxTrips -> Seq(OtherCalls)]
  <2>1. ASSUME NEW t \in 1..MaxTrips
        PROVE  (IF t \in ResetTrips THEN FreeCalls(t) ELSE <<>>) \in Seq(OtherCalls)
    BY <1>1, FreeCallsAre DEF FSM!TripIds
  <2> QED
    BY <2>1
<1>3. ResetCalls \in Seq(OtherCalls)
  <2> HIDE DEF s
  <2>1. FlattenSeq(s) \in Seq(OtherCalls)
    BY <1>2, FlattenIs, SimulatorAssumption
  <2> QED
    BY <2>1 DEF ResetCalls, s
<1>4. wire \in Seq(Calls) /\ ResetCall \in OtherCalls /\ ResetCalls \in Seq(Calls)
  BY <1>3, PoolTypes, OthersAre DEF OtherCalls
<1> DEFINE u == ResetCalls \o <<ResetCall>>
<1>5. u \in Seq(OtherCalls) /\ wire' = wire \o u
  <2>1. <<ResetCall>> \in Seq(Calls)
    BY <1>4 DEF OtherCalls
  <2>2. (wire \o ResetCalls) \o <<ResetCall>> = wire \o (ResetCalls \o <<ResetCall>>)
    BY <1>4, <2>1, ConcatAssociative
  <2> QED
    BY <1>3, <1>4, <2>2 DEF ResetRegion
<1> HIDE DEF u
<1> QED
  BY <1>1, <1>5, WithdrawPool DEF ResetRegion

-----------------------------------------------------------------------------
(* Trips, drivers and those who drive them *)

\* activeDriverTrips names a trip of the driver that is assigned.
Custody(d) ==
    activeDriverTrips[d] # None =>
        /\ activeDriverTrips[d] \in DOMAIN trips
        /\ trips[activeDriverTrips[d]].driverId = d
        /\ trips[activeDriverTrips[d]].status \in FSM!Assigned

\* A virtual driver drives a trip it was matched with, whatever became of it since,
\* and a trip waits at its pickup only while its driver is there, or because a panel
\* reported it.
Riding(d) ==
    activeTripId[d] # None =>
        /\ activeTripId[d] \in DOMAIN trips
        /\ trips[activeTripId[d]].driverId = d
        /\ trips[activeTripId[d]].status \notin {"requested", "matching"}
        /\ (trips[activeTripId[d]].status = "arrived"
            => phase[d] = "in_progress" \/ activeTripId[d] \in reported)

\* A match that is being saved is not announced yet, and the driver, unless the
\* trip is over already, has no other trip.
Saved(t) ==
    loop[t].at = "saving" =>
        /\ t \in DOMAIN trips
        /\ loop[t].driver \in Drivers
        /\ trips[t].driverId = loop[t].driver
        /\ trips[t].status \notin {"requested", "matching"}
        /\ (trips[t].status = "arrived" => t \in reported)
        /\ activeDriverTrips[loop[t].driver] \in {t, None}
        /\ \A d \in Drivers : activeTripId[d] # t

\* A trip that is merely requested has no loop.
Launched(t) == loop[t].at # "idle" => t \in DOMAIN trips /\ trips[t].status # "requested"

RideInv ==
    /\ \A d \in Drivers : Custody(d) /\ Riding(d)
    /\ \A t \in FSM!TripIds : Saved(t) /\ Launched(t)

\* Driver d is on the way to the pickup of trip t, or there and about to start it,
\* or on the way to the dropoff.
Drives(d, t) ==
    /\ activeTripId[d] = t
    /\ \/ phase[d] = "en_route"
       \/ /\ phase[d] = "in_progress"
          /\ trips[t].status \in {"arrived", "in_progress"}
          /\ (boarding[d] = 0 => trips[t].status = "in_progress")

Driven(d) ==
    LET t == activeDriverTrips[d]
    IN  t # None => loop[t].at = "saving" \/ Drives(d, t)

\* Before the first reset of the region nothing is left of an old one.
Fresh == resets = 0 => leftBoarding = {} /\ ~Occurs(wire, ResetCall)

DrivenInv == Undisturbed => \A d \in Drivers : Driven(d)

SimTyped ==
    /\ FSM!TypeOK
    /\ phase \in [Drivers -> {"wandering", "en_route", "in_progress"}]
    /\ activeTripId \in [Drivers -> FSM!TripIds \cup {None}]
    /\ boarding \in [Drivers -> Nat]
    /\ resets \in Nat
    /\ scenario \in Scenarios

SimInv == SimTyped /\ PoolInv /\ RideInv /\ Fresh /\ DrivenInv

\* A panel reported of trip u that its driver is at the pickup, or that it starts.
Told(u) ==
    /\ trips'[u].driverId = trips[u].driverId
    /\ u \in reported'
    /\ \/ trips[u].status \in {"matched", "en_route"} /\ trips'[u].status = "arrived"
       \/ trips[u].status = "arrived" /\ trips'[u].status = "in_progress"

\* Trip u is as before, is over and its driver's entry deleted, is being matched, or
\* was told to go on.
CalmTrip(u) ==
    /\ u \in DOMAIN trips'
    /\ \/ trips'[u] = trips[u]
       \/ /\ trips[u].status \notin FSM!Terminal
          /\ trips'[u].status \in FSM!Terminal /\ trips'[u].driverId = trips[u].driverId
          /\ \A d \in Drivers : activeDriverTrips'[d] # u
       \/ trips[u].status = "requested" /\ trips'[u].status = "matching"
       \/ Told(u)

\* Nobody's match begins or ends being saved.
CalmLoop(t) ==
    /\ loop'[t].at = "saving" <=> loop[t].at = "saving"
    /\ loop'[t].at = "saving" => loop'[t].driver = loop[t].driver
    /\ loop'[t].at # "idle" => \/ loop[t].at # "idle"
                               \/ t \in DOMAIN trips' /\ trips'[t].status # "requested"

LEMMA CalmStep ==
  ASSUME SimInv,
         \A u \in DOMAIN trips : CalmTrip(u),
         \A d \in Drivers : activeDriverTrips'[d] \in {activeDriverTrips[d], None},
         \A t \in FSM!TripIds : CalmLoop(t),
         UNCHANGED <<activeTripId, phase, boarding>>, reported \subseteq reported',
         Undisturbed' => Undisturbed
  PROVE  RideInv' /\ DrivenInv'
<1>0. /\ \A d \in Drivers : Custody(d) /\ Riding(d)
      /\ \A t \in FSM!TripIds : Saved(t) /\ Launched(t)
      /\ activeDriverTrips \in [Drivers -> FSM!TripIds \cup {None}]
  BY DEF SimInv, RideInv, SimTyped, FSM!TypeOK
<1>1. ASSUME NEW d \in Drivers PROVE Custody(d)'
  <2>1. /\ activeDriverTrips'[d] # None => activeDriverTrips'[d] = activeDriverTrips[d]
        /\ Custody(d)
    BY <1>0
  <2>2. activeDriverTrips'[d] # None =>
            CalmTrip(activeDriverTrips[d]) /\ activeDriverTrips'[d] = activeDriverTrips[d]
    BY <2>1 DEF Custody
  <2> QED
    BY <2>1, <2>2 DEF Custody, CalmTrip, Told, FSM!Assigned, FSM!Terminal
<1>2. ASSUME NEW d \in Drivers PROVE Riding(d)'
  <2>1. Riding(d) /\ activeTripId' = activeTripId /\ phase' = phase
    BY <1>0
  <2>2. activeTripId[d] # None => CalmTrip(activeTripId[d])
    BY <2>1 DEF Riding
  <2> QED
    BY <2>1, <2>2 DEF Riding, CalmTrip, Told, FSM!Terminal
<1>3. ASSUME NEW t \in FSM!TripIds PROVE Saved(t)'
  <2>1. Saved(t) /\ CalmLoop(t) /\ activeTripId' = activeTripId
    BY <1>0
  <2>2. t \in DOMAIN trips => CalmTrip(t)
    OBVIOUS
  <2> QED
    BY <2>1, <2>2 DEF Saved, CalmTrip, CalmLoop, Told, FSM!Terminal
<1>4. ASSUME NEW t \in FSM!TripIds PROVE Launched(t)'
  <2>1. Launched(t) /\ CalmLoop(t)
    BY <1>0
  <2>2. t \in DOMAIN trips => CalmTrip(t)
    OBVIOUS
  <2> QED
    BY <2>1, <2>2 DEF Launched, CalmTrip, CalmLoop, Told, FSM!Terminal
<1>5. ASSUME Undisturbed', NEW d \in Drivers PROVE Driven(d)'
  <2>1. Driven(d) /\ Custody(d) /\ activeTripId' = activeTripId /\ phase' = phase /\ boarding' = boarding
    BY <1>0, <1>5 DEF SimInv, DrivenInv
  <2>2. activeDriverTrips'[d] # None =>
            /\ activeDriverTrips'[d] = activeDriverTrips[d]
            /\ CalmTrip(activeDriverTrips[d]) /\ CalmLoop(activeDriverTrips[d])
    BY <1>0, <2>1 DEF Custody
  <2>3. activeDriverTrips'[d] # None =>
            \/ trips'[activeDriverTrips[d]] = trips[activeDriverTrips[d]]
            \/ Told(activeDriverTrips[d])
    BY <2>1, <2>2 DEF Custody, CalmTrip, FSM!Assigned
  <2> QED
    BY <2>1, <2>2, <2>3 DEF Driven, Drives, CalmLoop, Told
<1> QED
  BY <1>1, <1>2, <1>3, <1>4, <1>5 DEF RideInv, DrivenInv

LEMMA SimFacts ==
  ASSUME SimInv
  PROVE  /\ SimTyped /\ FSM!TypeOK /\ PoolInv /\ RideInv /\ Fresh /\ DrivenInv
         /\ \A d \in Drivers : Custody(d) /\ Riding(d)
         /\ \A t \in FSM!TripIds : Saved(t) /\ Launched(t)
         /\ \A t \in FSM!TripIds : LoopFacts(wire, loop, status, t)
         /\ \A t, u \in FSM!TripIds : LoopPair(wire, loop, t, u)
         /\ status \in [Drivers -> {"available", "leased", "busy"}]
         /\ loop \in [FSM!TripIds -> LoopStates] /\ wire \in Seq(Calls)
BY DEF SimInv, RideInv, PoolInv, PoolOK, PoolTyped, SimTyped

LEMMA SameSim ==
  ASSUME SimInv, UNCHANGED simVars, FSM!TypeOK'
  PROVE  SimTyped' /\ (Undisturbed' <=> Undisturbed)
         /\ UNCHANGED <<activeTripId, phase, boarding, resets, leftBoarding, reported>>
BY DEF SimInv, SimTyped, simVars, Undisturbed

LEMMA SameFreshness ==
  ASSUME SimInv, resets' = resets, leftBoarding' \subseteq leftBoarding,
         Occurs(wire', ResetCall) => Occurs(wire, ResetCall)
  PROVE  Fresh'
BY DEF SimInv, Fresh

LEMMA FreshAppend ==
  ASSUME SimInv, NEW c \in Calls, c # ResetCall,
         resets' = resets, leftBoarding' \subseteq leftBoarding, wire' = Append(wire, c)
  PROVE  Fresh'
BY SimFacts, AppendFacts, SameFreshness

LEMMA SameTrips ==
  ASSUME SimInv, UNCHANGED fsmVars
  PROVE  /\ FSM!TypeOK'
         /\ \A u \in DOMAIN trips : CalmTrip(u)
         /\ \A d \in Drivers : activeDriverTrips'[d] \in {activeDriverTrips[d], None}
BY DEF SimInv, SimTyped, fsmVars, CalmTrip, FSM!TypeOK

\* A step of the pool that saves no match and moves no trip.
LEMMA PoolOnly ==
  ASSUME SimInv, UNCHANGED <<fsmVars, simVars>>, PoolInv', Fresh', \A t \in FSM!TripIds : CalmLoop(t)
  PROVE  SimInv'
<1>1. /\ FSM!TypeOK'
      /\ \A u \in DOMAIN trips : CalmTrip(u)
      /\ \A d \in Drivers : activeDriverTrips'[d] \in {activeDriverTrips[d], None}
  BY SameTrips DEF fsmVars
<1>2. /\ SimTyped' /\ (Undisturbed' <=> Undisturbed)
      /\ UNCHANGED <<activeTripId, phase, boarding, reported>>
  BY <1>1, SameSim
<1>3. RideInv' /\ DrivenInv'
  BY <1>1, <1>2, CalmStep
<1> QED
  BY <1>2, <1>3 DEF SimInv

LEMMA RequestRideInv ==
  ASSUME SimInv, NEW q \in Requests, NEW r \in Riders, RequestRide(q, r)
  PROVE  SimInv'
<1>1. /\ FSM!CreateTrip(q, r) /\ UNCHANGED poolVars /\ UNCHANGED simVars
  BY DEF RequestRide
<1>2. FSM!TypeOK' /\ (\A u \in DOMAIN trips : CalmTrip(u)) /\ activeDriverTrips' = activeDriverTrips
  BY <1>1, SimFacts, CreateMoves DEF CalmTrip
<1>3. PoolInv' /\ loop' = loop /\ wire' = wire
  BY <1>1, SimFacts, SamePool DEF poolVars
<1>4. SimTyped' /\ (Undisturbed' <=> Undisturbed)
      /\ UNCHANGED <<activeTripId, phase, boarding, resets, leftBoarding, reported>>
  BY <1>1, <1>2, SameSim
<1>5. Fresh'
  BY <1>3, <1>4, SameFreshness
<1>6. \A t \in FSM!TripIds : CalmLoop(t)
  BY <1>3 DEF CalmLoop
<1>7. RideInv' /\ DrivenInv'
  BY <1>2, <1>4, <1>6, CalmStep
<1> QED
  BY <1>3, <1>4, <1>5, <1>7 DEF SimInv

LEMMA BeginMatchingInv ==
  ASSUME SimInv, NEW t \in FSM!TripIds, BeginMatching(t)
  PROVE  SimInv'
<1>1. /\ trips[t].status = "requested" /\ FSM!StartMatching(t) /\ t \in DOMAIN trips
      /\ loop' = [loop EXCEPT ![t].at = "top"] /\ wire' = wire /\ UNCHANGED simVars
  BY DEF BeginMatching
<1>2. FSM!TypeOK' /\ Moves(t, "matching", None) /\ Released(t)
  BY <1>1, SimFacts, MatchingMoves
<1>3. loop[t].at = "idle"
  BY <1>1, SimFacts DEF Launched
<1>4. PoolInv'
  BY <1>3, SimFacts, BeginMatchingPool
<1>5. SimTyped' /\ (Undisturbed' <=> Undisturbed)
      /\ UNCHANGED <<activeTripId, phase, boarding, resets, leftBoarding, reported>>
  BY <1>1, <1>2, SameSim
<1>6. Fresh'
  BY <1>1, <1>5, SameFreshness
<1>7. \A u \in DOMAIN trips : CalmTrip(u)
  BY <1>1, <1>2 DEF CalmTrip, Moves
<1>8. ASSUME NEW u \in FSM!TripIds PROVE CalmLoop(u)
  <2>1. CASE u = t
    <3>1. loop'[u].at = "top"
      BY <1>1, <2>1, SimFacts DEF LoopStates
    <3> QED
      BY <1>1, <1>2, <1>3, <2>1, <3>1 DEF CalmLoop, Moves
  <2>2. CASE u # t
    BY <1>1, <2>2, SimFacts DEF CalmLoop
  <2> QED
    BY <2>1, <2>2
<1>9. RideInv' /\ DrivenInv'
  BY <1>2, <1>5, <1>7, <1>8, CalmStep DEF Released
<1> QED
  BY <1>4, <1>5, <1>6, <1>9 DEF SimInv

\* An offer loop at work that saves no match.
LEMMA CalmRecord ==
  ASSUME SimInv, NEW t \in FSM!TripIds, NEW x, loop' = [loop EXCEPT ![t] = x],
         loop[t].at \notin {"idle", "saving"}, x.at # "saving"
  PROVE  \A u \in FSM!TripIds : CalmLoop(u)
BY SimFacts DEF CalmLoop

LEMMA OfferInv ==
  ASSUME SimInv, NEW t \in FSM!TripIds, NEW d \in Drivers, Offer(t, d)
  PROVE  SimInv'
<1> DEFINE x == [at |-> "offer", driver |-> d, tried |-> loop[t].tried \cup {d}]
<1>1. /\ loop[t].at = "top" /\ UNCHANGED <<fsmVars, wire, simVars>>
      /\ loop' = [loop EXCEPT ![t] = x] /\ x.at = "offer"
  BY SimFacts DEF Offer
<1> HIDE DEF x
<1>2. PoolInv'
  BY SimFacts, OfferPool
<1>3. \A u \in FSM!TripIds : CalmLoop(u)
  BY <1>1, CalmRecord
<1>4. Fresh'
  BY <1>1, SameFreshness DEF simVars
<1> QED
  BY <1>1, <1>2, <1>3, <1>4, PoolOnly

LEMMA AcceptInv ==
  ASSUME SimInv, NEW t \in FSM!TripIds, Accept(t)
  PROVE  SimInv'
<1>1. /\ loop[t].at = "offer" /\ UNCHANGED <<fsmVars, simVars>>
      /\ loop' = [loop EXCEPT ![t] = [loop[t] EXCEPT !.at = "commit"]]
      /\ wire' = Append(wire, CommitCall(t))
      /\ [loop[t] EXCEPT !.at = "commit"].at = "commit"
  BY SimFacts, LoopRecords DEF Accept, Goto
<1>2. PoolInv'
  BY SimFacts, AcceptPool
<1>3. \A u \in FSM!TripIds : CalmLoop(u)
  BY <1>1, CalmRecord
<1>4. Fresh'
  <2>1. CommitCall(t) # ResetCall /\ CommitCall(t) \in Calls
    BY CallsDiffer DEF CommitCall, Calls
  <2> QED
    BY <1>1, <2>1, FreshAppend DEF simVars
<1> QED
  BY <1>1, <1>2, <1>3, <1>4, PoolOnly

LEMMA DeclineInv ==
  ASSUME SimInv, NEW t \in FSM!TripIds, Decline(t)
  PROVE  SimInv'
<1>1. /\ loop[t].at = "offer" /\ UNCHANGED <<fsmVars, wire, simVars>>
      /\ loop' = [loop EXCEPT ![t] = [loop[t] EXCEPT !.at = "top"]]
      /\ [loop[t] EXCEPT !.at = "top"].at = "top"
  BY SimFacts, LoopRecords DEF Decline, Goto
<1>2. PoolInv'
  BY SimFacts, DeclinePool
<1>3. \A u \in FSM!TripIds : CalmLoop(u)
  BY <1>1, CalmRecord
<1>4. Fresh'
  BY <1>1, SameFreshness DEF simVars
<1> QED
  BY <1>1, <1>2, <1>3, <1>4, PoolOnly

LEMMA LoopAbortedInv ==
  ASSUME SimInv, NEW t \in FSM!TripIds, LoopAborted(t)
  PROVE  SimInv'
<1>1. /\ loop[t].at = "top" /\ UNCHANGED <<fsmVars, wire, simVars>>
      /\ loop' = [loop EXCEPT ![t] = NoLoop] /\ NoLoop.at = "idle"
  BY DEF LoopAborted, NoLoop
<1>2. PoolInv'
  BY SimFacts, LoopAbortedPool
<1>3. \A u \in FSM!TripIds : CalmLoop(u)
  BY <1>1, CalmRecord
<1>4. Fresh'
  BY <1>1, SameFreshness DEF simVars
<1> QED
  BY <1>1, <1>2, <1>3, <1>4, PoolOnly

LEMMA FailReplyInv ==
  ASSUME SimInv, NEW t \in FSM!TripIds, FailReply(t)
  PROVE  SimInv'
<1>1. UNCHANGED <<fsmVars, simVars>> /\ loop' = loop /\ wire' = Tail(wire) /\ wire # <<>>
  BY SimFacts, OtherReply, OthersAre DEF FailReply, Answered
<1>2. PoolInv'
  BY SimFacts, FailReplyPool
<1>3. \A u \in FSM!TripIds : CalmLoop(u)
  BY <1>1, SimFacts DEF CalmLoop
<1>4. Fresh'
  BY <1>1, SimFacts, TailFacts, SameFreshness DEF simVars
<1> QED
  BY <1>1, <1>2, <1>3, <1>4, PoolOnly

LEMMA FreeReplyInv ==
  ASSUME SimInv, NEW t \in FSM!TripIds, NEW d \in Drivers, FreeReply(t, d)
  PROVE  SimInv'
<1>1. UNCHANGED <<fsmVars, simVars>> /\ wire' = Tail(wire) /\ wire # <<>>
      /\ loop' = [loop EXCEPT ![t].at = IF @ = "rollback" THEN "top" ELSE @]
  BY SimFacts, OtherReply, OthersAre DEF FreeReply, Answered
<1>2. PoolInv'
  BY SimFacts, FreeReplyPool
<1>3. ASSUME NEW u \in FSM!TripIds PROVE CalmLoop(u)
  <2>1. CASE u = t
    <3>1. /\ loop'[u].driver = loop[u].driver
          /\ loop'[u].at = IF loop[u].at = "rollback" THEN "top" ELSE loop[u].at
      BY <1>1, <2>1, SimFacts DEF LoopStates
    <3> QED
      BY <3>1, SimFacts DEF CalmLoop
  <2>2. CASE u # t
    BY <1>1, <2>2, SimFacts DEF CalmLoop
  <2> QED
    BY <2>1, <2>2
<1>4. Fresh'
  BY <1>1, SimFacts, TailFacts, SameFreshness DEF simVars
<1> QED
  BY <1>1, <1>2, <1>3, <1>4, PoolOnly

\* The driver of a trip, if it has one, is to be freed; nothing is reset for it.
LEMMA FreeCallsFresh ==
  ASSUME SimInv, NEW t \in DOMAIN trips, wire' = wire \o FreeCalls(t),
         resets' = resets, leftBoarding' = leftBoarding
  PROVE  Fresh'
<1>1. \/ FreeCalls(t) = <<>>
      \/ /\ FreeCalls(t) = <<FreeCall(t, trips[t].driverId)>>
         /\ trips[t].driverId \in Drivers
  BY SimFacts, TripIs DEF FreeCalls
<1>2. \A d \in Drivers : FreeCall(t, d) \in Calls /\ FreeCall(t, d) # ResetCall
  BY SimFacts, TripIs, CallsAre, CallsDiffer
<1>3. ASSUME NEW d \in Drivers, FreeCalls(t) = <<FreeCall(t, d)>>
      PROVE  FreeCalls(t) \in Seq(Calls) /\ ~Occurs(FreeCalls(t), ResetCall)
  <2> DEFINE c == FreeCall(t, d)
  <2>1. c \in Calls /\ c # ResetCall
    BY <1>2
  <2> HIDE DEF c
  <2>2. <<c>> \in Seq(Calls) /\ ~Occurs(<<c>>, ResetCall)
    BY <2>1 DEF Occurs
  <2> QED
    BY <1>3, <2>2 DEF c
<1>4. <<>> \in Seq(Calls) /\ ~Occurs(<<>>, ResetCall)
  BY DEF Occurs
<1>5. FreeCalls(t) \in Seq(Calls) /\ ~Occurs(FreeCalls(t), ResetCall)
  BY <1>1, <1>3, <1>4
<1> QED
  BY <1>5, SimFacts, ConcatFacts, SameFreshness

LEMMA FreeCallsPool ==
  ASSUME SimInv, NEW t \in DOMAIN trips, wire' = wire \o FreeCalls(t), loop' = loop, status' = status
  PROVE  PoolInv'
<1>1. FreeCalls(t) \in Seq(OtherCalls)
  BY SimFacts, TripIs, FreeCallsAre
<1>2. PoolOK(wire \o FreeCalls(t), loop, status)
  BY <1>1, SimFacts, OthersIssued DEF PoolInv
<1> QED
  BY <1>2, PoolAfter

\* A trip is cancelled.
LEMMA CancelledTrip ==
  ASSUME SimInv, NEW t, \E role : FSM!CancelTrip(t, role)
  PROVE  /\ FSM!TypeOK' /\ t \in DOMAIN trips
         /\ \A u \in DOMAIN trips : CalmTrip(u)
         /\ \A d \in Drivers : activeDriverTrips'[d] \in {activeDriverTrips[d], None}
<1> DEFINE s == "cancelled"
<1>1. /\ FSM!TypeOK' /\ Released(t) /\ Moves(t, s, trips[t].driverId)
      /\ trips[t].status \notin FSM!Terminal
  BY SimFacts, EndMoves
<1>2. t \in DOMAIN trips /\ None # t
  BY <1>1, SimFacts, SimulatorAssumption DEF Moves, FSM!TypeOK
<1>3. \A d \in Drivers : activeDriverTrips'[d] # t
  BY <1>1, <1>2, SimFacts DEF Released, Custody
<1>4. \A u \in DOMAIN trips : CalmTrip(u)
  BY <1>1, <1>3 DEF CalmTrip, Moves, FSM!Terminal
<1> QED
  BY <1>1, <1>2, <1>4 DEF Released

LEMMA GiveUpInv ==
  ASSUME SimInv, NEW t \in FSM!TripIds, GiveUp(t)
  PROVE  SimInv'
<1>1. /\ loop[t].at = "top" /\ UNCHANGED simVars /\ FSM!CancelTrip(t, "system")
      /\ loop' = [loop EXCEPT ![t] = NoLoop] /\ NoLoop.at = "idle"
      /\ wire' = Append(wire, FailCall(t))
  BY DEF GiveUp, NoLoop
<1>2. /\ FSM!TypeOK' 
      /\ \A u \in DOMAIN trips : CalmTrip(u)
      /\ \A d \in Drivers : activeDriverTrips'[d] \in {activeDriverTrips[d], None}
  BY <1>1, CancelledTrip
<1>3. PoolInv'
  BY SimFacts, GiveUpPool
<1>4. \A u \in FSM!TripIds : CalmLoop(u)
  BY <1>1, CalmRecord
<1>5. SimTyped' /\ (Undisturbed' <=> Undisturbed)
      /\ UNCHANGED <<activeTripId, phase, boarding, resets, leftBoarding, reported>>
  BY <1>1, <1>2, SameSim
<1>6. Fresh'
  <2>1. FailCall(t) # ResetCall /\ FailCall(t) \in Calls
    BY CallsDiffer DEF FailCall, Calls
  <2> QED
    BY <1>1, <1>5, <2>1, FreshAppend
<1>7. RideInv' /\ DrivenInv'
  BY <1>2, <1>4, <1>5, CalmStep
<1> QED
  BY <1>3, <1>5, <1>6, <1>7 DEF SimInv

LEMMA WithdrawCalm ==
  ASSUME SimInv, NEW ts, Withdraw(ts)
  PROVE  \A t \in FSM!TripIds : CalmLoop(t)
<1>1. ASSUME NEW t \in FSM!TripIds
      PROVE  loop'[t] = loop[t] \/ (loop[t].at = "offer" /\ loop'[t] = NoLoop)
  BY DEF Withdraw, Withdrawn
<1> QED
  BY <1>1, SimFacts DEF CalmLoop, NoLoop

LEMMA CancelRideInv ==
  ASSUME SimInv, NEW t \in FSM!TripIds, CancelRide(t)
  PROVE  SimInv'
<1>1. /\ UNCHANGED simVars /\ FSM!CancelTrip(t, "rider") /\ Withdraw({t})
      /\ wire' = wire \o FreeCalls(t)
  BY DEF CancelRide
<1>2. /\ FSM!TypeOK' /\ t \in DOMAIN trips
      /\ \A u \in DOMAIN trips : CalmTrip(u)
      /\ \A d \in Drivers : activeDriverTrips'[d] \in {activeDriverTrips[d], None}
  BY <1>1, CancelledTrip
<1>3. PoolInv'
  BY SimFacts, CancelRidePool
<1>4. \A u \in FSM!TripIds : CalmLoop(u)
  BY <1>1, WithdrawCalm
<1>5. SimTyped' /\ (Undisturbed' <=> Undisturbed)
      /\ UNCHANGED <<activeTripId, phase, boarding, resets, leftBoarding, reported>>
  BY <1>1, <1>2, SameSim
<1>6. Fresh'
  BY <1>1, <1>2, <1>5, FreeCallsFresh
<1>7. RideInv' /\ DrivenInv'
  BY <1>2, <1>4, <1>5, CalmStep
<1> QED
  BY <1>3, <1>5, <1>6, <1>7 DEF SimInv

\* It is cancelled again.
LEMMA RepeatCancelInv ==
  ASSUME SimInv, NEW t, RepeatCancel(t)
  PROVE  SimInv'
<1>1. /\ t \in DOMAIN trips /\ UNCHANGED <<fsmVars, status, loop, simVars>>
      /\ wire' = wire \o FreeCalls(t)
  BY DEF RepeatCancel
<1>2. PoolInv' /\ Fresh'
  BY <1>1, FreeCallsPool, FreeCallsFresh DEF simVars
<1>3. \A u \in FSM!TripIds : CalmLoop(u)
  BY <1>1 DEF CalmLoop
<1> QED
  BY <1>1, <1>2, <1>3, PoolOnly

LEMMA ResetRegionInv ==
  ASSUME SimInv, ResetRegion
  PROVE  SimInv'
<1>0. ResetTrips \subseteq DOMAIN trips /\ None \notin DOMAIN trips
      /\ \A t \in ResetTrips : trips[t].status \notin FSM!Terminal
  BY SimFacts, TripIs, SimulatorAssumption
     DEF ResetTrips, FSM!ActiveTrips, FSM!TypeOK, FSM!TripIds
<1>1. /\ resets' = resets + 1 /\ Withdraw(FSM!ActiveTrips)
      /\ trips' = [t \in DOMAIN trips |->
             IF t \in ResetTrips THEN [trips[t] EXCEPT !.status = "cancelled"] ELSE trips[t]]
      /\ activeRiderTrips' = [r \in Riders |->
             IF activeRiderTrips[r] \in ResetTrips THEN None ELSE activeRiderTrips[r]]
      /\ activeDriverTrips' = [d \in Drivers |->
             IF activeDriverTrips[d] \in ResetTrips THEN None ELSE activeDriverTrips[d]]
      /\ UNCHANGED <<requestToTrip, created, phase, activeTripId, boarding, reported, scenario>>
  BY DEF ResetRegion
<1>2. FSM!TypeOK'
  <2>1. trips' \in [DOMAIN trips' -> FSM!Trip] /\ DOMAIN trips' = DOMAIN trips
    <3>1. \A t \in DOMAIN trips : [trips[t] EXCEPT !.status = "cancelled"] \in FSM!Trip
      BY SimFacts, TripIs DEF FSM!Trip, FSM!TripStatus, FSM!Terminal
    <3>2. \A t \in DOMAIN trips : trips[t] \in FSM!Trip
      BY SimFacts, TripIs
    <3> QED
      BY <1>1, <3>1, <3>2
  <2> QED
    BY <1>1, <2>1, SimFacts DEF FSM!TypeOK
<1>3. PoolInv'
  BY SimFacts, ResetRegionPool
<1>4. \A t \in FSM!TripIds : CalmLoop(t)
  BY <1>1, WithdrawCalm
<1>5. \A d \in Drivers : activeDriverTrips'[d] \in {activeDriverTrips[d], None}
  BY <1>1
<1>6. ASSUME NEW u \in DOMAIN trips PROVE CalmTrip(u)
  <2>1. CASE u \in ResetTrips
    <3>1. trips'[u] = [trips[u] EXCEPT !.status = "cancelled"] /\ u \in DOMAIN trips'
      BY <1>1, <2>1
    <3>2. trips'[u].status = "cancelled" /\ trips'[u].driverId = trips[u].driverId
      BY <3>1, SimFacts, TripIs DEF FSM!Trip
    <3>3. \A d \in Drivers : activeDriverTrips'[d] # u
      BY <1>0, <1>1, <2>1
    <3> QED
      BY <1>0, <2>1, <3>1, <3>2, <3>3 DEF CalmTrip, FSM!Terminal
  <2>2. CASE u \notin ResetTrips
    BY <1>1, <2>2 DEF CalmTrip
  <2> QED
    BY <2>1, <2>2
<1>7. resets' # 0 /\ ~Undisturbed' /\ SimTyped'
  BY <1>1, <1>2, SimFacts DEF SimTyped, Undisturbed
<1>8. RideInv' /\ DrivenInv'
  BY <1>1, <1>4, <1>5, <1>6, <1>7, CalmStep
<1> QED
  BY <1>3, <1>7, <1>8 DEF SimInv, Fresh

LEMMA ResetReplyInv ==
  ASSUME SimInv, ResetReply
  PROVE  SimInv'
<1>1. /\ UNCHANGED fsmVars /\ loop' = loop /\ UNCHANGED <<resets, reported, scenario>>
      /\ phase' = [d \in Drivers |-> "wandering"]
      /\ activeTripId' = [d \in Drivers |-> None]
      /\ boarding' = [d \in Drivers |-> 0]
      /\ wire # <<>> /\ Head(wire) = ResetCall
  BY DEF ResetReply, Answered
<1>2. resets # 0
  BY <1>1, SimFacts, TailFacts DEF Fresh
<1>3. PoolInv'
  BY SimFacts, ResetReplyPool
<1>4. /\ FSM!TypeOK' /\ trips' = trips /\ activeDriverTrips' = activeDriverTrips
      /\ \A t \in DOMAIN trips : t # None
  BY <1>1, SimFacts, SameTrips, SimulatorAssumption DEF fsmVars, FSM!TypeOK
<1>5. SimTyped' /\ Fresh' /\ DrivenInv'
  BY <1>1, <1>2, <1>4, SimFacts DEF SimTyped, Fresh, DrivenInv, Undisturbed
<1>6. \A d \in Drivers : Custody(d)' /\ Riding(d)'
  BY <1>1, <1>4, SimFacts DEF Custody, Riding
<1>7. ASSUME NEW t \in FSM!TripIds PROVE Saved(t)' /\ Launched(t)'
  <2>1. Saved(t) /\ Launched(t) /\ \A d \in Drivers : activeTripId'[d] = None
    BY <1>1, SimFacts
  <2> QED
    BY <1>1, <1>4, <2>1 DEF Saved, Launched
<1> QED
  BY <1>3, <1>5, <1>6, <1>7 DEF SimInv, RideInv

\* A match is made and begins to be saved.
LEMMA MatchedRide ==
  ASSUME SimInv, NEW t \in FSM!TripIds, NEW d \in Drivers, FSM!SetMatched(t, d),
         loop'[t].at = "saving", loop'[t].driver = d,
         \A u \in FSM!TripIds \ {t} :
            loop'[u] = loop[u] /\ (loop[u].at = "saving" => loop[u].driver # d),
         UNCHANGED simVars
  PROVE  FSM!TypeOK' /\ RideInv' /\ DrivenInv'
<1>1. /\ FSM!TypeOK' /\ Moves(t, "matched", d) /\ trips[t].status = "matching"
      /\ activeDriverTrips[d] \in {t, None}
      /\ activeDriverTrips' = [activeDriverTrips EXCEPT ![d] = t]
      /\ activeDriverTrips \in [Drivers -> FSM!TripIds \cup {None}]
  BY SimFacts, MatchedMoves DEF FSM!TypeOK
<1>2. /\ UNCHANGED <<activeTripId, phase, boarding, reported>> /\ (Undisturbed' <=> Undisturbed)
  BY <1>1, SameSim
<1>3. ASSUME NEW e \in Drivers PROVE Custody(e)'
  <2>1. CASE e = d
    BY <1>1, <2>1 DEF Custody, Moves, FSM!Assigned
  <2>2. CASE e # d
    BY <1>1, <2>2, SimFacts DEF Custody, Moves, FSM!Assigned
  <2> QED
    BY <2>1, <2>2
<1>4. ASSUME NEW e \in Drivers PROVE Riding(e)' /\ activeTripId[e] # t
  BY <1>1, <1>2, SimFacts, SimulatorAssumption DEF Riding, Moves, FSM!TripIds
<1>5. ASSUME NEW u \in FSM!TripIds PROVE Saved(u)' /\ Launched(u)'
  <2>1. CASE u = t
    BY <1>1, <1>2, <1>4, <2>1 DEF Saved, Launched, Moves
  <2>2. CASE u # t
    <3>1. loop'[u] = loop[u] /\ (loop[u].at = "saving" => loop[u].driver # d)
          /\ (u \in DOMAIN trips => u \in DOMAIN trips' /\ trips'[u] = trips[u])
      BY <1>1, <2>2 DEF Moves
    <3>2. Saved(u) /\ Launched(u)
      BY SimFacts
    <3>3. loop[u].at = "saving" =>
             activeDriverTrips'[loop[u].driver] = activeDriverTrips[loop[u].driver]
      BY <1>1, <3>1, <3>2 DEF Saved
    <3> QED
      BY <1>2, <3>1, <3>2, <3>3 DEF Saved, Launched
  <2> QED
    BY <2>1, <2>2
<1>6. ASSUME Undisturbed', NEW e \in Drivers PROVE Driven(e)'
  <2>1. CASE e = d
    BY <1>1, <2>1 DEF Driven, Moves
  <2>2. CASE e # d
    <3>1. Driven(e) /\ Custody(e) /\ activeDriverTrips'[e] = activeDriverTrips[e]
      BY <1>1, <1>2, <1>6, <2>2, SimFacts DEF DrivenInv
    <3>2. activeDriverTrips[e] # None =>
            /\ activeDriverTrips[e] # t /\ activeDriverTrips[e] \in FSM!TripIds
            /\ trips'[activeDriverTrips[e]] = trips[activeDriverTrips[e]]
      BY <1>1, <3>1 DEF Custody, Moves, FSM!Assigned
    <3> QED
      BY <1>2, <3>1, <3>2 DEF Driven, Drives
  <2> QED
    BY <2>1, <2>2
<1> QED
  BY <1>1, <1>3, <1>4, <1>5, <1>6 DEF RideInv, DrivenInv

LEMMA CommitReplyInv ==
  ASSUME SimInv, NEW t \in FSM!TripIds, CommitReply(t)
  PROVE  SimInv'
<1> DEFINE d == loop[t].driver
<1>1. /\ PoolInv'
      /\ loop[t].at = "commit" /\ d \in Drivers
      /\ \A u \in FSM!TripIds \ {t} :
            loop[u].at \in Leading \cup {"saving"} => loop[u].driver # d
      /\ loop'[t].driver = d
      /\ \A u \in FSM!TripIds \ {t} : loop'[u] = loop[u]
  BY SimFacts, CommitReplyPool
<1>2. UNCHANGED simVars /\ wire # <<>>
  BY DEF CommitReply, Answered
<1>3. Fresh'
  <2>1. PICK c \in Calls : c # ResetCall /\ wire' = Tail(wire) \o <<c>>
    BY <1>1, CallsAre, CallsDiffer DEF CommitReply, Reply, RollbackCalls
  <2>2. /\ Tail(wire) \in Seq(Calls) /\ <<c>> \in Seq(Calls) /\ ~Occurs(<<c>>, ResetCall)
        /\ (Occurs(Tail(wire), ResetCall) => Occurs(wire, ResetCall))
    <3>1. wire \in Seq(Calls)
      BY SimFacts
    <3> QED
      BY <1>2, <2>1, <3>1, TailFacts DEF Occurs
  <2>3. Occurs(wire', ResetCall) => Occurs(wire, ResetCall)
    BY <2>1, <2>2, ConcatFacts
  <2> QED
    BY <1>2, <2>3, SameFreshness DEF simVars
<1>4. CASE FSM!SetMatched(t, d) /\ Goto(t, "saving")
  <2>1. loop'[t].at = "saving"
    BY <1>4, SimFacts DEF Goto, LoopStates
  <2> HIDE DEF d
  <2>2. FSM!TypeOK' /\ RideInv' /\ DrivenInv'
    BY <1>1, <1>2, <1>4, <2>1, MatchedRide
  <2> QED
    BY <1>1, <1>2, <1>3, <2>2, SameSim DEF SimInv
<1>5. CASE UNCHANGED fsmVars /\ Goto(t, "rollback")
  <2>1. /\ loop' = [loop EXCEPT ![t] = [loop[t] EXCEPT !.at = "rollback"]]
        /\ [loop[t] EXCEPT !.at = "rollback"].at = "rollback"
    BY <1>5, SimFacts, LoopRecords DEF Goto
  <2>2. \A u \in FSM!TripIds : CalmLoop(u)
    BY <1>1, <2>1, CalmRecord
  <2> QED
    BY <1>1, <1>2, <1>3, <1>5, <2>2, PoolOnly
<1> QED
  BY <1>4, <1>5 DEF CommitReply

LEMMA SaveReplyInv ==
  ASSUME SimInv, NEW t \in FSM!TripIds, SaveReply(t)
  PROVE  SimInv'
<1> DEFINE d == loop[t].driver
<1>1. PoolInv' /\ loop[t].at = "saving"
  BY SimFacts, SaveReplyPool
<1>2. /\ t \in DOMAIN trips /\ d \in Drivers /\ trips[t].driverId = d
      /\ trips[t].status \notin {"requested", "matching"}
      /\ (trips[t].status = "arrived" => t \in reported)
      /\ activeDriverTrips[d] \in {t, None}
      /\ \A e \in Drivers : activeTripId[e] # t
  BY <1>1, SimFacts DEF Saved
<1>3. /\ phase' = [phase EXCEPT ![d] = "en_route"]
      /\ activeTripId' = [activeTripId EXCEPT ![d] = t]
      /\ loop' = [loop EXCEPT ![t] = NoLoop] /\ NoLoop.at = "idle"
      /\ UNCHANGED <<boarding, leftBoarding, resets, reported, scenario>>
      /\ wire # <<>> /\ wire' = Tail(wire) \o <<>>
  BY DEF SaveReply, AnnouncedTrip, Answered, Reply, NoLoop
<1>4. /\ FSM!TypeOK' /\ activeDriverTrips' = activeDriverTrips
      /\ DOMAIN trips' = DOMAIN trips /\ \A u \in DOMAIN trips : u # t => trips'[u] = trips[u]
      /\ trips'[t].driverId = d
      /\ trips'[t].status = IF trips[t].status = "matched" THEN "en_route" ELSE trips[t].status
  <2>1. CASE trips[t].status = "matched"
    <3>1. FSM!Accepts(t, "en_route", "driver", None)
      BY <1>2, <2>1 DEF FSM!Accepts, FSM!AllowedTransitions, FSM!RoleMay
    <3>2. FSM!Milestone(t, "en_route")
      BY <3>1 DEF SaveReply, Try, FSM!DriverEnRoute
    <3>3. FSM!TypeOK' /\ Moves(t, "en_route", trips[t].driverId)
          /\ activeDriverTrips' = activeDriverTrips
      BY <3>2, SimFacts, MilestoneMoves
    <3> QED
      BY <1>2, <2>1, <3>3 DEF Moves
  <2>2. CASE trips[t].status # "matched"
    <3>1. ~FSM!Accepts(t, "en_route", "driver", None)
      BY <2>2 DEF FSM!Accepts, FSM!AllowedTransitions
    <3>2. UNCHANGED fsmVars
      BY <3>1 DEF SaveReply, Try
    <3> QED
      BY <1>2, <2>2, <3>2, SameTrips DEF fsmVars
  <2> QED
    BY <1>2, <2>1, <2>2
<1> HIDE DEF d
<1>5. SimTyped' /\ (Undisturbed' <=> Undisturbed)
  BY <1>2, <1>3, <1>4, SimFacts DEF SimTyped, Undisturbed
<1>6. Fresh'
  <2>1. wire' = Tail(wire) /\ (Occurs(Tail(wire), ResetCall) => Occurs(wire, ResetCall))
    BY <1>3, SimFacts, TailFacts
  <2> QED
    BY <1>3, <2>1, SameFreshness
<1>7. ASSUME NEW e \in Drivers PROVE Custody(e)' /\ Riding(e)'
  <2>1. Custody(e)'
    BY <1>2, <1>4, SimFacts DEF Custody, FSM!Assigned
  <2>2. Riding(e)'
    <3>1. CASE e = d
      BY <1>2, <1>3, <1>4, <3>1, SimFacts DEF Riding, SimTyped
    <3>2. CASE e # d
      <4>1. activeTripId'[e] = activeTripId[e] /\ phase'[e] = phase[e] /\ Riding(e)
            /\ activeTripId[e] # t
        BY <1>2, <1>3, <3>2, SimFacts DEF SimTyped
      <4> QED
        BY <1>3, <1>4, <4>1 DEF Riding
    <3> QED
      BY <3>1, <3>2
  <2> QED
    BY <2>1, <2>2
<1>8. ASSUME NEW u \in FSM!TripIds PROVE Saved(u)' /\ Launched(u)'
  <2>1. CASE u = t
    BY <1>3, <2>1, SimFacts DEF Saved, Launched
  <2>2. CASE u # t
    <3>1. loop'[u] = loop[u] /\ Saved(u) /\ Launched(u)
      BY <1>3, <2>2, SimFacts
    <3>2. \A e \in Drivers : activeTripId'[e] \in {activeTripId[e], t}
      BY <1>3, SimFacts DEF SimTyped
    <3> QED
      BY <1>3, <1>4, <2>2, <3>1, <3>2 DEF Saved, Launched
  <2> QED
    BY <2>1, <2>2
<1>9. ASSUME Undisturbed', NEW e \in Drivers PROVE Driven(e)'
  <2>0. Driven(e) /\ Custody(e) /\ activeDriverTrips'[e] = activeDriverTrips[e]
    BY <1>4, <1>5, <1>9, SimFacts DEF DrivenInv
  <2>1. CASE e = d
    <3>1. activeTripId'[e] = t /\ phase'[e] = "en_route"
      BY <1>2, <1>3, <2>1, SimFacts DEF SimTyped
    <3>2. activeDriverTrips'[e] # None => activeDriverTrips'[e] = t
      BY <1>2, <2>0, <2>1
    <3> QED
      BY <3>1, <3>2 DEF Driven, Drives
  <2>2. CASE e # d
    <3>1. activeTripId'[e] = activeTripId[e] /\ phase'[e] = phase[e] /\ boarding' = boarding
      BY <1>3, <2>2, SimFacts DEF SimTyped
    <3>2. activeDriverTrips[e] # None =>
            /\ activeDriverTrips[e] # t /\ activeDriverTrips[e] \in FSM!TripIds
            /\ trips'[activeDriverTrips[e]] = trips[activeDriverTrips[e]]
      BY <1>2, <1>4, <2>0, <2>2, SimFacts, TripIs DEF Custody
    <3>3. activeDriverTrips[e] # None => loop'[activeDriverTrips[e]] = loop[activeDriverTrips[e]]
      BY <1>3, <3>2, SimFacts
    <3> QED
      BY <2>0, <3>1, <3>2, <3>3 DEF Driven, Drives
  <2> QED
    BY <2>1, <2>2
<1> QED
  BY <1>1, <1>5, <1>6, <1>7, <1>8, <1>9 DEF SimInv, RideInv, DrivenInv

\* A trip that waits at the pickup starts, or nothing happens to the trips.
LEMMA StartMoves ==
  ASSUME FSM!TypeOK, NEW t, StartTheTrip(t)
  PROVE  /\ FSM!TypeOK' /\ activeDriverTrips' = activeDriverTrips
         /\ DOMAIN trips' = DOMAIN trips
         /\ \A u \in DOMAIN trips :
               \/ trips'[u] = trips[u] /\ (u = t /\ t # None => trips[u].status # "arrived")
               \/ /\ u = t /\ trips[u].status = "arrived" /\ trips'[u].status = "in_progress"
                  /\ trips'[u].driverId = trips[u].driverId
<1>1. CASE t # None /\ FSM!Accepts(t, "in_progress", "driver", None)
  <2>1. FSM!Milestone(t, "in_progress")
    BY <1>1 DEF StartTheTrip, Try, FSM!StartTrip
  <2>2. /\ FSM!TypeOK' /\ Moves(t, "in_progress", trips[t].driverId)
        /\ trips[t].status = "arrived" /\ activeDriverTrips' = activeDriverTrips
    BY <2>1, MilestoneMoves
  <2> QED
    BY <2>2 DEF Moves
<1>2. CASE ~(t # None /\ FSM!Accepts(t, "in_progress", "driver", None))
  <2>1. UNCHANGED fsmVars
    BY <1>2 DEF StartTheTrip, Try
  <2>2. t # None /\ t \in DOMAIN trips => trips[t].status # "arrived"
    BY <1>2 DEF FSM!Accepts, FSM!AllowedTransitions, FSM!RoleMay
  <2> QED
    BY <2>1, <2>2 DEF fsmVars, FSM!TypeOK
<1> QED
  BY <1>1, <1>2

\* Custody, rides and matches survive it, and a driver who had started stays so.
LEMMA StartKeeps ==
  ASSUME SimInv, NEW t, StartTheTrip(t), UNCHANGED <<loop, phase, activeTripId, reported>>
  PROVE  RideInv'
<1>1. /\ FSM!TypeOK' /\ activeDriverTrips' = activeDriverTrips
      /\ DOMAIN trips' = DOMAIN trips
      /\ \A u \in DOMAIN trips :
            \/ trips'[u] = trips[u]
            \/ /\ trips[u].status = "arrived" /\ trips'[u].status = "in_progress"
               /\ trips'[u].driverId = trips[u].driverId
  BY SimFacts, StartMoves
<1>2. ASSUME NEW e \in Drivers PROVE Custody(e)' /\ Riding(e)'
  BY <1>1, SimFacts DEF Custody, Riding, FSM!Assigned
<1>3. ASSUME NEW u \in FSM!TripIds PROVE Saved(u)' /\ Launched(u)'
  BY <1>1, SimFacts DEF Saved, Launched
<1> QED
  BY <1>2, <1>3 DEF RideInv

LEMMA BoardingOverInv ==
  ASSUME SimInv, NEW d \in Drivers, BoardingOver(d)
  PROVE  SimInv'
<1>1. /\ boarding' = [boarding EXCEPT ![d] = @ - 1] /\ boarding[d] > 0
      /\ StartTheTrip(activeTripId[d])
      /\ UNCHANGED poolVars
      /\ UNCHANGED <<phase, activeTripId, leftBoarding, resets, reported, scenario>>
  BY DEF BoardingOver
<1>2. /\ FSM!TypeOK' /\ activeDriverTrips' = activeDriverTrips
      /\ DOMAIN trips' = DOMAIN trips
      /\ \A u \in DOMAIN trips :
            \/ trips'[u] = trips[u]
               /\ (u = activeTripId[d] /\ activeTripId[d] # None => trips[u].status # "arrived")
            \/ /\ u = activeTripId[d]
               /\ trips[u].status = "arrived" /\ trips'[u].status = "in_progress"
               /\ trips'[u].driverId = trips[u].driverId
  BY <1>1, SimFacts, StartMoves
<1>3. RideInv' /\ PoolInv'
  BY <1>1, SimFacts, StartKeeps, SamePool DEF poolVars
<1>4. SimTyped' /\ (Undisturbed' <=> Undisturbed) /\ Fresh'
  BY <1>1, <1>2, SimFacts DEF SimTyped, Undisturbed, Fresh, poolVars
<1>5. ASSUME Undisturbed', NEW e \in Drivers PROVE Driven(e)'
  <2>0. Driven(e) /\ Custody(e) /\ activeDriverTrips'[e] = activeDriverTrips[e] /\ loop' = loop
    BY <1>1, <1>2, <1>4, <1>5, SimFacts DEF DrivenInv, poolVars
  <2>1. CASE e = d
    BY <1>1, <1>2, <2>0, <2>1, SimFacts DEF Driven, Drives, Custody, SimTyped
  <2>2. CASE e # d
    <3>1. boarding'[e] = boarding[e] /\ Riding(d) /\ activeTripId' = activeTripId /\ phase' = phase
      BY <1>1, <2>2, SimFacts DEF SimTyped
    <3>2. activeDriverTrips[e] # None => trips'[activeDriverTrips[e]] = trips[activeDriverTrips[e]]
      BY <1>2, <2>0, <2>2, <3>1, SimFacts, SimulatorAssumption DEF Custody, Riding, FSM!TypeOK
    <3> QED
      BY <2>0, <3>1, <3>2 DEF Driven, Drives
  <2> QED
    BY <2>1, <2>2
<1> QED
  BY <1>3, <1>4, <1>5 DEF SimInv, DrivenInv

LEMMA LeftBoardingOverInv ==
  ASSUME SimInv, NEW t, LeftBoardingOver(t)
  PROVE  SimInv'
<1>1. /\ t \in leftBoarding /\ leftBoarding' = leftBoarding \ {t} /\ StartTheTrip(t)
      /\ UNCHANGED poolVars
      /\ UNCHANGED <<phase, activeTripId, boarding, resets, reported, scenario>>
  BY DEF LeftBoardingOver
<1>2. FSM!TypeOK'
  BY <1>1, SimFacts, StartMoves
<1>3. RideInv' /\ PoolInv'
  BY <1>1, SimFacts, StartKeeps, SamePool DEF poolVars
<1>4. resets # 0
  BY <1>1, SimFacts DEF Fresh
<1>5. SimTyped' /\ Fresh' /\ DrivenInv'
  BY <1>1, <1>2, <1>4, SimFacts DEF SimTyped, Undisturbed, Fresh, DrivenInv
<1> QED
  BY <1>3, <1>5 DEF SimInv

\* The trip of the driver who reaches the pickup arrives, or no trip moves.
LEMMA ArriveMoves ==
  ASSUME FSM!TypeOK, NEW t \in DOMAIN trips,
         Try(FSM!Accepts(t, "arrived", "driver", None), FSM!DriverArrived(t))
  PROVE  /\ FSM!TypeOK' /\ activeDriverTrips' = activeDriverTrips
         /\ DOMAIN trips' = DOMAIN trips
         /\ \A u \in DOMAIN trips : u # t => trips'[u] = trips[u]
         /\ \/ trips'[t] = trips[t] /\ trips[t].status \notin {"matched", "en_route"}
            \/ /\ trips[t].status \in {"matched", "en_route"} /\ trips'[t].status = "arrived"
               /\ trips'[t].driverId = trips[t].driverId
<1>1. CASE FSM!Accepts(t, "arrived", "driver", None)
  <2>1. FSM!Milestone(t, "arrived")
    BY <1>1 DEF Try, FSM!DriverArrived
  <2>2. /\ FSM!TypeOK' /\ Moves(t, "arrived", trips[t].driverId)
        /\ trips[t].status \in {"matched", "en_route"} /\ activeDriverTrips' = activeDriverTrips
    BY <2>1, MilestoneMoves
  <2> QED
    BY <2>2 DEF Moves
<1>2. CASE ~FSM!Accepts(t, "arrived", "driver", None)
  <2>1. UNCHANGED fsmVars
    BY <1>2 DEF Try
  <2>2. trips[t].status \notin {"matched", "en_route"}
    BY <1>2 DEF FSM!Accepts, FSM!AllowedTransitions, FSM!RoleMay
  <2> QED
    BY <2>1, <2>2 DEF fsmVars, FSM!TypeOK
<1> QED
  BY <1>1, <1>2

LEMMA ReachPickupInv ==
  ASSUME SimInv, NEW d \in Drivers, ReachPickup(d)
  PROVE  SimInv'
<1> DEFINE t == activeTripId[d]
<1>1. /\ t # None /\ phase[d] = "en_route"
      /\ phase' = [phase EXCEPT ![d] = "in_progress"]
      /\ boarding' = [boarding EXCEPT ![d] = @ + 1]
      /\ Try(FSM!Accepts(t, "arrived", "driver", None), FSM!DriverArrived(t))
      /\ UNCHANGED poolVars
      /\ UNCHANGED <<activeTripId, leftBoarding, resets, reported, scenario>>
  BY DEF ReachPickup
<1>2. t \in DOMAIN trips /\ trips[t].driverId = d
  BY <1>1, SimFacts DEF Riding
<1>3. /\ FSM!TypeOK' /\ activeDriverTrips' = activeDriverTrips
      /\ DOMAIN trips' = DOMAIN trips
      /\ \A u \in DOMAIN trips : u # t => trips'[u] = trips[u]
      /\ trips'[t].driverId = trips[t].driverId
      /\ \/ trips'[t] = trips[t] /\ trips[t].status \notin {"matched", "en_route"}
         \/ trips[t].status \in {"matched", "en_route"} /\ trips'[t].status = "arrived"
  <2> HIDE DEF t
  <2> QED
    BY <1>1, <1>2, SimFacts, ArriveMoves
<1>4. activeTripId[d] = t
  OBVIOUS
<1> HIDE DEF t
<1>5. PoolInv' /\ loop' = loop /\ wire' = wire
  BY <1>1, SimFacts, SamePool DEF poolVars
<1>6. SimTyped' /\ (Undisturbed' <=> Undisturbed) /\ Fresh'
  BY <1>1, <1>3, <1>5, SimFacts DEF SimTyped, Undisturbed, Fresh
<1>7. ASSUME NEW e \in Drivers
      PROVE  /\ e = d => phase'[e] = "in_progress" /\ boarding'[e] # 0
             /\ e # d => phase'[e] = phase[e] /\ boarding'[e] = boarding[e]
  BY <1>1, SimFacts DEF SimTyped
<1>8. ASSUME NEW e \in Drivers PROVE Custody(e)' /\ Riding(e)'
  <2>1. Custody(e)'
    BY <1>2, <1>3, SimFacts DEF Custody, FSM!Assigned
  <2>2. Riding(e)'
    <3>1. CASE e = d
      BY <1>1, <1>2, <1>3, <1>4, <1>7, <3>1, SimFacts DEF Riding
    <3>2. CASE e # d
      <4>1. Riding(e) /\ activeTripId'[e] = activeTripId[e] /\ phase'[e] = phase[e]
        BY <1>1, <1>7, <3>2, SimFacts
      <4> QED
        BY <1>1, <1>2, <1>3, <3>2, <4>1 DEF Riding
    <3> QED
      BY <3>1, <3>2
  <2> QED
    BY <2>1, <2>2
<1>9. ASSUME NEW u \in FSM!TripIds PROVE Saved(u)' /\ Launched(u)'
  <2>1. Saved(u) /\ Launched(u) /\ activeTripId' = activeTripId
    BY <1>1, SimFacts
  <2>2. u # t => Saved(u)'
    BY <1>1, <1>3, <1>5, <2>1 DEF Saved
  <2>3. loop[t].at # "saving" \/ t \notin FSM!TripIds
    BY <1>4, SimFacts DEF Saved
  <2> QED
    BY <1>3, <1>5, <2>1, <2>2, <2>3 DEF Saved, Launched
<1>10. ASSUME Undisturbed', NEW e \in Drivers PROVE Driven(e)'
  <2>0. Driven(e) /\ Custody(e) /\ activeDriverTrips'[e] = activeDriverTrips[e]
    BY <1>3, <1>6, <1>10, SimFacts DEF DrivenInv
  <2>1. CASE e = d
    <3>1. CASE activeDriverTrips[d] = t
      <4>1. loop[t].at # "saving"
        BY <1>2, <1>4, SimFacts, TripIs DEF Saved
      <4>2. trips[t].status \in FSM!Assigned
        BY <1>1, <2>0, <2>1, <3>1 DEF Custody
      <4>3. trips'[t].status \in {"arrived", "in_progress"}
        BY <1>3, <4>2 DEF FSM!Assigned
      <4> QED
        BY <1>1, <1>4, <1>7, <2>0, <2>1, <3>1, <4>3 DEF Driven, Drives
    <3>2. CASE activeDriverTrips[d] # t /\ activeDriverTrips[d] # None
      <4>1. loop[activeDriverTrips[d]].at = "saving"
        BY <1>4, <2>0, <2>1, <3>2 DEF Driven, Drives
      <4> QED
        BY <1>5, <2>0, <2>1, <4>1 DEF Driven
    <3>3. CASE activeDriverTrips[d] = None
      BY <2>0, <2>1, <3>3 DEF Driven
    <3> QED
      BY <3>1, <3>2, <3>3
  <2>2. CASE e # d
    <3>1. activeDriverTrips[e] # None => trips'[activeDriverTrips[e]] = trips[activeDriverTrips[e]]
      BY <1>2, <1>3, <2>0, <2>2 DEF Custody
    <3>2. phase'[e] = phase[e] /\ boarding'[e] = boarding[e] /\ activeTripId'[e] = activeTripId[e]
      BY <1>1, <1>7, <2>2
    <3> QED
      BY <1>5, <2>0, <3>1, <3>2 DEF Driven, Drives
  <2> QED
    BY <2>1, <2>2
<1> QED
  BY <1>5, <1>6, <1>8, <1>9, <1>10 DEF SimInv, RideInv, DrivenInv

\* The trip of the driver who reaches the dropoff is completed and leaves its
\* driver, or no trip moves.
LEMMA CompleteMoves ==
  ASSUME FSM!TypeOK, NEW t \in DOMAIN trips,
         Try(FSM!Accepts(t, "completed", "driver", None), FSM!CompleteTrip(t))
  PROVE  /\ FSM!TypeOK'
         /\ DOMAIN trips' = DOMAIN trips
         /\ \A u \in DOMAIN trips : u # t => trips'[u] = trips[u]
         /\ \A e \in Drivers : activeDriverTrips'[e] \in {activeDriverTrips[e], None}
         /\ \/ trips'[t] = trips[t] /\ trips[t].status # "in_progress"
            \/ /\ trips[t].status = "in_progress" /\ trips'[t].status = "completed"
               /\ trips'[t].driverId = trips[t].driverId
               /\ \A e \in Drivers : trips[t].driverId = e => activeDriverTrips'[e] = None
<1>1. CASE FSM!Accepts(t, "completed", "driver", None)
  <2>1. FSM!CompleteTrip(t)
    BY <1>1 DEF Try
  <2>2. /\ FSM!TypeOK' /\ Released(t) /\ Moves(t, "completed", trips[t].driverId)
        /\ trips[t].status = "in_progress"
    BY <2>1, EndMoves
  <2> QED
    BY <2>2 DEF Moves, Released
<1>2. CASE ~FSM!Accepts(t, "completed", "driver", None)
  <2>1. UNCHANGED fsmVars
    BY <1>2 DEF Try
  <2>2. trips[t].status # "in_progress"
    BY <1>2 DEF FSM!Accepts, FSM!AllowedTransitions, FSM!RoleMay
  <2> QED
    BY <2>1, <2>2 DEF fsmVars, FSM!TypeOK
<1> QED
  BY <1>1, <1>2

LEMMA ReachDropoffInv ==
  ASSUME SimInv, NEW d \in Drivers, ReachDropoff(d)
  PROVE  SimInv'
<1> DEFINE t == activeTripId[d]
<1>1. /\ t # None /\ phase[d] = "in_progress" /\ (boarding[d] = 0 \/ scenario.shortRides)
      /\ phase' = [phase EXCEPT ![d] = "wandering"]
      /\ activeTripId' = [activeTripId EXCEPT ![d] = None]
      /\ Try(FSM!Accepts(t, "completed", "driver", None), FSM!CompleteTrip(t))
      /\ wire' = Append(wire, FreeCall(t, d))
      /\ loop' = loop /\ UNCHANGED <<boarding, leftBoarding, resets, reported, scenario>>
  BY DEF ReachDropoff
<1>2. t \in DOMAIN trips /\ trips[t].driverId = d /\ t \in FSM!TripIds
  BY <1>1, SimFacts, TripIs DEF Riding
<1>3. PoolInv'
  BY <1>2, SimFacts, ReachDropoffPool
<1>4. activeTripId[d] = t
  OBVIOUS
<1> HIDE DEF t
<1>5. /\ FSM!TypeOK'
      /\ DOMAIN trips' = DOMAIN trips
      /\ \A u \in DOMAIN trips : u # t => trips'[u] = trips[u]
      /\ \A e \in Drivers : activeDriverTrips'[e] \in {activeDriverTrips[e], None}
      /\ \/ trips'[t] = trips[t] /\ trips[t].status # "in_progress"
         \/ /\ trips[t].status = "in_progress" /\ trips'[t].status = "completed"
            /\ trips'[t].driverId = d /\ activeDriverTrips'[d] = None
  BY <1>1, <1>2, SimFacts, CompleteMoves
<1>6. SimTyped' /\ (Undisturbed' <=> Undisturbed)
  BY <1>1, <1>5, SimFacts DEF SimTyped, Undisturbed
<1>7. Fresh'
  <2>1. FreeCall(t, d) # ResetCall /\ FreeCall(t, d) \in Calls
    BY <1>2, CallsDiffer, CallsAre
  <2> QED
    BY <1>1, <2>1, FreshAppend
<1>8. ASSUME NEW e \in Drivers
      PROVE  /\ e = d => activeTripId'[e] = None
             /\ e # d => phase'[e] = phase[e] /\ activeTripId'[e] = activeTripId[e]
             /\ boarding'[e] = boarding[e]
  BY <1>1, SimFacts DEF SimTyped
<1>9. ASSUME NEW e \in Drivers PROVE Custody(e)' /\ Riding(e)'
  <2>1. Custody(e)'
    BY <1>2, <1>5, SimFacts DEF Custody
  <2>2. Riding(e)'
    <3>1. CASE e = d
      BY <1>8, <3>1 DEF Riding
    <3>2. CASE e # d
      BY <1>1, <1>2, <1>5, <1>8, <3>2, SimFacts DEF Riding
    <3> QED
      BY <3>1, <3>2
  <2> QED
    BY <2>1, <2>2
<1>10. loop[t].at # "saving"
  BY <1>2, <1>4, SimFacts DEF Saved
<1>11. ASSUME NEW u \in FSM!TripIds PROVE Saved(u)' /\ Launched(u)'
  <2>1. Saved(u) /\ Launched(u)
    BY SimFacts
  <2>2. u # t => Saved(u)'
    <3>1. \A e \in Drivers : activeTripId'[e] \in {activeTripId[e], None}
      BY <1>8
    <3>2. u # None
      BY SimulatorAssumption DEF FSM!TripIds
    <3> QED
      BY <1>1, <1>5, <2>1, <3>1, <3>2 DEF Saved
  <2>3. u = t => Saved(u)'
    BY <1>1, <1>10 DEF Saved
  <2> QED
    BY <1>1, <1>5, <2>1, <2>2, <2>3 DEF Launched
<1>12. ASSUME Undisturbed', NEW e \in Drivers PROVE Driven(e)'
  <2>0. /\ Driven(e) /\ Custody(e)
        /\ activeDriverTrips'[e] # None => activeDriverTrips'[e] = activeDriverTrips[e]
    BY <1>5, <1>6, <1>12, SimFacts DEF DrivenInv
  <2>1. CASE activeDriverTrips'[e] = t
    <3>1. e = d /\ activeDriverTrips[d] = t
      BY <1>1, <1>2, <2>0, <2>1 DEF Custody
    <3>2. boarding[d] = 0
      BY <1>1, <1>6, <1>12 DEF Undisturbed
    <3>3. trips[t].status = "in_progress"
      BY <1>1, <1>10, <2>0, <3>1, <3>2 DEF Driven, Drives
    <3> QED
      BY <1>1, <1>5, <2>1, <3>1, <3>3
  <2>2. CASE activeDriverTrips'[e] # t /\ activeDriverTrips'[e] # None
    <3>1. /\ activeDriverTrips'[e] = activeDriverTrips[e]
          /\ trips'[activeDriverTrips[e]] = trips[activeDriverTrips[e]]
      BY <1>5, <2>0, <2>2 DEF Custody
    <3>2. loop[activeDriverTrips[e]].at = "saving" \/ Drives(e, activeDriverTrips[e])
      BY <2>0, <2>2, <3>1 DEF Driven
    <3>3. Drives(e, activeDriverTrips[e]) => e # d
      BY <1>4, <2>2, <3>1 DEF Drives
    <3>4. Drives(e, activeDriverTrips[e]) => Drives(e, activeDriverTrips[e])'
      BY <1>8, <3>1, <3>3 DEF Drives
    <3> QED
      BY <1>1, <3>1, <3>2, <3>4 DEF Driven
  <2>3. CASE activeDriverTrips'[e] = None
    BY <2>3 DEF Driven
  <2> QED
    BY <2>1, <2>2, <2>3
<1> QED
  BY <1>3, <1>6, <1>7, <1>9, <1>11, <1>12 DEF SimInv, RideInv, DrivenInv

-----------------------------------------------------------------------------
(* Driver panels *)

\* A trip is told that its driver arrived, or to start.
LEMMA ToldMoves ==
  ASSUME FSM!TypeOK, NEW t, ReportMilestone(t)
  PROVE  /\ FSM!TypeOK' /\ activeDriverTrips' = activeDriverTrips
         /\ \A u \in DOMAIN trips : CalmTrip(u)
<1> SUFFICES ASSUME NEW s \in {"arrived", "in_progress"}, FSM!Milestone(t, s)
             PROVE  /\ FSM!TypeOK' /\ activeDriverTrips' = activeDriverTrips
                    /\ \A u \in DOMAIN trips : CalmTrip(u)
  BY DEF ReportMilestone, FSM!DriverArrived, FSM!StartTrip
<1>1. /\ FSM!TypeOK' /\ activeDriverTrips' = activeDriverTrips
      /\ Moves(t, s, trips[t].driverId)
      /\ s = "in_progress" => trips[t].status = "arrived"
      /\ s = "arrived" => trips[t].status \in {"matched", "en_route"}
  BY MilestoneMoves
<1>2. t \in reported'
  BY DEF ReportMilestone
<1>3. Told(t)
  BY <1>1, <1>2 DEF Told, Moves
<1> QED
  BY <1>1, <1>3 DEF CalmTrip, Moves

LEMMA ReportMilestoneInv ==
  ASSUME SimInv, NEW t, ReportMilestone(t)
  PROVE  SimInv'
<1>1. /\ UNCHANGED poolVars /\ reported \subseteq reported'
      /\ UNCHANGED <<phase, activeTripId, boarding, leftBoarding, resets, scenario>>
  BY DEF ReportMilestone
<1>2. /\ FSM!TypeOK' /\ activeDriverTrips' = activeDriverTrips
      /\ \A u \in DOMAIN trips : CalmTrip(u)
  BY SimFacts, ToldMoves
<1>3. PoolInv' /\ loop' = loop /\ wire' = wire
  BY <1>1, SimFacts, SamePool DEF poolVars
<1>4. SimTyped' /\ (Undisturbed' <=> Undisturbed)
  BY <1>1, <1>2, SimFacts DEF SimTyped, Undisturbed
<1>5. Fresh'
  BY <1>1, <1>3, SameFreshness
<1>6. \A u \in FSM!TripIds : CalmLoop(u)
  BY <1>3 DEF CalmLoop
<1>7. RideInv' /\ DrivenInv'
  BY <1>1, <1>2, <1>4, <1>6, CalmStep
<1> QED
  BY <1>3, <1>4, <1>5, <1>7 DEF SimInv

LEMMA ReportCompletionInv ==
  ASSUME SimInv, NEW t, ReportCompletion(t)
  PROVE  SimInv'
<1>1. /\ t \in DOMAIN trips /\ wire' = wire \o FreeCalls(t)
      /\ Try(FSM!Accepts(t, "completed", "driver", None), FSM!CompleteTrip(t))
      /\ UNCHANGED <<status, loop, simVars>>
  BY DEF ReportCompletion, FSM!Succeeds, FSM!Accepts
<1>2. /\ FSM!TypeOK'
      /\ \A u \in DOMAIN trips : CalmTrip(u)
      /\ \A d \in Drivers : activeDriverTrips'[d] \in {activeDriverTrips[d], None}
  <2>1. CASE FSM!CompleteTrip(t)
    <3> DEFINE s == "completed"
    <3>1. /\ FSM!TypeOK' /\ Released(t) /\ Moves(t, s, trips[t].driverId)
          /\ trips[t].status \notin FSM!Terminal
      BY <2>1, SimFacts, EndMoves
    <3>2. None # t
      BY <1>1, SimFacts, SimulatorAssumption DEF FSM!TypeOK
    <3>3. \A d \in Drivers : activeDriverTrips'[d] # t
      BY <3>1, <3>2, SimFacts DEF Released, Custody
    <3>4. \A u \in DOMAIN trips : CalmTrip(u)
      BY <3>1, <3>3 DEF CalmTrip, Moves, FSM!Terminal
    <3> QED
      BY <3>1, <3>4 DEF Released
  <2>2. CASE UNCHANGED fsmVars
    BY <2>2, SameTrips
  <2> QED
    BY <1>1, <2>1, <2>2 DEF Try
<1>3. SimTyped' /\ (Undisturbed' <=> Undisturbed)
      /\ UNCHANGED <<activeTripId, phase, boarding, resets, leftBoarding, reported>>
  BY <1>1, <1>2, SameSim
<1>4. PoolInv' /\ Fresh'
  BY <1>1, <1>3, FreeCallsPool, FreeCallsFresh
<1>5. \A u \in FSM!TripIds : CalmLoop(u)
  BY <1>1 DEF CalmLoop
<1>6. RideInv' /\ DrivenInv'
  BY <1>2, <1>3, <1>5, CalmStep
<1> QED
  BY <1>3, <1>4, <1>6 DEF SimInv

LEMMA DriverActionInv ==
  ASSUME SimInv, NEW t, DriverAction(t)
  PROVE  SimInv'
BY ReportMilestoneInv, ReportCompletionInv DEF DriverAction

-----------------------------------------------------------------------------
(* The whole system *)

LEMMA InitSim == Init => SimInv
<1> SUFFICES ASSUME Init PROVE SimInv
  OBVIOUS
<1>1. /\ trips = [t \in {} |-> None] /\ created = 0
      /\ requestToTrip = [q \in Requests |-> None]
      /\ activeRiderTrips = [r \in Riders |-> None]
      /\ activeDriverTrips = [d \in Drivers |-> None]
      /\ status = [d \in Drivers |-> "available"]
      /\ loop = [t \in FSM!TripIds |-> NoLoop] /\ wire = <<>>
      /\ phase = [d \in Drivers |-> "wandering"]
      /\ activeTripId = [d \in Drivers |-> None] /\ boarding = [d \in Drivers |-> 0]
      /\ leftBoarding = {} /\ resets = 0 /\ scenario \in Scenarios
  BY DEF Init, FSM!Init
<1>2. SimTyped
  <2>1. DOMAIN trips = {} /\ trips \in [{} -> FSM!Trip]
    BY <1>1
  <2>2. FSM!TypeOK
    BY <1>1, <2>1, SimulatorAssumption DEF FSM!TypeOK
  <2> QED
    BY <1>1, <2>2 DEF SimTyped
<1>3. NoLoop \in LoopStates /\ NoLoop.at = "idle"
  BY DEF NoLoop, LoopStates
<1>4. \A c : ~Occurs(wire, c)
  BY <1>1 DEF Occurs
<1>5. PoolInv
  <2>1. PoolTyped(wire, loop, status)
    BY <1>1, <1>3 DEF PoolTyped
  <2>2. \A t \in FSM!TripIds : LoopFacts(wire, loop, status, t)
    BY <1>1, <1>3, <1>4 DEF LoopFacts, Once, Occurs, Leading
  <2>3. \A t, u \in FSM!TripIds : LoopPair(wire, loop, t, u)
    BY <1>1, <1>3 DEF LoopPair, Leading
  <2> QED
    BY <2>1, <2>2, <2>3 DEF PoolInv, PoolOK
<1>6. RideInv
  BY <1>1, <1>3 DEF RideInv, Custody, Riding, Saved, Launched
<1>7. Fresh /\ DrivenInv
  BY <1>1, <1>4 DEF Fresh, DrivenInv, Driven
<1> QED
  BY <1>2, <1>5, <1>6, <1>7 DEF SimInv

LEMMA StutterInv == ASSUME SimInv, UNCHANGED vars PROVE SimInv'
<1>1. UNCHANGED <<fsmVars, poolVars, simVars>>
  BY DEF vars
<1>2. PoolInv' /\ loop' = loop /\ wire' = wire
  BY <1>1, SimFacts, SamePool DEF poolVars
<1>3. Fresh' /\ \A t \in FSM!TripIds : CalmLoop(t)
  BY <1>1, <1>2, SimFacts DEF Fresh, simVars, CalmLoop
<1> QED
  BY <1>1, <1>2, <1>3, PoolOnly

\* The steps of drivers, of loops and of Redis.
LEMMA DriverStepInv ==
  ASSUME SimInv, NEW d \in Drivers, DriverStep(d)
  PROVE  SimInv'
BY ReachPickupInv, BoardingOverInv, ReachDropoffInv DEF DriverStep

LEMMA LoopStepInv ==
  ASSUME SimInv, NEW t \in FSM!TripIds, LoopStep(t) \/ Respond(t)
  PROVE  SimInv'
BY BeginMatchingInv, OfferInv, GiveUpInv, LoopAbortedInv, AcceptInv, DeclineInv DEF LoopStep, Respond

LEMMA RedisAnswersInv ==
  ASSUME SimInv, RedisAnswers
  PROVE  SimInv'
BY CommitReplyInv, SaveReplyInv, FailReplyInv, FreeReplyInv, ResetReplyInv DEF RedisAnswers

\* A step of the service whoever orders a ride: a step of Next, or a request that
\* only the dashboard makes.
AnyonesNext == Next \/ \E q \in Requests, r \in Riders : RequestRide(q, r)

LEMMA NextInv == ASSUME SimInv, [AnyonesNext]_vars PROVE SimInv'
<1>1. ASSUME NEW q \in Requests, NEW r \in Riders, RequestRide(q, r) PROVE SimInv'
  BY <1>1, RequestRideInv
<1>2. ASSUME NEW t \in FSM!TripIds, CancelRide(t) \/ RepeatCancel(t) \/ DriverAction(t)
      PROVE  SimInv'
  BY <1>2, CancelRideInv, RepeatCancelInv, DriverActionInv
<1>3. CASE ResetRegion
  BY <1>3, ResetRegionInv
<1>4. ASSUME NEW t \in FSM!TripIds, LoopStep(t) \/ Respond(t) \/ LeftBoardingOver(t) PROVE SimInv'
  BY <1>4, LoopStepInv, LeftBoardingOverInv
<1>5. ASSUME NEW d \in Drivers, DriverStep(d) PROVE SimInv'
  BY <1>5, DriverStepInv
<1>6. CASE RedisAnswers
  BY <1>6, RedisAnswersInv
<1>7. CASE UNCHANGED vars
  BY <1>7, StutterInv
<1>8. scenario.riders \subseteq Riders
  BY SimFacts, SimulatorAssumption DEF SimTyped
<1> QED
  BY <1>1, <1>2, <1>3, <1>4, <1>5, <1>6, <1>7, <1>8 DEF AnyonesNext, Next

WithoutPanels ==
    \/ \E q \in Requests, r \in Riders : RequestRide(q, r)
    \/ \E t \in FSM!TripIds : CancelRide(t) \/ RepeatCancel(t)
    \/ ResetRegion
    \/ \E t \in FSM!TripIds : LoopStep(t) \/ Respond(t) \/ LeftBoardingOver(t)
    \/ \E d \in Drivers : DriverStep(d)
    \/ RedisAnswers

\* What the hook of the frontend and the wire to it add changes no variable of
\* the service.
LEMMA ViewSteps ==
  ASSUME SimInv, [NextView]_allVars
  PROVE  [WithoutPanels]_vars \/ PanelClick
<1>0. DOMAIN trips \subseteq FSM!TripIds /\ scenario.riders \subseteq Riders
  BY SimFacts, TripIs, SimulatorAssumption DEF SimTyped
<1>1. CASE ServiceStep
  BY <1>1 DEF ServiceStep, WithoutPanels, LoopStep, RedisAnswers
<1>2. CASE OtherRiders
  BY <1>0, <1>2 DEF OtherRiders, WithoutPanels
<1>3. CASE Reseed
  BY <1>3 DEF Reseed, WithoutPanels
<1>4. ASSUME NEW q \in Requests, PostArrives(q) PROVE [WithoutPanels]_vars
  BY <1>4, ViewerAssumption DEF PostArrives, WithoutPanels
<1>5. ASSUME NEW t \in FSM!TripIds, CancelArrives(t) PROVE [WithoutPanels]_vars
  BY <1>5 DEF CancelArrives, WithoutPanels
<1>6. CASE HookStep
  BY <1>6 DEF HookStep, ClickRequest, ClickCancel, CancelAnswered, Receive, Connect, LoseLink
<1>7. CASE UNCHANGED allVars
  BY <1>7 DEF allVars
<1> QED
  BY <1>1, <1>2, <1>3, <1>4, <1>5, <1>6, <1>7 DEF NextView

LEMMA ViewStep ==
  ASSUME SimInv, [NextView]_allVars
  PROVE  [AnyonesNext]_vars
BY ViewSteps DEF WithoutPanels, PanelClick, AnyonesNext, Next

\* SimInv holds in the simulated service: trips, offer loops, commands on the wire
\* and virtual drivers agree as said above, whatever is cancelled, answered late,
\* left behind by a boarding timer or swept away by a reset of the region.
THEOREM SimulatorInvariant == Spec => []SimInv
<1>1. [Next]_vars => [AnyonesNext]_vars
  BY DEF AnyonesNext
<1>2. SimInv /\ [Next]_vars => SimInv'
  BY <1>1, NextInv
<1> QED
  BY <1>2, InitSim, PTL DEF Spec

\* The same holds below the dashboard, which orders and cancels rides and whose panel
\* reports milestones of simulated drivers.
THEOREM SimulatorInvariantBelowView == ViewSpec => []SimInv
<1>1. InitView => SimInv
  BY InitSim DEF InitView
<1>2. SimInv /\ [NextView]_allVars => SimInv'
  BY ViewStep, NextInv
<1> QED
  BY <1>1, <1>2, PTL DEF ViewSpec

LEMMA DrivenIsAssigned == SimInv => AssignedIsDriven
<1> SUFFICES ASSUME SimInv, NEW d \in Drivers, activeDriverTrips[d] # None, Undisturbed
             PROVE  activeTripId[d] = activeDriverTrips[d] \/ SavePending(activeDriverTrips[d])
  BY DEF AssignedIsDriven
<1>1. Driven(d) /\ activeDriverTrips[d] \in FSM!TripIds
  BY SimFacts DEF DrivenInv, FSM!TypeOK
<1>2. loop[activeDriverTrips[d]].at = "saving" => Occurs(wire, SaveCall(activeDriverTrips[d]))
  BY <1>1, SimFacts DEF LoopFacts
<1> QED
  BY <1>1, <1>2 DEF Driven, Drives, Occurs, SavePending

\* While the region is not reset and no ride is over before its passenger boards,
\* a driver the state machine books is driven to that trip or about to be told of
\* it: no ride that was cancelled, or completed from a panel, and that the virtual
\* driver still drives, no late onTripAssigned and no completion of an earlier ride
\* takes the driver away (onTripAssigned and
\* tick of the simulator against the offer loop of the matching service).
THEOREM AssignedIsDrivenHolds == Spec => []AssignedIsDriven
BY SimulatorInvariant, DrivenIsAssigned, PTL

\* No trip comes to be in progress.
NoneStarts ==
    \A t \in DOMAIN trips : trips'[t].status = "in_progress" => trips[t].status = "in_progress"

LEMMA UnmovedNoneStarts == UNCHANGED fsmVars => NoneStarts
BY DEF fsmVars, NoneStarts

LEMMA MovedNoneStarts ==
  ASSUME NEW t, NEW s, NEW d, Moves(t, s, d), s # "in_progress"
  PROVE  NoneStarts
BY DEF Moves, NoneStarts

LEMMA MilestoneNoneStarts ==
  ASSUME FSM!TypeOK, NEW t, NEW s \in {"en_route", "arrived"}, NEW P,
         Try(P, FSM!Milestone(t, s))
  PROVE  NoneStarts
<1>1. CASE P
  BY <1>1, MilestoneMoves, MovedNoneStarts DEF Try
<1>2. CASE ~P
  BY <1>2, UnmovedNoneStarts DEF Try
<1> QED
  BY <1>1, <1>2

\* Only the end of a boarding, or a panel, starts a trip.
LEMMA OnlyBoardingStarts ==
  ASSUME SimInv, [AnyonesNext]_vars
  PROVE  \/ NoneStarts
         \/ \E d \in Drivers : BoardingOver(d)
         \/ \E t \in FSM!TripIds : LeftBoardingOver(t) \/ ReportMilestone(t)
<1>0. FSM!TypeOK
  BY SimFacts
<1>1. ASSUME NEW q \in Requests, NEW r \in Riders, RequestRide(q, r) PROVE NoneStarts
  BY <1>0, <1>1, CreateMoves DEF RequestRide, NoneStarts
<1>2. ASSUME NEW t \in FSM!TripIds, CancelRide(t) \/ GiveUp(t) PROVE NoneStarts
  BY <1>0, <1>2, EndMoves, MovedNoneStarts DEF CancelRide, GiveUp
<1>3. CASE ResetRegion
  BY <1>3 DEF ResetRegion, NoneStarts
<1>4. ASSUME NEW t \in FSM!TripIds, BeginMatching(t) PROVE NoneStarts
  BY <1>0, <1>4, MatchingMoves, MovedNoneStarts DEF BeginMatching
<1>5. ASSUME NEW t \in FSM!TripIds, CommitReply(t) PROVE NoneStarts
  <2>1. CASE FSM!SetMatched(t, loop[t].driver)
    <3>1. loop[t].driver \in Drivers
      <4>1. PoolOK(wire, loop, status) /\ wire # <<>> /\ Head(wire) = CommitCall(t)
        BY <1>5, SimFacts DEF CommitReply, Answered, PoolInv
      <4>2. Occurs(wire, CommitCall(t))
        BY <4>1, Replied
      <4>3. loop[t].at = "commit"
        BY <4>2, SimFacts DEF LoopFacts
      <4> QED
        BY <4>3, SimFacts DEF LoopFacts, Leading
    <3> QED
      BY <1>0, <2>1, <3>1, MatchedMoves, MovedNoneStarts
  <2>2. CASE UNCHANGED fsmVars
    BY <2>2, UnmovedNoneStarts
  <2> QED
    BY <1>5, <2>1, <2>2 DEF CommitReply
<1>6. ASSUME NEW t \in FSM!TripIds, SaveReply(t) PROVE NoneStarts
  BY <1>0, <1>6, MilestoneNoneStarts DEF SaveReply, FSM!DriverEnRoute
<1>7. ASSUME NEW d \in Drivers, ReachPickup(d) PROVE NoneStarts
  BY <1>0, <1>7, MilestoneNoneStarts DEF ReachPickup, FSM!DriverArrived
<1>8. ASSUME NEW d \in Drivers, ReachDropoff(d) PROVE NoneStarts
  <2>1. CASE FSM!CompleteTrip(activeTripId[d])
    BY <1>0, <2>1, EndMoves, MovedNoneStarts
  <2>2. CASE UNCHANGED fsmVars
    BY <2>2, UnmovedNoneStarts
  <2> QED
    BY <1>8, <2>1, <2>2 DEF ReachDropoff, Try
<1>9. ASSUME NEW t \in FSM!TripIds,
             \/ \E d \in Drivers : Offer(t, d)
             \/ LoopAborted(t) \/ Respond(t) \/ FailReply(t)
             \/ \E d \in Drivers : FreeReply(t, d)
      PROVE  NoneStarts
  BY <1>9, UnmovedNoneStarts DEF Offer, LoopAborted, Respond, Accept, Decline, FailReply, FreeReply
<1>10. CASE ResetReply \/ UNCHANGED vars
  BY <1>10, UnmovedNoneStarts DEF ResetReply, vars
<1>11. scenario.riders \subseteq Riders
  BY SimFacts, SimulatorAssumption DEF SimTyped
<1>12. ASSUME NEW t \in FSM!TripIds, RepeatCancel(t) \/ ReportCompletion(t) PROVE NoneStarts
  <2>1. CASE FSM!CompleteTrip(t)
    BY <1>0, <2>1, EndMoves, MovedNoneStarts
  <2>2. CASE UNCHANGED fsmVars
    BY <2>2, UnmovedNoneStarts
  <2> QED
    BY <1>12, <2>1, <2>2 DEF RepeatCancel, ReportCompletion, Try
<1> QED
  BY <1>1, <1>2, <1>3, <1>4, <1>5, <1>6, <1>7, <1>8, <1>9, <1>10, <1>11, <1>12
     DEF AnyonesNext, Next, LoopStep, RedisAnswers, DriverStep, DriverAction

\* The step that StartsAtPickup is about.
StartedAtPickup ==
    \A t \in FSM!AssignedTrips :
        trips'[t].status = "in_progress" /\ trips[t].status # "in_progress" =>
        \/ t \in leftBoarding \cup reported'
        \/ /\ activeTripId[trips[t].driverId] = t
           /\ phase[trips[t].driverId] = "in_progress"

LEMMA StepStartsAtPickup == SimInv /\ [AnyonesNext]_vars => StartedAtPickup
<1> SUFFICES ASSUME SimInv, [AnyonesNext]_vars, NEW t \in DOMAIN trips,
                    trips'[t].status = "in_progress", trips[t].status # "in_progress"
             PROVE  \/ t \in leftBoarding \cup reported'
                    \/ /\ activeTripId[trips[t].driverId] = t
                       /\ phase[trips[t].driverId] = "in_progress"
  BY DEF StartedAtPickup, FSM!AssignedTrips
<1>1. ~NoneStarts /\ FSM!TypeOK
  BY SimFacts DEF NoneStarts
<1>2. ASSUME NEW d \in Drivers, BoardingOver(d)
      PROVE  \/ t \in reported'
             \/ activeTripId[trips[t].driverId] = t /\ phase[trips[t].driverId] = "in_progress"
  <2>1. t = activeTripId[d] /\ trips[t].status = "arrived" /\ reported' = reported
    BY <1>1, <1>2, StartMoves DEF BoardingOver
  <2>2. activeTripId[d] # None /\ Riding(d)
    BY <2>1, SimFacts, SimulatorAssumption DEF FSM!TypeOK
  <2> QED
    BY <2>1, <2>2 DEF Riding
<1>3. ASSUME NEW u \in FSM!TripIds, LeftBoardingOver(u) PROVE t \in leftBoarding
  BY <1>1, <1>3, StartMoves DEF LeftBoardingOver
<1>4. ASSUME NEW u \in FSM!TripIds, ReportMilestone(u) PROVE t \in reported'
  <2>1. trips'[t] # trips[t] /\ CalmTrip(t)
    BY <1>1, <1>4, ToldMoves
  <2> QED
    BY <2>1 DEF CalmTrip, Told, FSM!Terminal
<1> QED
  BY <1>1, <1>2, <1>3, <1>4, OnlyBoardingStarts

\* A trip of which no panel reported anything starts only with its driver at the
\* pickup of that trip, or by a timer that a reset of the region left running,
\* although the 2 s boarding timer starts whatever trip the virtual driver has when
\* it fires, and although panels may have arrived, started and completed the earlier
\* rides of that driver while it was elsewhere (POST /trips/:tripId/driver-action).
THEOREM StartsAtPickupHolds == Spec => StartsAtPickup
<1>1. SimInv /\ [Next]_vars => [StartedAtPickup]_vars
  BY StepStartsAtPickup DEF AnyonesNext
<1>2. Spec => [][StartedAtPickup]_vars
  BY <1>1, SimulatorInvariant, PTL DEF Spec
<1> QED
  BY <1>2 DEF StartsAtPickup, StartedAtPickup

\* Both hold below the dashboard as well, however late what it posts arrives, and
\* with the clicks of its driver panel: a booked driver is driven to its trip, and a
\* trip that no panel reported starts at its pickup.
THEOREM RidesBelowView == ViewSpec => []AssignedIsDriven /\ StartsAtPickup
<1>1. SimInv /\ [NextView]_allVars => [StartedAtPickup]_vars
  BY ViewStep, StepStartsAtPickup
<1>2. ViewSpec => [][StartedAtPickup]_vars
  BY <1>1, SimulatorInvariantBelowView, PTL DEF ViewSpec
<1>3. ViewSpec => []AssignedIsDriven
  BY SimulatorInvariantBelowView, DrivenIsAssigned, PTL
<1>4. [][StartedAtPickup]_vars => StartsAtPickup
  BY DEF StartsAtPickup, StartedAtPickup
<1> QED
  BY <1>2, <1>3, <1>4

-----------------------------------------------------------------------------
(* The indices of the trip state machine, through resets of the region *)

FSMP == INSTANCE TripStateMachineProofs WITH Capacity <- MaxTrips + 1

LEMMA TripsAssumption == FSMP!ConstantsAssumption
BY SimulatorAssumption DEF FSMP!ConstantsAssumption, FSMP!TripIds

LEMMA SameTransitions == \A s : FSM!AllowedTransitions(s) = FSMP!AllowedTransitions(s)
BY Zenon DEF FSM!AllowedTransitions, FSMP!AllowedTransitions

LEMMA SameCardinality == \A S : FSM!Cardinality(S) = FSMP!Cardinality(S)
BY Zenon DEF FSM!Cardinality, FSMP!Cardinality

LEMMA SameEvicted == FSM!Evicted = FSMP!Evicted
BY SameCardinality DEF FSM!Evicted, FSMP!Evicted, FSM!Terminal, FSMP!Terminal

LEMMA SameAccepts ==
  \A t, target, role, d : FSM!Accepts(t, target, role, d) <=> FSMP!Accepts(t, target, role, d)
BY SameTransitions
   DEF FSM!Accepts, FSMP!Accepts, FSM!Bookable, FSMP!Bookable, FSM!RoleMay, FSMP!RoleMay

LEMMA SameCreateTrip == \A q, r : FSM!CreateTrip(q, r) <=> FSMP!CreateTrip(q, r)
BY SameEvicted
   DEF FSM!CreateTrip, FSMP!CreateTrip, FSM!NewTrip, FSMP!NewTrip,
       FSM!RiderIsFree, FSMP!RiderIsFree

LEMMA SameTransition ==
  \A t : /\ FSM!StartMatching(t) <=> FSMP!StartMatching(t)
         /\ \A d : FSM!SetMatched(t, d) <=> FSMP!SetMatched(t, d)
         /\ FSM!DriverEnRoute(t) <=> FSMP!DriverEnRoute(t)
         /\ FSM!DriverArrived(t) <=> FSMP!DriverArrived(t)
         /\ FSM!StartTrip(t) <=> FSMP!StartTrip(t)
         /\ FSM!CompleteTrip(t) <=> FSMP!CompleteTrip(t)
         /\ \A role : FSM!CancelTrip(t, role) <=> FSMP!CancelTrip(t, role)
BY SameAccepts
   DEF FSM!StartMatching, FSMP!StartMatching, FSM!SetMatched, FSMP!SetMatched,
       FSM!DriverEnRoute, FSMP!DriverEnRoute, FSM!DriverArrived, FSMP!DriverArrived,
       FSM!StartTrip, FSMP!StartTrip, FSM!CompleteTrip, FSMP!CompleteTrip,
       FSM!CancelTrip, FSMP!CancelTrip, FSM!Milestone, FSMP!Milestone, FSM!Enter,
       FSMP!Enter, FSM!ClearActiveIndices, FSMP!ClearActiveIndices,
       FSM!DriverIndexWithout, FSMP!DriverIndexWithout

LEMMA SameTripSteps == FSM!Next <=> FSMP!Next
BY SameCreateTrip, SameTransition
   DEF FSM!Next, FSMP!Next, FSM!TripIds, FSMP!TripIds, FSM!ActorRole, FSMP!ActorRole

LEMMA AcceptedId ==
  ASSUME FSM!TypeOK, NEW t, NEW target, NEW role, NEW d, FSM!Accepts(t, target, role, d)
  PROVE  t \in FSM!TripIds
BY SimulatorAssumption DEF FSM!TypeOK, FSM!Accepts, FSM!TripIds

\* But for the reset of the region, a step is one of the state machine, or leaves the
\* trips alone.
LEMMA TripSteps ==
  ASSUME SimInv, [AnyonesNext]_vars
  PROVE  FSM!Next \/ UNCHANGED fsmVars \/ ResetRegion
<1>0. FSM!TypeOK
  BY SimFacts
<1>1. ASSUME NEW q \in Requests, NEW r \in Riders, RequestRide(q, r) PROVE FSM!Next
  BY <1>1 DEF RequestRide, FSM!Next
<1>2. ASSUME NEW t \in FSM!TripIds, CancelRide(t) \/ GiveUp(t) PROVE FSM!Next
  BY <1>2 DEF CancelRide, GiveUp, FSM!Next, FSM!ActorRole
<1>3. ASSUME NEW t \in FSM!TripIds, BeginMatching(t) PROVE FSM!Next
  BY <1>3 DEF BeginMatching, FSM!Next
<1>4. ASSUME NEW t \in FSM!TripIds, CommitReply(t) PROVE FSM!Next \/ UNCHANGED fsmVars
  <2>1. CASE FSM!SetMatched(t, loop[t].driver)
    <3>1. PoolOK(wire, loop, status) /\ wire # <<>> /\ Head(wire) = CommitCall(t)
      BY <1>4, SimFacts DEF CommitReply, Answered, PoolInv
    <3>2. Occurs(wire, CommitCall(t))
      BY <3>1, Replied
    <3>3. loop[t].at = "commit"
      BY <3>2, SimFacts DEF LoopFacts
    <3>4. loop[t].driver \in Drivers
      BY <3>3, SimFacts DEF LoopFacts, Leading
    <3> QED
      BY <2>1, <3>4 DEF FSM!Next
  <2>2. CASE UNCHANGED fsmVars
    BY <2>2
  <2> QED
    BY <1>4, <2>1, <2>2 DEF CommitReply
<1>5. ASSUME NEW t \in FSM!TripIds, SaveReply(t) PROVE FSM!Next \/ UNCHANGED fsmVars
  BY <1>5 DEF SaveReply, Try, FSM!Next
<1>6. ASSUME NEW d \in Drivers, ReachPickup(d) PROVE FSM!Next \/ UNCHANGED fsmVars
  <2>1. CASE FSM!DriverArrived(activeTripId[d])
    BY <1>0, <2>1, AcceptedId DEF FSM!DriverArrived, FSM!Milestone, FSM!Next
  <2> QED
    BY <1>6, <2>1 DEF ReachPickup, Try
<1>7. ASSUME NEW t, StartTheTrip(t) PROVE FSM!Next \/ UNCHANGED fsmVars
  <2>1. CASE FSM!StartTrip(t)
    BY <1>0, <2>1, AcceptedId DEF FSM!StartTrip, FSM!Milestone, FSM!Next
  <2> QED
    BY <1>7, <2>1 DEF StartTheTrip, Try
<1>8. ASSUME NEW d \in Drivers, ReachDropoff(d) PROVE FSM!Next \/ UNCHANGED fsmVars
  <2>1. CASE FSM!CompleteTrip(activeTripId[d])
    BY <1>0, <2>1, AcceptedId DEF FSM!CompleteTrip, FSM!Next
  <2> QED
    BY <1>8, <2>1 DEF ReachDropoff, Try
<1>9. ASSUME NEW t \in FSM!TripIds,
             \/ \E d \in Drivers : Offer(t, d)
             \/ LoopAborted(t) \/ Respond(t) \/ FailReply(t)
             \/ \E d \in Drivers : FreeReply(t, d)
      PROVE  UNCHANGED fsmVars
  BY <1>9 DEF Offer, LoopAborted, Respond, Accept, Decline, FailReply, FreeReply
<1>10. CASE ResetReply \/ UNCHANGED vars
  BY <1>10 DEF ResetReply, vars
<1>11. scenario.riders \subseteq Riders
  BY SimFacts, SimulatorAssumption DEF SimTyped
<1>12. ASSUME NEW d \in Drivers, BoardingOver(d) PROVE FSM!Next \/ UNCHANGED fsmVars
  BY <1>7, <1>12 DEF BoardingOver
<1>13. ASSUME NEW t \in FSM!TripIds, LeftBoardingOver(t) PROVE FSM!Next \/ UNCHANGED fsmVars
  BY <1>7, <1>13 DEF LeftBoardingOver
<1>14. ASSUME NEW t \in FSM!TripIds, RepeatCancel(t) \/ DriverAction(t)
       PROVE  FSM!Next \/ UNCHANGED fsmVars
  BY <1>14 DEF RepeatCancel, DriverAction, ReportMilestone, ReportCompletion, Try, FSM!Next
<1> QED
  BY <1>1, <1>2, <1>3, <1>4, <1>5, <1>6, <1>8, <1>9, <1>10, <1>11, <1>12, <1>13, <1>14
     DEF AnyonesNext, Next, LoopStep, RedisAnswers, DriverStep

\* The reset cancels what it can and deletes the entries of these trips, all at once.
LEMMA ResetKeepsIndices ==
  ASSUME FSMP!Inv, ResetRegion
  PROVE  FSMP!Inv'
<1> DEFINE R == ResetTrips
<1>1. /\ trips' = [t \in DOMAIN trips |->
                     IF t \in R THEN [trips[t] EXCEPT !.status = "cancelled"] ELSE trips[t]]
      /\ activeRiderTrips' = [r \in Riders |->
                     IF activeRiderTrips[r] \in R THEN None ELSE activeRiderTrips[r]]
      /\ activeDriverTrips' = [d \in Drivers |->
                     IF activeDriverTrips[d] \in R THEN None ELSE activeDriverTrips[d]]
      /\ UNCHANGED <<requestToTrip, created>>
  BY DEF ResetRegion
<1>2. R \subseteq DOMAIN trips /\ R \subseteq FSMP!TripIds
  BY TripsAssumption, SimulatorAssumption
     DEF ResetTrips, FSM!ActiveTrips, FSMP!Inv, FSMP!TypeOK, FSMP!TripIds
<1> HIDE DEF R
<1>3. \A t \in DOMAIN trips : trips[t] \in FSMP!Trip
  BY DEF FSMP!Inv, FSMP!TypeOK
<1>4. ASSUME NEW t \in DOMAIN trips
      PROVE  /\ trips'[t] \in FSMP!Trip
             /\ trips'[t].riderId = trips[t].riderId
             /\ trips'[t].requestId = trips[t].requestId
             /\ trips'[t].driverId = trips[t].driverId
             /\ trips'[t].status = IF t \in R THEN "cancelled" ELSE trips[t].status
  <2>1. PICK trip : trip = trips[t]
    OBVIOUS
  <2>2. trip \in FSMP!Trip /\ "cancelled" \in FSMP!TripStatus
    BY <1>3, <2>1 DEF FSMP!TripStatus, FSMP!Terminal
  <2>3. CASE t \in R
    <3>1. trips'[t] = [trip EXCEPT !.status = "cancelled"]
      BY <1>1, <2>1, <2>3
    <3>2. /\ trips'[t] \in FSMP!Trip /\ trips'[t].status = "cancelled"
          /\ trips'[t].riderId = trip.riderId /\ trips'[t].requestId = trip.requestId
          /\ trips'[t].driverId = trip.driverId
      BY <2>2, <3>1 DEF FSMP!Trip
    <3> QED
      BY <2>1, <2>3, <3>2
  <2>4. CASE t \notin R
    <3>1. trips'[t] = trip
      BY <1>1, <2>1, <2>4
    <3> QED
      BY <2>1, <2>2, <2>4, <3>1
  <2> QED
    BY <2>3, <2>4
<1>5. DOMAIN trips' = DOMAIN trips
  BY <1>1
<1>6. FSMP!ActiveTrips' = FSMP!ActiveTrips \ R
  BY <1>4, <1>5 DEF FSMP!ActiveTrips, FSMP!Terminal
<1>7. FSMP!AssignedTrips' = FSMP!AssignedTrips \ R
  BY <1>4, <1>5 DEF FSMP!AssignedTrips, FSMP!Assigned
<1>8. FSMP!TypeOK'
  <2>1. trips' \in [DOMAIN trips' -> FSMP!Trip]
    BY <1>1, <1>4, <1>5
  <2>2. activeRiderTrips' \in [Riders -> FSMP!TripIds \cup {None}]
    BY <1>1 DEF FSMP!Inv, FSMP!TypeOK
  <2>3. activeDriverTrips' \in [Drivers -> FSMP!TripIds \cup {None}]
    BY <1>1 DEF FSMP!Inv, FSMP!TypeOK
  <2> QED
    BY <1>1, <1>5, <2>1, <2>2, <2>3 DEF FSMP!Inv, FSMP!TypeOK
<1>9. None \notin FSMP!TripIds
  BY TripsAssumption DEF FSMP!ConstantsAssumption
<1>10. FSMP!RiderIndexExact'
  <2> SUFFICES ASSUME NEW r \in Riders, NEW t \in FSMP!TripIds
               PROVE  activeRiderTrips'[r] = t
                      <=> t \in FSMP!ActiveTrips' /\ trips'[t].riderId = r
    BY DEF FSMP!RiderIndexExact, FSMP!TripIds
  <2>1. activeRiderTrips[r] = t <=> t \in FSMP!ActiveTrips /\ trips[t].riderId = r
    BY DEF FSMP!Inv, FSMP!IndicesExact, FSMP!RiderIndexExact
  <2>2. t \in FSMP!ActiveTrips => trips'[t].riderId = trips[t].riderId
    BY <1>4 DEF FSMP!ActiveTrips
  <2> QED
    BY <1>1, <1>6, <1>9, <2>1, <2>2
<1>11. FSMP!DriverIndexExact'
  <2> SUFFICES ASSUME NEW d \in Drivers, NEW t \in FSMP!TripIds
               PROVE  activeDriverTrips'[d] = t
                      <=> t \in FSMP!AssignedTrips' /\ trips'[t].driverId = d
    BY DEF FSMP!DriverIndexExact, FSMP!TripIds
  <2>1. activeDriverTrips[d] = t <=> t \in FSMP!AssignedTrips /\ trips[t].driverId = d
    BY DEF FSMP!Inv, FSMP!IndicesExact, FSMP!DriverIndexExact
  <2>2. t \in FSMP!AssignedTrips => trips'[t].driverId = trips[t].driverId
    BY <1>4 DEF FSMP!AssignedTrips
  <2> QED
    BY <1>1, <1>7, <1>9, <2>1, <2>2
<1>12. FSMP!RequestIndexExact'
  BY <1>1, <1>4, <1>5 DEF FSMP!Inv, FSMP!IndicesExact, FSMP!RequestIndexExact, FSMP!TripIds
<1>13. FSMP!DriverIffAssigned'
  <2>1. \A t \in FSMP!ActiveTrips : trips'[t].driverId = trips[t].driverId
    BY <1>4 DEF FSMP!ActiveTrips
  <2> QED
    BY <1>6, <1>7, <2>1 DEF FSMP!Inv, FSMP!IndicesExact, FSMP!DriverIffAssigned
<1> QED
  BY <1>8, <1>10, <1>11, <1>12, <1>13 DEF FSMP!Inv, FSMP!IndicesExact

LEMMA IndicesNext == ASSUME SimInv, FSMP!Inv, [AnyonesNext]_vars PROVE FSMP!Inv'
<1>1. CASE FSM!Next \/ UNCHANGED fsmVars
  <2>1. [FSMP!Next]_FSMP!vars
    BY <1>1, SameTripSteps DEF fsmVars, FSMP!vars
  <2> QED
    BY <2>1, TripsAssumption, FSMP!NextInv
<1> QED
  BY <1>1, TripSteps, ResetKeepsIndices

LEMMA IndicesInit == ASSUME FSM!Init PROVE FSMP!Inv
<1>1. FSMP!Init
  BY DEF FSM!Init, FSMP!Init
<1> QED
  BY <1>1, TripsAssumption, FSMP!InitInv

LEMMA SameIndices ==
  /\ FSMP!IndicesExact => FSM!IndicesExact
  /\ FSMP!NoDoubleBooking => FSM!NoDoubleBooking
  /\ FSMP!OneActiveTripPerRider => FSM!OneActiveTripPerRider
BY DEF FSM!IndicesExact, FSMP!IndicesExact, FSM!RiderIndexExact, FSMP!RiderIndexExact,
       FSM!DriverIndexExact, FSMP!DriverIndexExact, FSM!RequestIndexExact,
       FSMP!RequestIndexExact, FSM!DriverIffAssigned, FSMP!DriverIffAssigned,
       FSM!NoDoubleBooking, FSMP!NoDoubleBooking, FSM!OneActiveTripPerRider,
       FSMP!OneActiveTripPerRider, FSM!ActiveTrips, FSMP!ActiveTrips, FSM!Terminal,
       FSMP!Terminal, FSM!AssignedTrips, FSMP!AssignedTrips, FSM!Assigned, FSMP!Assigned,
       FSM!TripIds, FSMP!TripIds

\* Every trip that has a driver is driven, or about to be announced to its driver.
RidesAreDriven ==
    Undisturbed =>
        \A t \in FSM!AssignedTrips :
            activeTripId[trips[t].driverId] = t \/ SavePending(t)

LEMMA ExactIsDriven == SimInv /\ FSMP!Inv => RidesAreDriven
<1> SUFFICES ASSUME SimInv, FSMP!Inv, Undisturbed, NEW t \in FSM!AssignedTrips
             PROVE  activeTripId[trips[t].driverId] = t \/ SavePending(t)
  BY DEF RidesAreDriven
<1>1. t \in FSMP!AssignedTrips /\ t \in DOMAIN trips /\ trips[t].status \notin FSMP!Terminal
  BY DEF FSM!AssignedTrips, FSM!Assigned, FSMP!AssignedTrips, FSMP!Assigned, FSMP!Terminal
<1>2. t \in FSMP!TripIds /\ trips[t].driverId \in Drivers
      /\ activeDriverTrips[trips[t].driverId] = t
  BY <1>1, TripsAssumption, FSMP!TransitionContext
<1>3. t # None
  BY <1>2, TripsAssumption DEF FSMP!ConstantsAssumption
<1> QED
  BY <1>2, <1>3, DrivenIsAssigned DEF AssignedIsDriven

\* In the simulated service the indices of the state machine agree with its trips,
\* through resets of the region too, which cancel many trips at once and leave those in
\* progress alone: no driver is booked for two trips, and no rider has two.
THEOREM SimulatorKeepsIndices ==
  Spec => [](FSM!IndicesExact /\ FSM!NoDoubleBooking /\ FSM!OneActiveTripPerRider)
<1>1. Init => FSMP!Inv
  BY IndicesInit DEF Init
<1>2. SimInv /\ FSMP!Inv /\ [Next]_vars => FSMP!Inv'
  BY IndicesNext DEF AnyonesNext
<1>3. FSMP!Inv => FSM!IndicesExact /\ FSM!NoDoubleBooking /\ FSM!OneActiveTripPerRider
  BY TripsAssumption, FSMP!OneTripEach, SameIndices DEF FSMP!Inv
<1> QED
  BY <1>1, <1>2, <1>3, SimulatorInvariant, PTL DEF Spec

\* While the region is not reset and no ride is over before its passenger boards, no
\* rider waits for a driver who is on the way to somebody else, or to nobody: every trip
\* that has a driver is the one that its virtual driver drives or is about to be told of.
THEOREM RidesAreDrivenHolds == Spec => []RidesAreDriven
<1>1. Init => FSMP!Inv
  BY IndicesInit DEF Init
<1>2. SimInv /\ FSMP!Inv /\ [Next]_vars => FSMP!Inv'
  BY IndicesNext DEF AnyonesNext
<1> QED
  BY <1>1, <1>2, ExactIsDriven, SimulatorInvariant, PTL DEF Spec

\* Both hold below the dashboard.
THEOREM IndicesBelowView == ViewSpec => [](FSM!IndicesExact /\ RidesAreDriven)
<1>1. InitView => FSMP!Inv
  BY IndicesInit DEF InitView, Init
<1>2. SimInv /\ FSMP!Inv /\ [NextView]_allVars => FSMP!Inv'
  BY ViewStep, IndicesNext
<1>3. SimInv /\ FSMP!Inv => FSM!IndicesExact /\ RidesAreDriven
  BY ExactIsDriven, SameIndices DEF FSMP!Inv
<1> QED
  BY <1>1, <1>2, <1>3, SimulatorInvariantBelowView, PTL DEF ViewSpec

-----------------------------------------------------------------------------
(* What a step of the service does to trips, seen from the dashboard *)

\* Past the match for good.
Late == {"en_route", "arrived", "in_progress", "completed", "cancelled"}

\* No trip is created, lost, or taken back, and only those of c are cancelled.
TripsOn(c) ==
    /\ DOMAIN trips' = DOMAIN trips
    /\ requestToTrip' = requestToTrip
    /\ \A u \in DOMAIN trips :
          /\ trips'[u].requestId = trips[u].requestId
          /\ trips'[u].riderId = trips[u].riderId
          /\ trips[u].status \in Late => trips'[u].status \in Late
          /\ trips[u].status = "cancelled" => trips'[u].status = "cancelled"
          /\ trips'[u].status = "cancelled" => trips[u].status = "cancelled" \/ u \in c

\* A match that begins to be saved has just been made.
LoopsOn ==
    \A t \in FSM!TripIds :
        loop'[t].at = "saving" => loop[t].at = "saving" \/ trips'[t].status = "matched"

\* A failure that begins to be saved is that of a cancelled trip.
FailsOn ==
    \A t \in FSM!TripIds :
        Occurs(wire', FailCall(t)) =>
            \/ Occurs(wire, FailCall(t))
            \/ t \in DOMAIN trips' /\ trips'[t].status = "cancelled"

ServiceOn(c) == TripsOn(c) /\ LoopsOn /\ FailsOn

LEMMA FailsApart ==
  /\ \A t, u : FailCall(t) = FailCall(u) => t = u
  /\ \A t, u, d : /\ FailCall(t) # SaveCall(u) /\ FailCall(t) # CommitCall(u)
                  /\ FailCall(t) # FreeCall(u, d) /\ FailCall(t) # ResetCall
<1>1. ASSUME NEW t, NEW u, NEW d
      PROVE  /\ SaveCall(t).call = "save" /\ CommitCall(t).call = "commit"
             /\ FailCall(t).call = "fail" /\ FreeCall(t, d).call = "free"
             /\ ResetCall.call = "reset" /\ FailCall(t).trip = t
  BY DEF SaveCall, FailCall, CommitCall, FreeCall, ResetCall
<1> QED
  BY <1>1

LEMMA CallsIn ==
  ASSUME NEW t \in FSM!TripIds
  PROVE  SaveCall(t) \in Calls /\ FailCall(t) \in Calls /\ CommitCall(t) \in Calls
BY DEF SaveCall, FailCall, CommitCall, Calls

LEMMA SameTripsOn == ASSUME UNCHANGED fsmVars, NEW c PROVE TripsOn(c)
BY DEF TripsOn, fsmVars

\* A transition the service makes: back to "matching" only from "requested".
LEMMA EnterOn ==
  ASSUME FSM!TypeOK, NEW t \in DOMAIN trips, NEW s, NEW d,
         s \in FSM!AllowedTransitions(trips[t].status),
         s = "matching" => trips[t].status = "requested",
         FSM!Enter(t, s, d)
  PROVE  /\ TripsOn({t})
         /\ s # "cancelled" => TripsOn({})
         /\ trips'[t].status = s
<1>1. /\ trips' = [trips EXCEPT ![t].status = s, ![t].driverId = d]
      /\ requestToTrip' = requestToTrip /\ trips[t] \in FSM!Trip
  BY TripIs DEF FSM!Enter
<1>2. DOMAIN trips' = DOMAIN trips /\ \A u \in DOMAIN trips : u # t => trips'[u] = trips[u]
  BY <1>1
<1>3. /\ trips'[t].status = s /\ trips'[t].requestId = trips[t].requestId
      /\ trips'[t].riderId = trips[t].riderId
  BY <1>1 DEF FSM!Trip
<1>4. /\ trips[t].status \in Late => s \in Late
      /\ trips[t].status # "cancelled"
  BY DEF FSM!AllowedTransitions, Late
<1> QED
  BY <1>1, <1>2, <1>3, <1>4 DEF TripsOn

LEMMA MilestoneOn ==
  ASSUME FSM!TypeOK, NEW t, NEW s \in {"en_route", "arrived", "in_progress"}, NEW P,
         Try(P, FSM!Milestone(t, s)), NEW c
  PROVE  TripsOn(c)
<1>1. CASE P
  <2>1. FSM!Milestone(t, s)
    BY <1>1 DEF Try
  <2>2. t \in DOMAIN trips /\ s \in FSM!AllowedTransitions(trips[t].status)
        /\ FSM!Enter(t, s, trips[t].driverId)
    BY <2>1 DEF FSM!Milestone, FSM!Accepts
  <2>3. TripsOn({})
    BY <2>2, EnterOn
  <2> QED
    BY <2>3 DEF TripsOn
<1>2. CASE ~P
  BY <1>2, SameTripsOn DEF Try
<1> QED
  BY <1>1, <1>2

LEMMA CancelOn ==
  ASSUME FSM!TypeOK, NEW t, NEW role, FSM!CancelTrip(t, role)
  PROVE  TripsOn({t}) /\ t \in DOMAIN trips /\ trips'[t].status = "cancelled"
<1>1. t \in DOMAIN trips /\ "cancelled" \in FSM!AllowedTransitions(trips[t].status)
      /\ FSM!Enter(t, "cancelled", trips[t].driverId)
  BY DEF FSM!CancelTrip, FSM!Accepts
<1> QED
  BY <1>1, EnterOn

\* Nothing new is on the wire, or nothing about a failure.
LEMMA SameFailsOn == ASSUME wire' = wire PROVE FailsOn
BY DEF FailsOn

LEMMA AppendFailsOn ==
  ASSUME SimInv, NEW k \in Calls, wire' = Append(wire, k), \A t \in FSM!TripIds : k # FailCall(t)
  PROVE  FailsOn
BY SimFacts, AppendFacts DEF FailsOn

LEMMA TailFailsOn ==
  ASSUME SimInv, wire # <<>>, wire' = Tail(wire)
  PROVE  FailsOn
BY SimFacts, TailFacts DEF FailsOn

LEMMA ReplyFailsOn ==
  ASSUME SimInv, wire # <<>>, NEW k \in Calls, wire' = Tail(wire) \o <<k>>,
         \A t \in FSM!TripIds : k # FailCall(t)
  PROVE  FailsOn
<1>1. Tail(wire) \in Seq(Calls) /\ \A b : Occurs(Tail(wire), b) => Occurs(wire, b)
  BY SimFacts, TailFacts
<1>2. Tail(wire) \o <<k>> = Append(Tail(wire), k)
  BY <1>1
<1>3. \A b : Occurs(Append(Tail(wire), k), b) <=> Occurs(Tail(wire), b) \/ b = k
  BY <1>1, AppendFacts
<1> QED
  BY <1>1, <1>2, <1>3 DEF FailsOn

LEMMA LoopToOn ==
  ASSUME SimInv, NEW t \in FSM!TripIds, NEW m, loop' = [loop EXCEPT ![t] = m], m.at # "saving"
  PROVE  LoopsOn
BY SimFacts DEF LoopsOn

LEMMA GotoOn ==
  ASSUME SimInv, NEW t \in FSM!TripIds, NEW at, loop' = [loop EXCEPT ![t].at = at], at # "saving"
  PROVE  LoopsOn
<1>1. loop \in [FSM!TripIds -> LoopStates]
  BY SimFacts
<1>2. \A u \in FSM!TripIds : u # t => loop'[u] = loop[u]
  BY <1>1
<1>3. loop'[t].at = at
  BY <1>1 DEF LoopStates
<1> QED
  BY <1>2, <1>3 DEF LoopsOn

LEMMA OfferOn ==
  ASSUME SimInv, NEW t \in FSM!TripIds, NEW d \in Drivers, Offer(t, d)
  PROVE  ServiceOn({}) /\ fsmVars' = fsmVars
<1> DEFINE m == [at |-> "offer", driver |-> d, tried |-> loop[t].tried \cup {d}]
<1>1. UNCHANGED fsmVars /\ wire' = wire /\ loop' = [loop EXCEPT ![t] = m] /\ m.at # "saving"
  BY SimFacts DEF Offer
<1> HIDE DEF m
<1>2. LoopsOn
  BY <1>1, LoopToOn
<1> QED
  BY <1>1, <1>2, SameTripsOn, SameFailsOn DEF ServiceOn

LEMMA BeginMatchingOn ==
  ASSUME SimInv, NEW t \in FSM!TripIds, BeginMatching(t)
  PROVE  ServiceOn({})
<1>1. /\ t \in DOMAIN trips /\ trips[t].status = "requested" /\ wire' = wire
      /\ "matching" \in FSM!AllowedTransitions(trips[t].status)
      /\ FSM!Enter(t, "matching", None) /\ loop' = [loop EXCEPT ![t].at = "top"]
  BY DEF BeginMatching, FSM!StartMatching, FSM!Accepts
<1>2. TripsOn({})
  <2>1. FSM!TypeOK /\ "matching" # "cancelled"
    BY SimFacts
  <2> QED
    BY <1>1, <2>1, EnterOn
<1>3. LoopsOn
  BY <1>1, GotoOn
<1> QED
  BY <1>1, <1>2, <1>3, SameFailsOn DEF ServiceOn

LEMMA RespondOn ==
  ASSUME SimInv, NEW t \in FSM!TripIds, Respond(t)
  PROVE  ServiceOn({})
<1>1. CASE Accept(t)
  <2>1. /\ UNCHANGED fsmVars /\ wire' = Append(wire, CommitCall(t))
        /\ loop' = [loop EXCEPT ![t].at = "commit"]
    BY <1>1 DEF Accept, Goto
  <2> QED
    <3>1. TripsOn({})
      BY <2>1, SameTripsOn
    <3>2. LoopsOn
      BY <2>1, GotoOn
    <3>3. CommitCall(t) \in Calls /\ \A u \in FSM!TripIds : CommitCall(t) # FailCall(u)
      BY CallsIn, FailsApart
    <3> HIDE DEF CommitCall
    <3>4. FailsOn
      BY <2>1, <3>3, AppendFailsOn
    <3> QED
      BY <3>1, <3>2, <3>4 DEF ServiceOn
<1>2. CASE Decline(t)
  <2>1. UNCHANGED fsmVars /\ wire' = wire /\ loop' = [loop EXCEPT ![t].at = "top"]
    BY <1>2 DEF Decline, Goto
  <2> QED
    BY <2>1, SameTripsOn, SameFailsOn, GotoOn DEF ServiceOn
<1> QED
  BY <1>1, <1>2 DEF Respond

LEMMA GiveUpOn ==
  ASSUME SimInv, NEW t \in FSM!TripIds, GiveUp(t)
  PROVE  ServiceOn({t}) /\ loop[t].at # "saving"
<1>1. /\ FSM!CancelTrip(t, "system") /\ wire' = Append(wire, FailCall(t))
      /\ loop' = [loop EXCEPT ![t] = NoLoop] /\ NoLoop.at # "saving" /\ loop[t].at = "top"
  BY DEF GiveUp, NoLoop
<1>2. TripsOn({t}) /\ t \in DOMAIN trips /\ trips'[t].status = "cancelled"
  BY <1>1, SimFacts, CancelOn
<1>3. FailsOn
  <2>1. \A b : Occurs(wire', b) <=> Occurs(wire, b) \/ b = FailCall(t)
    BY <1>1, SimFacts, AppendFacts, CallsIn
  <2> QED
    BY <1>2, <2>1, FailsApart DEF FailsOn, TripsOn
<1> QED
  BY <1>1, <1>2, <1>3, LoopToOn DEF ServiceOn

LEMMA LoopAbortedOn ==
  ASSUME SimInv, NEW t \in FSM!TripIds, LoopAborted(t)
  PROVE  ServiceOn({})
<1>1. /\ UNCHANGED fsmVars /\ wire' = wire
      /\ loop' = [loop EXCEPT ![t] = NoLoop] /\ NoLoop.at # "saving"
  BY DEF LoopAborted, NoLoop
<1> QED
  BY <1>1, SameTripsOn, SameFailsOn, LoopToOn DEF ServiceOn

LEMMA FailReplyOn ==
  ASSUME SimInv, NEW t \in FSM!TripIds, FailReply(t)
  PROVE  ServiceOn({}) /\ fsmVars' = fsmVars /\ Occurs(wire, FailCall(t))
<1>1. UNCHANGED fsmVars /\ wire # <<>> /\ wire' = Tail(wire) \o <<>> /\ loop' = loop
      /\ Head(wire) = FailCall(t)
  BY DEF FailReply, Answered, Reply
<1>2. wire' = Tail(wire) /\ Occurs(wire, FailCall(t))
  BY <1>1, SimFacts, TailFacts
<1> QED
  BY <1>1, <1>2, SameTripsOn, TailFailsOn DEF ServiceOn, LoopsOn

LEMMA FreeReplyOn ==
  ASSUME SimInv, NEW t \in FSM!TripIds, NEW d \in Drivers, FreeReply(t, d)
  PROVE  ServiceOn({})
<1>1. UNCHANGED fsmVars /\ wire # <<>> /\ wire' = Tail(wire) \o <<>>
      /\ loop' = [loop EXCEPT ![t].at = IF loop[t].at = "rollback" THEN "top" ELSE loop[t].at]
  BY SimFacts DEF FreeReply, Answered, Reply, LoopStates
<1>2. wire' = Tail(wire)
  BY <1>1, SimFacts, TailFacts
<1>3. LoopsOn
  <2>1. CASE loop[t].at = "saving"
    BY <1>1, <2>1, SimFacts DEF LoopsOn
  <2>2. CASE loop[t].at # "saving"
    <3> DEFINE at == IF loop[t].at = "rollback" THEN "top" ELSE loop[t].at
    <3>1. loop' = [loop EXCEPT ![t].at = at] /\ at # "saving"
      BY <1>1, <2>2
    <3> HIDE DEF at
    <3> QED
      BY <3>1, GotoOn
  <2> QED
    BY <2>1, <2>2
<1> QED
  BY <1>1, <1>2, <1>3, SameTripsOn, TailFailsOn DEF ServiceOn

LEMMA CommitReplyOn ==
  ASSUME SimInv, NEW t \in FSM!TripIds, CommitReply(t)
  PROVE  ServiceOn({})
<1> DEFINE d == loop[t].driver
<1>1. wire # <<>> /\ Head(wire) = CommitCall(t)
  BY DEF CommitReply, Answered
<1>2. d \in Drivers
  <2>1. loop[t].at = "commit"
    BY <1>1, SimFacts, TailFacts DEF LoopFacts
  <2> QED
    BY <2>1, SimFacts DEF LoopFacts, Leading
<1>3. CASE FSM!Accepts(t, "matched", "system", d)
  <2>1. /\ t \in DOMAIN trips /\ "matched" \in FSM!AllowedTransitions(trips[t].status)
        /\ FSM!Enter(t, "matched", d)
        /\ wire' = Tail(wire) \o <<SaveCall(t)>> /\ loop' = [loop EXCEPT ![t].at = "saving"]
    BY <1>3 DEF CommitReply, FSM!SetMatched, FSM!Accepts, Goto, Reply
  <2>2. TripsOn({}) /\ trips'[t].status = "matched"
    BY <2>1, SimFacts, EnterOn
  <2>3. LoopsOn
    <3>1. loop \in [FSM!TripIds -> LoopStates]
      BY SimFacts
    <3>2. \A u \in FSM!TripIds : u # t => loop'[u] = loop[u]
      BY <2>1, <3>1
    <3> QED
      BY <2>2, <3>2 DEF LoopsOn
  <2>4. FailsOn
    BY <1>1, <2>1, ReplyFailsOn, CallsIn, FailsApart
  <2> QED
    BY <2>2, <2>3, <2>4 DEF ServiceOn
<1>4. CASE ~FSM!Accepts(t, "matched", "system", d)
  <2>1. /\ UNCHANGED fsmVars /\ wire' = Tail(wire) \o <<FreeCall(t, d)>>
        /\ loop' = [loop EXCEPT ![t].at = "rollback"]
    BY <1>4 DEF CommitReply, Goto, Reply, RollbackCalls
  <2>2. FailsOn
    <3> HIDE DEF d
    <3> QED
      BY <1>1, <1>2, <2>1, ReplyFailsOn, CallsAre, FailsApart
  <2> QED
    BY <2>1, <2>2, SameTripsOn, GotoOn DEF ServiceOn
<1> QED
  BY <1>3, <1>4

LEMMA SaveReplyOn ==
  ASSUME SimInv, NEW t \in FSM!TripIds, SaveReply(t)
  PROVE  /\ ServiceOn({}) /\ t \in DOMAIN trips /\ loop[t].driver \in Drivers
         /\ loop[t].at = "saving"
         /\ trips'[t].status \in Late
         /\ trips[t].status = "matched" => trips'[t].status = "en_route"
<1>1. /\ wire # <<>> /\ Head(wire) = SaveCall(t) /\ wire' = Tail(wire) \o <<>>
      /\ loop' = [loop EXCEPT ![t] = NoLoop] /\ NoLoop.at # "saving"
      /\ Try(FSM!Accepts(t, "en_route", "driver", None), FSM!Milestone(t, "en_route"))
  BY DEF SaveReply, Answered, Reply, NoLoop, FSM!DriverEnRoute
<1>2. wire' = Tail(wire) /\ Occurs(wire, SaveCall(t))
  BY <1>1, SimFacts, TailFacts
<1>3. loop[t].at = "saving"
  BY <1>2, SimFacts DEF LoopFacts
<1>4. /\ t \in DOMAIN trips /\ loop[t].driver \in Drivers
      /\ trips[t].status \in Late \cup {"matched"}
  BY <1>3, SimFacts, TripIs
     DEF Saved, Late, FSM!TripStatus, FSM!Assigned, FSM!Terminal
<1>5. /\ trips'[t].status \in Late
      /\ trips[t].status = "matched" => trips'[t].status = "en_route"
  <2>1. CASE trips[t].status = "matched"
    <3>1. FSM!Accepts(t, "en_route", "driver", None)
      BY <1>4, <2>1 DEF FSM!Accepts, FSM!AllowedTransitions, FSM!RoleMay
    <3>2. Moves(t, "en_route", trips[t].driverId)
      BY <1>1, <3>1, SimFacts, MilestoneMoves DEF Try
    <3> QED
      BY <2>1, <3>2 DEF Moves, Late
  <2>2. CASE trips[t].status # "matched"
    <3>1. ~FSM!Accepts(t, "en_route", "driver", None)
      BY <2>2 DEF FSM!Accepts, FSM!AllowedTransitions
    <3> QED
      BY <1>1, <1>4, <2>2, <3>1 DEF Try, fsmVars
  <2> QED
    BY <2>1, <2>2
<1>6. TripsOn({})
  BY <1>1, SimFacts, MilestoneOn
<1> QED
  BY <1>1, <1>2, <1>3, <1>4, <1>5, <1>6, TailFailsOn, LoopToOn DEF ServiceOn

\* A completion, asked for by the driver or by a panel.
LEMMA CompleteOn ==
  ASSUME FSM!TypeOK, NEW t, Try(FSM!Accepts(t, "completed", "driver", None), FSM!CompleteTrip(t))
  PROVE  TripsOn({})
<1>1. CASE FSM!Accepts(t, "completed", "driver", None)
  <2> DEFINE s == "completed"
  <2>1. /\ t \in DOMAIN trips /\ s \in FSM!AllowedTransitions(trips[t].status)
        /\ s # "matching" /\ s # "cancelled" /\ FSM!Enter(t, s, trips[t].driverId)
    BY <1>1 DEF Try, FSM!CompleteTrip, FSM!Accepts
  <2> HIDE DEF s
  <2> QED
    BY <2>1, EnterOn
<1>2. CASE ~FSM!Accepts(t, "completed", "driver", None)
  BY <1>2, SameTripsOn DEF Try
<1> QED
  BY <1>1, <1>2

LEMMA DriverStepOn ==
  ASSUME SimInv, NEW d \in Drivers, DriverStep(d)
  PROVE  ServiceOn({})
<1>1. CASE ReachPickup(d)
  <2>1. TripsOn({})
    BY <1>1, SimFacts, MilestoneOn DEF ReachPickup, FSM!DriverArrived
  <2> QED
    BY <1>1, <2>1, SameFailsOn DEF ReachPickup, poolVars, ServiceOn, LoopsOn
<1>2. CASE BoardingOver(d)
  <2>1. TripsOn({})
    BY <1>2, SimFacts, MilestoneOn DEF BoardingOver, StartTheTrip, FSM!StartTrip
  <2> QED
    BY <1>2, <2>1, SameFailsOn DEF BoardingOver, poolVars, ServiceOn, LoopsOn
<1>3. CASE ReachDropoff(d)
  <2> DEFINE t == activeTripId[d]
  <2>1. /\ t # None /\ wire' = Append(wire, FreeCall(t, d)) /\ loop' = loop
        /\ Try(FSM!Accepts(t, "completed", "driver", None), FSM!CompleteTrip(t))
    BY <1>3 DEF ReachDropoff
  <2>2. t \in FSM!TripIds
    BY <2>1, SimFacts DEF SimTyped
  <2> HIDE DEF t
  <2>3. TripsOn({})
    BY <2>1, SimFacts, CompleteOn
  <2>4. FailsOn
    BY <2>1, <2>2, AppendFailsOn, CallsAre, FailsApart
  <2> QED
    BY <2>1, <2>3, <2>4 DEF ServiceOn, LoopsOn
<1> QED
  BY <1>1, <1>2, <1>3 DEF DriverStep

LEMMA LeftBoardingOverOn ==
  ASSUME SimInv, NEW t \in FSM!TripIds, LeftBoardingOver(t)
  PROVE  ServiceOn({})
<1>1. TripsOn({})
  BY SimFacts, MilestoneOn DEF LeftBoardingOver, StartTheTrip, FSM!StartTrip
<1> QED
  BY <1>1, SameFailsOn DEF LeftBoardingOver, poolVars, ServiceOn, LoopsOn

LEMMA ResetReplyOn ==
  ASSUME SimInv, ResetReply
  PROVE  ServiceOn({})
<1>1. UNCHANGED fsmVars /\ wire # <<>> /\ wire' = Tail(wire) \o <<>> /\ loop' = loop
  BY DEF ResetReply, Answered, Reply
<1>2. wire' = Tail(wire)
  BY <1>1, SimFacts, TailFacts
<1> QED
  BY <1>1, <1>2, SameTripsOn, TailFailsOn DEF ServiceOn, LoopsOn

LEMMA FreeCallsFailsOn ==
  ASSUME SimInv, NEW t \in DOMAIN trips, wire' = wire \o FreeCalls(t)
  PROVE  FailsOn
<1>1. CASE trips[t].driverId = None
  <2>1. wire' = wire \o <<>>
    BY <1>1 DEF FreeCalls
  <2>2. wire' = wire
    BY <2>1, SimFacts
  <2> QED
    BY <2>2, SameFailsOn
<1>2. CASE trips[t].driverId # None
  <2> DEFINE k == FreeCall(t, trips[t].driverId)
  <2>1. k \in Calls /\ \A u \in FSM!TripIds : k # FailCall(u)
    BY <1>2, SimFacts, TripIs, CallsAre, FailsApart
  <2>2. wire' = wire \o <<k>>
    BY <1>2 DEF FreeCalls
  <2> HIDE DEF k
  <2>3. wire' = Append(wire, k)
    BY <2>1, <2>2, SimFacts
  <2> QED
    BY <2>1, <2>3, AppendFailsOn
<1> QED
  BY <1>1, <1>2

LEMMA CancelRideOn ==
  ASSUME SimInv, NEW t \in FSM!TripIds, CancelRide(t)
  PROVE  ServiceOn({t})
<1>1. FSM!CancelTrip(t, "rider") /\ Withdraw({t}) /\ wire' = wire \o FreeCalls(t)
  BY DEF CancelRide
<1>2. TripsOn({t}) /\ t \in DOMAIN trips
  BY <1>1, SimFacts, CancelOn
<1>3. LoopsOn
  <2>1. NoLoop.at # "saving" /\ loop' = [u \in FSM!TripIds |-> IF u \in Withdrawn({t}) THEN NoLoop ELSE loop[u]]
    BY <1>1 DEF Withdraw, NoLoop
  <2> QED
    BY <2>1 DEF LoopsOn
<1>4. FailsOn
  BY <1>1, <1>2, FreeCallsFailsOn
<1> QED
  BY <1>2, <1>3, <1>4 DEF ServiceOn

LEMMA RepeatCancelOn ==
  ASSUME SimInv, NEW t, RepeatCancel(t)
  PROVE  ServiceOn({})
<1>1. /\ t \in DOMAIN trips /\ UNCHANGED fsmVars /\ loop' = loop
      /\ wire' = wire \o FreeCalls(t)
  BY DEF RepeatCancel
<1> QED
  BY <1>1, SameTripsOn, FreeCallsFailsOn DEF ServiceOn, LoopsOn

LEMMA DriverActionOn ==
  ASSUME SimInv, NEW t, DriverAction(t)
  PROVE  ServiceOn({})
<1>1. CASE ReportMilestone(t)
  <2>1. loop' = loop /\ wire' = wire /\ \E s \in {"arrived", "in_progress"} : FSM!Milestone(t, s)
    BY <1>1 DEF ReportMilestone, FSM!DriverArrived, FSM!StartTrip, poolVars
  <2>2. ASSUME NEW s \in {"en_route", "arrived", "in_progress"}, FSM!Milestone(t, s)
        PROVE  TripsOn({})
    <3>1. Try(TRUE, FSM!Milestone(t, s))
      BY <2>2 DEF Try
    <3> QED
      BY <3>1, SimFacts, MilestoneOn
  <2> QED
    BY <2>1, <2>2, SameFailsOn DEF ServiceOn, LoopsOn
<1>2. CASE ReportCompletion(t)
  <2>1. /\ t \in DOMAIN trips /\ wire' = wire \o FreeCalls(t) /\ loop' = loop
        /\ Try(FSM!Accepts(t, "completed", "driver", None), FSM!CompleteTrip(t))
    BY <1>2 DEF ReportCompletion, FSM!Succeeds, FSM!Accepts
  <2>2. TripsOn({})
    BY <2>1, SimFacts, CompleteOn
  <2> QED
    BY <2>1, <2>2, FreeCallsFailsOn DEF ServiceOn, LoopsOn
<1> QED
  BY <1>1, <1>2 DEF DriverAction

-----------------------------------------------------------------------------
(* Messages to the dashboard *)

\* Trip t, of the trips ts, was announced with its driver.
Announced(t, ts) == t \in DOMAIN ts /\ ts[t].status \in Late

Msgs == [about : FSM!TripIds,
         sets : [status : FSM!TripStatus]
                \cup [status : FSM!TripStatus, driver : Drivers]
                \cup [status : FSM!TripStatus, driver : Drivers, trip : FSM!TripIds]]

\* A message is about one of the trips ts, has a status, and names no trip before
\* its driver is on the way.
GoodMsg(m, ts) ==
    /\ m.about \in DOMAIN ts
    /\ "status" \in DOMAIN m.sets /\ "request" \notin DOMAIN m.sets
    /\ "trip" \in DOMAIN m.sets => Announced(m.sets.trip, ts)

IsAbout(w, u) == \E i \in DOMAIN w : w[i].about = u

\* The last message of w about trip u, if there is one, has status s.
LastWord(w, u, s) ==
    \A i \in DOMAIN w :
        w[i].about = u /\ (\A j \in DOMAIN w : j > i => w[j].about # u)
        => w[i].sets.status = s

LEMMA LastWordConcat ==
  ASSUME NEW S, NEW w \in Seq(S), NEW v \in Seq(S), NEW u, NEW s,
         LastWord(v, u, s), IsAbout(v, u) \/ LastWord(w, u, s)
  PROVE  LastWord(w \o v, u, s)
<1>1. /\ w \o v \in Seq(S) /\ Len(w) \in Nat /\ Len(v) \in Nat
      /\ DOMAIN w = 1..Len(w) /\ DOMAIN v = 1..Len(v) /\ DOMAIN (w \o v) = 1..(Len(w) + Len(v))
      /\ \A i \in 1..Len(w) : (w \o v)[i] = w[i]
      /\ \A i \in 1..Len(v) : (w \o v)[i + Len(w)] = v[i]
  OBVIOUS
<1> DEFINE x == w \o v
           m == Len(w)
           n == Len(v)
<1> HIDE DEF x, m, n
<1>2. /\ m \in Nat /\ n \in Nat /\ DOMAIN w = 1..m /\ DOMAIN v = 1..n /\ DOMAIN x = 1..(m + n)
      /\ \A i \in 1..m : x[i] = w[i] /\ i \in DOMAIN x
      /\ \A i \in 1..n : x[i + m] = v[i] /\ i + m \in DOMAIN x
  BY <1>1 DEF x, m, n
<1> SUFFICES ASSUME NEW i \in DOMAIN x, x[i].about = u,
                    \A j \in DOMAIN x : j > i => x[j].about # u
             PROVE  x[i].sets.status = s
  BY DEF LastWord, x
<1>3. CASE i \in 1..m
  <2>1. ASSUME NEW j \in DOMAIN v PROVE v[j].about # u
    <3>1. j + m \in DOMAIN x /\ j + m > i /\ x[j + m] = v[j]
      BY <1>2, <1>3
    <3> QED
      BY <3>1
  <2>2. LastWord(w, u, s)
    BY <2>1 DEF IsAbout
  <2>3. \A j \in DOMAIN w : j > i => w[j].about # u
    BY <1>2
  <2> QED
    BY <1>2, <1>3, <2>2, <2>3 DEF LastWord
<1>4. CASE i \notin 1..m
  <2>1. i - m \in 1..n /\ (i - m) + m = i
    BY <1>2, <1>4
  <2> DEFINE k == i - m
  <2>2. k \in DOMAIN v /\ x[i] = v[k]
    BY <1>2, <2>1
  <2>3. ASSUME NEW j \in DOMAIN v, j > k PROVE v[j].about # u
    <3>1. j + m \in DOMAIN x /\ j + m > i /\ x[j + m] = v[j]
      BY <1>2, <2>1, <2>3
    <3> QED
      BY <3>1
  <2> HIDE DEF k
  <2> QED
    BY <2>2, <2>3 DEF LastWord
<1> QED
  BY <1>3, <1>4

\* Every message of x is one of w or of v.
MadeOf(x, w, v) ==
    \A i \in DOMAIN x : (\E j \in DOMAIN w : x[i] = w[j]) \/ (\E j \in DOMAIN v : x[i] = v[j])

LEMMA ConcatParts ==
  ASSUME NEW S, NEW w \in Seq(S), NEW v \in Seq(S)
  PROVE  /\ w \o v \in Seq(S)
         /\ MadeOf(w \o v, w, v)
         /\ \A u : IsAbout(v, u) => IsAbout(w \o v, u)
         /\ w \o v = <<>> => w = <<>> /\ v = <<>>
<1>1. /\ w \o v \in Seq(S) /\ Len(w) \in Nat /\ Len(v) \in Nat
      /\ Len(w \o v) = Len(w) + Len(v)
      /\ DOMAIN w = 1..Len(w) /\ DOMAIN v = 1..Len(v) /\ DOMAIN (w \o v) = 1..(Len(w) + Len(v))
      /\ \A i \in 1..Len(w) : (w \o v)[i] = w[i]
      /\ \A i \in 1..Len(v) : (w \o v)[i + Len(w)] = v[i]
  OBVIOUS
<1> DEFINE x == w \o v
           m == Len(w)
           n == Len(v)
<1>2. x = <<>> => w = <<>> /\ v = <<>>
  BY <1>1
<1> HIDE DEF x, m, n
<1>3. /\ m \in Nat /\ n \in Nat /\ DOMAIN w = 1..m /\ DOMAIN v = 1..n /\ DOMAIN x = 1..(m + n)
      /\ \A i \in 1..m : x[i] = w[i]
      /\ \A i \in 1..n : x[i + m] = v[i] /\ i + m \in DOMAIN x
  BY <1>1 DEF x, m, n
<1>4. ASSUME NEW i \in DOMAIN x
      PROVE  (\E j \in DOMAIN w : x[i] = w[j]) \/ (\E j \in DOMAIN v : x[i] = v[j])
  <2>1. CASE i <= m
    <3>1. i \in 1..m
      BY <1>3, <2>1
    <3> QED
      BY <1>3, <3>1
  <2>2. CASE ~(i <= m)
    <3>1. i - m \in 1..n /\ (i - m) + m = i
      BY <1>3, <2>2
    <3> QED
      BY <1>3, <3>1
  <2> QED
    BY <2>1, <2>2
<1>5. \A u : IsAbout(v, u) => IsAbout(x, u)
  BY <1>3 DEF IsAbout
<1> QED
  BY <1>1, <1>2, <1>4, <1>5 DEF x, MadeOf

LEMMA LastWordTail ==
  ASSUME NEW S, NEW w \in Seq(S), w # <<>>, NEW u, NEW s, LastWord(w, u, s)
  PROVE  /\ LastWord(Tail(w), u, s)
         /\ Tail(w) = <<>> /\ Head(w).about = u => Head(w).sets.status = s
<1>1. /\ Tail(w) \in Seq(S) /\ Head(w) = w[1]
      /\ Len(w) \in Nat \ {0} /\ Len(Tail(w)) = Len(w) - 1
      /\ DOMAIN w = 1..Len(w) /\ DOMAIN Tail(w) = 1..(Len(w) - 1)
      /\ \A i \in 1..(Len(w) - 1) : Tail(w)[i] = w[i + 1]
  OBVIOUS
<1> DEFINE v == Tail(w)
           n == Len(w)
           h == Head(w)
<1> HIDE DEF v, n, h
<1>2. /\ h = w[1] /\ n \in Nat \ {0} /\ DOMAIN w = 1..n /\ DOMAIN v = 1..(n - 1)
      /\ \A i \in DOMAIN v : v[i] = w[i + 1] /\ i + 1 \in DOMAIN w
      /\ Len(v) = n - 1
  BY <1>1 DEF v, n, h
<1>3. ASSUME NEW i \in DOMAIN v, v[i].about = u, \A j \in DOMAIN v : j > i => v[j].about # u
      PROVE  v[i].sets.status = s
  <2>1. w[i + 1].about = u /\ i + 1 \in DOMAIN w
    BY <1>2, <1>3
  <2>2. ASSUME NEW j \in DOMAIN w, j > i + 1 PROVE w[j].about # u
    <3>1. j - 1 \in DOMAIN v /\ j - 1 > i /\ (j - 1) + 1 = j
      BY <1>2, <2>2
    <3> QED
      BY <1>2, <1>3, <3>1
  <2> QED
    BY <1>2, <2>1, <2>2 DEF LastWord
<1>4. ASSUME v = <<>>, h.about = u PROVE h.sets.status = s
  <2>1. n = 1
    BY <1>2, <1>4
  <2>2. 1 \in DOMAIN w /\ \A j \in DOMAIN w : ~(j > 1)
    BY <1>2, <2>1
  <2> QED
    BY <1>2, <1>4, <2>2 DEF LastWord
<1> QED
  BY <1>3, <1>4 DEF v, h, LastWord

LEMMA TripEventIs ==
  ASSUME NEW t \in FSM!TripIds, NEW from, NEW s \in FSM!TripStatus
  PROVE  /\ TripEvent(t, from, s) \in Msgs
         /\ TripEvent(t, from, s).about = t
         /\ TripEvent(t, from, s).sets = [status |-> s]
BY DEF TripEvent, Msgs

\* The events of a step are about trips that exist and say what has become of them;
\* each trip whose status changes has one.
LEMMA TripEventsAre ==
  ASSUME FSM!TypeOK, FSM!TypeOK', DOMAIN trips \subseteq DOMAIN trips'
  PROVE  /\ TripEvents \in Seq(Msgs)
         /\ \A i \in DOMAIN TripEvents :
                /\ TripEvents[i].about \in DOMAIN trips
                /\ trips'[TripEvents[i].about].status # trips[TripEvents[i].about].status
                /\ TripEvents[i].sets = [status |-> trips'[TripEvents[i].about].status]
         /\ \A u \in DOMAIN trips :
                trips'[u].status # trips[u].status => IsAbout(TripEvents, u)
<1> DEFINE S == {m \in Msgs : /\ m.about \in DOMAIN trips
                              /\ trips'[m.about].status # trips[m.about].status
                              /\ m.sets = [status |-> trips'[m.about].status]}
           ev(t) == TripEvent(t, trips[t].status, trips'[t].status)
           f == [t \in 1..MaxTrips |->
                    IF t \in DOMAIN trips /\ trips'[t].status # trips[t].status
                    THEN <<ev(t)>> ELSE <<>>]
<1>1. TripEvents = FlattenSeq(f)
  BY DEF TripEvents
<1>2. MaxTrips \in Nat /\ DOMAIN trips \subseteq 1..MaxTrips /\ FSM!TripIds = 1..MaxTrips
  BY SimulatorAssumption DEF FSM!TypeOK, FSM!TripIds
<1>3. ASSUME NEW t \in DOMAIN trips, trips'[t].status # trips[t].status
      PROVE  ev(t) \in S /\ ev(t).about = t
  <2>1. trips'[t].status \in FSM!TripStatus /\ t \in FSM!TripIds
    BY <1>2 DEF FSM!TypeOK, FSM!Trip
  <2>2. ev(t) \in Msgs /\ ev(t).about = t /\ ev(t).sets = [status |-> trips'[t].status]
    BY <2>1, TripEventIs
  <2> HIDE DEF ev
  <2> QED
    BY <1>3, <2>2
<1> HIDE DEF ev, S
<1>4. f \in [1..MaxTrips -> Seq(S)]
  BY <1>3
<1>5. \A t \in DOMAIN trips : trips'[t].status # trips[t].status => Occurs(f[t], ev(t))
  <2> SUFFICES ASSUME NEW t \in DOMAIN trips, trips'[t].status # trips[t].status
               PROVE  Occurs(f[t], ev(t))
    OBVIOUS
  <2>1. f[t] = <<ev(t)>>
    BY <1>2
  <2> HIDE DEF f
  <2> QED
    BY <2>1 DEF Occurs
<1> HIDE DEF f
<1>6. TripEvents \in Seq(S)
  BY <1>1, <1>2, <1>4, FlattenIs
<1>7. \A i \in DOMAIN TripEvents : TripEvents[i] \in S
  BY <1>6
<1>8. ASSUME NEW u \in DOMAIN trips, trips'[u].status # trips[u].status
      PROVE  IsAbout(TripEvents, u)
  <2>1. u \in 1..MaxTrips
    BY <1>2
  <2>2. Occurs(f[u], ev(u))
    BY <1>5, <1>8
  <2>3. Occurs(FlattenSeq(f), ev(u))
    BY <1>2, <1>4, <2>1, <2>2, FlattenHas
  <2> QED
    BY <1>1, <1>3, <1>8, <2>3 DEF Occurs, IsAbout
<1>9. TripEvents \in Seq(Msgs)
  <2>1. S \subseteq Msgs
    BY DEF S
  <2> QED
    BY <1>6, <2>1
<1> QED
  BY <1>7, <1>8, <1>9 DEF S

-----------------------------------------------------------------------------
(* The dashboard and what it shows *)

\* A request id belongs to the trip created for it.
Indexed ==
    /\ \A u \in DOMAIN trips : requestToTrip[trips[u].requestId] = u
    /\ \A q \in Requests :
          requestToTrip[q] # None => /\ requestToTrip[q] \in DOMAIN trips
                                     /\ trips[requestToTrip[q]].requestId = q

\* The view is of a request of the dashboard, and knows a trip only by its match.
ViewIs ==
    view # None =>
        /\ view \in Views
        /\ view.trip # None => Announced(view.trip, trips)
        /\ ViewTrip # None => trips[ViewTrip].riderId = Viewer

\* What is posted is a request no trip was created for, or the cancellation of an
\* announced trip.
AskedIs ==
    /\ view = None => cancelSent = {} /\ cancelDone = {}
    /\ \A t \in cancelSent : Announced(t, trips)
    /\ posted \subseteq Requests
    /\ \A q \in posted : requestToTrip[q] = None

InboxIs ==
    /\ inbox \in Seq(Msgs)
    /\ link # "connected" => inbox = <<>>
    /\ \A i \in DOMAIN inbox : GoodMsg(inbox[i], trips)

\* The last message under way about a trip of the dashboard says what has become of
\* the trip; a match of its own is not cancelled before it is announced.
WordsAre ==
    \A u \in DOMAIN trips :
        trips[u].riderId = Viewer =>
            /\ LastWord(inbox, u, trips[u].status)
            /\ loop[u].at = "saving" => trips[u].status = "matched"

\* Failures that are being saved are those of cancelled trips.
FailsAre ==
    \A t \in FSM!TripIds :
        Occurs(wire, FailCall(t)) => t \in DOMAIN trips /\ trips[t].status = "cancelled"

RideStatus == IF ViewTrip = None THEN "requested" ELSE trips[ViewTrip].status

ShownIs ==
    view # None /\ inbox = <<>> /\ ~misled =>
        view.status = RideStatus \/ (view.status = "cancelled" /\ ownCancel)

\* A dashboard is open and the region was not reset.
Calm == resets = 0 /\ scenario.dashboard

DashInv == Indexed /\ ViewIs /\ AskedIs /\ InboxIs /\ WordsAre /\ FailsAre /\ ShownIs

ViewInv ==
    /\ ~scenario.dashboard => view = None /\ cancelSent = {} /\ cancelDone = {}
    /\ Calm => DashInv

-----------------------------------------------------------------------------
(* The service goes on, heard by the dashboard *)

\* A match that is still being saved was not moved on, except by a cancellation.
SavesOn ==
    \A t \in FSM!TripIds :
        loop[t].at = "saving" /\ loop'[t].at = "saving" =>
            trips'[t].status \in {trips[t].status, "cancelled"}

\* Before its announcement nobody knows the trip but its rider: neither its virtual
\* driver, nor a boarding timer of an earlier region, nor a panel.
LEMMA SavesStay ==
  ASSUME SimInv, resets = 0, [NextView]_allVars
  PROVE  SavesOn
<1> SUFFICES ASSUME NEW t \in FSM!TripIds, loop[t].at = "saving", loop'[t].at = "saving"
             PROVE  trips'[t].status \in {trips[t].status, "cancelled"}
  BY DEF SavesOn
<1>0. /\ FSM!TypeOK /\ t \in DOMAIN trips /\ \A d \in Drivers : activeTripId[d] # t
      /\ leftBoarding = {}
  BY SimFacts DEF Saved, Fresh
<1>1. CASE UNCHANGED fsmVars
  BY <1>1 DEF fsmVars
<1>2. ASSUME NEW u, NEW s, NEW d, Moves(u, s, d), u # t \/ s = "cancelled"
      PROVE  trips'[t].status \in {trips[t].status, "cancelled"}
  BY <1>0, <1>2 DEF Moves
<1>3. ASSUME NEW q \in Requests, NEW r \in Riders, RequestRide(q, r)
      PROVE  trips'[t] = trips[t]
  BY <1>0, <1>3, CreateMoves DEF RequestRide
<1>4. ASSUME NEW u, CancelRide(u) \/ GiveUp(u)
      PROVE  trips'[t].status \in {trips[t].status, "cancelled"}
  BY <1>0, <1>2, <1>4, EndMoves DEF CancelRide, GiveUp
<1>5. CASE ResetRegion
  <2>1. trips'[t] \in {trips[t], [trips[t] EXCEPT !.status = "cancelled"]}
    BY <1>0, <1>5 DEF ResetRegion
  <2>2. [trips[t] EXCEPT !.status = "cancelled"].status = "cancelled"
    BY <1>0, TripIs DEF FSM!Trip
  <2> QED
    BY <2>1, <2>2
<1>6. ASSUME NEW u \in FSM!TripIds, BeginMatching(u)
      PROVE  trips'[t].status \in {trips[t].status, "cancelled"}
  <2>1. u # t
    BY <1>6, SimFacts DEF BeginMatching, Launched
  <2> QED
    BY <1>0, <1>2, <1>6, <2>1, MatchingMoves DEF BeginMatching
<1>7. ASSUME NEW u \in FSM!TripIds, CommitReply(u)
      PROVE  trips'[t].status \in {trips[t].status, "cancelled"}
  <2>1. loop[u].at = "commit" /\ loop[u].driver \in Drivers
    BY <1>7, SimFacts, CommitReplyPool
  <2>2. CASE FSM!SetMatched(u, loop[u].driver)
    BY <1>0, <1>2, <2>1, <2>2, MatchedMoves
  <2> QED
    BY <1>1, <1>7, <2>2 DEF CommitReply
<1>8. ASSUME NEW u \in FSM!TripIds, SaveReply(u)
      PROVE  trips'[t].status \in {trips[t].status, "cancelled"}
  <2>1. u # t
    BY <1>8, SimFacts DEF SaveReply, NoLoop
  <2>2. CASE FSM!Milestone(u, "en_route")
    BY <1>0, <1>2, <2>1, <2>2, MilestoneMoves
  <2> QED
    BY <1>1, <1>8, <2>2 DEF SaveReply, Try, FSM!DriverEnRoute
<1>9. ASSUME NEW d \in Drivers, DriverStep(d)
      PROVE  trips'[t].status \in {trips[t].status, "cancelled"}
  <2>1. activeTripId[d] # t /\ (activeTripId[d] # None => activeTripId[d] \in DOMAIN trips)
    BY <1>0, SimFacts DEF Riding
  <2>2. CASE ReachPickup(d)
    BY <1>0, <2>1, <2>2, ArriveMoves DEF ReachPickup
  <2>3. CASE BoardingOver(d)
    BY <1>0, <2>1, <2>3, StartMoves DEF BoardingOver
  <2>4. CASE ReachDropoff(d)
    BY <1>0, <2>1, <2>4, CompleteMoves DEF ReachDropoff
  <2> QED
    BY <1>9, <2>2, <2>3, <2>4 DEF DriverStep
<1>10. ASSUME NEW u, LeftBoardingOver(u) PROVE FALSE
  BY <1>0, <1>10 DEF LeftBoardingOver
<1>11. CASE PanelClick
  <2>1. PICK u \in FSM!TripIds : u # t /\ (ReportMilestone(u) \/ ReportCompletion(u))
    BY <1>11 DEF PanelClick, DriverAction
  <2>2. CASE FSM!Milestone(u, "arrived") \/ FSM!Milestone(u, "in_progress")
    BY <1>0, <1>2, <2>1, <2>2, MilestoneMoves
  <2>3. CASE FSM!CompleteTrip(u)
    BY <1>0, <1>2, <2>1, <2>3, EndMoves
  <2> QED
    BY <1>1, <2>1, <2>2, <2>3
       DEF ReportMilestone, ReportCompletion, Try, FSM!DriverArrived, FSM!StartTrip
<1>12. ASSUME NEW u \in FSM!TripIds,
              \/ \E d \in Drivers : Offer(u, d) \/ FreeReply(u, d)
              \/ LoopAborted(u) \/ Respond(u) \/ FailReply(u) \/ RepeatCancel(u)
       PROVE  trips'[t].status \in {trips[t].status, "cancelled"}
  BY <1>1, <1>12
     DEF Offer, LoopAborted, Respond, Accept, Decline, FailReply, FreeReply, RepeatCancel
<1>13. CASE ResetReply \/ UNCHANGED vars
  BY <1>1, <1>13 DEF ResetReply, vars
<1>14. [WithoutPanels]_vars \/ PanelClick
  BY ViewSteps
<1> QED
  BY <1>3, <1>4, <1>5, <1>6, <1>7, <1>8, <1>9, <1>10, <1>11, <1>12, <1>13, <1>14
     DEF WithoutPanels, LoopStep, RedisAnswers

\* What msgs must be like, to be sent in a step.
Sendable(msgs) ==
    /\ msgs \in Seq(Msgs)
    /\ \A i \in DOMAIN msgs :
          /\ GoodMsg(msgs[i], trips')
          /\ trips[msgs[i].about].riderId = Viewer =>
                \/ msgs[i].sets.status = trips'[msgs[i].about].status
                \/ trips[msgs[i].about].status # trips'[msgs[i].about].status

\* GoodMsg is not undone.
LEMMA GoodMsgStays ==
  ASSUME NEW c, TripsOn(c), NEW m, GoodMsg(m, trips)
  PROVE  GoodMsg(m, trips')
BY DEF GoodMsg, Announced, TripsOn

LEMMA Heard ==
  ASSUME InboxIs, FSM!TypeOK, FSM!TypeOK', NEW c, TripsOn(c),
         NEW msgs, Sendable(msgs), Broadcast(msgs), link' = link,
         \A u \in DOMAIN trips :
             trips[u].riderId = Viewer => LastWord(inbox, u, trips[u].status)
  PROVE  /\ InboxIs'
         /\ \A u \in DOMAIN trips :
                trips[u].riderId = Viewer => LastWord(inbox', u, trips'[u].status)
         /\ inbox' = <<>> /\ ~misled' =>
                /\ inbox = <<>> /\ ~misled
                /\ \A u \in DOMAIN trips : trips'[u].status = trips[u].status
<1> DEFINE ev == TripEvents
           all == msgs \o ev
<1>0. /\ IF link = "connected"
          THEN inbox' = inbox \o all /\ misled' = misled
          ELSE misled' = (misled \/ all # <<>>) /\ inbox' = inbox
      /\ inbox \in Seq(Msgs) /\ msgs \in Seq(Msgs)
      /\ DOMAIN trips' = DOMAIN trips
  BY DEF Broadcast, InboxIs, Sendable, TripsOn
<1>1. /\ ev \in Seq(Msgs)
      /\ \A i \in DOMAIN ev : /\ ev[i].about \in DOMAIN trips
                             /\ ev[i].sets = [status |-> trips'[ev[i].about].status]
      /\ \A u \in DOMAIN trips : trips'[u].status # trips[u].status => IsAbout(ev, u)
  BY <1>0, TripEventsAre
<1> HIDE DEF ev
<1>2. \A i \in DOMAIN ev : GoodMsg(ev[i], trips')
  <2>1. \A s : DOMAIN [status |-> s] = {"status"}
    OBVIOUS
  <2>2. \A i \in DOMAIN ev : ev[i].about \in DOMAIN trips' /\ DOMAIN ev[i].sets = {"status"}
    BY <1>0, <1>1, <2>1
  <2> QED
    BY <2>2 DEF GoodMsg
<1>3. all \in Seq(Msgs) /\ \A i \in DOMAIN all : GoodMsg(all[i], trips')
  <2>1. /\ all \in Seq(Msgs)
        /\ MadeOf(all, msgs, ev)
    <3>1. msgs \in Seq(Msgs) /\ ev \in Seq(Msgs)
      BY <1>0, <1>1
    <3> QED
      BY <3>1, ConcatParts
  <2> HIDE DEF all
  <2> QED
    BY <1>2, <2>1 DEF Sendable, MadeOf
<1>4. ASSUME NEW u \in DOMAIN trips, trips[u].riderId = Viewer
      PROVE  LastWord(all, u, trips'[u].status)
  <2>1. LastWord(ev, u, trips'[u].status)
    <3>1. \A s : [status |-> s].status = s
      OBVIOUS
    <3>2. \A i \in DOMAIN ev : ev[i].sets = [status |-> trips'[ev[i].about].status]
      BY <1>1
    <3>3. \A i \in DOMAIN ev : ev[i].sets.status = trips'[ev[i].about].status
      BY <3>1, <3>2
    <3> QED
      BY <3>3 DEF LastWord
  <2>2. CASE trips'[u].status # trips[u].status
    <3>1. IsAbout(ev, u)
      BY <1>1, <2>2
    <3> QED
      BY <1>0, <1>1, <2>1, <3>1, LastWordConcat
  <2>3. CASE trips'[u].status = trips[u].status
    <3>1. LastWord(msgs, u, trips'[u].status)
      BY <1>4, <2>3 DEF LastWord, Sendable
    <3> QED
      BY <1>0, <1>1, <2>1, <3>1, LastWordConcat
  <2> QED
    BY <2>2, <2>3
<1>5. ASSUME NEW u \in DOMAIN trips, trips'[u].status # trips[u].status
      PROVE  IsAbout(all, u) /\ all # <<>>
  <2>1. IsAbout(ev, u)
    BY <1>1, <1>5
  <2>2. IsAbout(all, u)
    BY <1>0, <1>1, <2>1, ConcatParts
  <2> QED
    BY <2>2 DEF IsAbout
<1> HIDE DEF all
<1>6. CASE link = "connected"
  <2>1. inbox' = inbox \o all /\ misled' = misled
    BY <1>0, <1>6
  <2>2. ASSUME NEW u \in DOMAIN trips, trips[u].riderId = Viewer
        PROVE  LastWord(inbox', u, trips'[u].status)
    <3>1. LastWord(all, u, trips'[u].status) /\ LastWord(inbox, u, trips[u].status)
      BY <1>4, <2>2
    <3>2. IsAbout(all, u) \/ LastWord(inbox, u, trips'[u].status)
      BY <1>5, <3>1
    <3> QED
      BY <1>0, <1>3, <2>1, <3>1, <3>2, LastWordConcat
  <2>3. inbox' \in Seq(Msgs) /\ \A i \in DOMAIN inbox' : GoodMsg(inbox'[i], trips')
    <3>1. inbox' \in Seq(Msgs) /\ MadeOf(inbox', inbox, all)
      BY <1>0, <1>3, <2>1, ConcatParts
    <3>2. \A i \in DOMAIN inbox : GoodMsg(inbox[i], trips')
      BY GoodMsgStays DEF InboxIs
    <3> QED
      BY <1>3, <3>1, <3>2 DEF MadeOf
  <2>4. inbox' = <<>> => inbox = <<>> /\ all = <<>>
    BY <1>0, <1>3, <2>1, ConcatParts
  <2> QED
    BY <1>5, <1>6, <2>1, <2>2, <2>3, <2>4 DEF InboxIs
<1>7. CASE link # "connected"
  <2>1. inbox' = inbox /\ inbox = <<>> /\ misled' = (misled \/ all # <<>>)
    BY <1>0, <1>7 DEF InboxIs
  <2>2. ~misled' => ~misled /\ all = <<>>
    BY <2>1
  <2>3. \A u, s : LastWord(inbox', u, s)
    BY <2>1 DEF LastWord
  <2>4. InboxIs'
    BY <1>0, <2>1 DEF InboxIs
  <2> QED
    BY <1>5, <2>1, <2>2, <2>3, <2>4
<1> QED
  BY <1>6, <1>7

LEMMA ServiceHeard ==
  ASSUME SimInv, SimInv', ViewInv, Calm, NEW c, ServiceOn(c), SavesOn,
         \A u \in c : u \in DOMAIN trips /\ loop[u].at = "saving" => trips[u].riderId # Viewer,
         NEW msgs, Sendable(msgs), Broadcast(msgs),
         UNCHANGED <<view, link, ownCancel, scenario>>, posted' \subseteq posted,
         cancelSent' \subseteq cancelSent, view = None => cancelDone' = {}
  PROVE  ViewInv'
<1>1. /\ Indexed /\ ViewIs /\ AskedIs /\ InboxIs /\ WordsAre /\ FailsAre /\ ShownIs
      /\ TripsOn(c) /\ LoopsOn /\ FailsOn /\ scenario'.dashboard
      /\ FSM!TypeOK /\ FSM!TypeOK'
  BY SimFacts DEF ViewInv, DashInv, ServiceOn, Calm, SimInv, SimTyped
<1>2. /\ DOMAIN trips' = DOMAIN trips /\ requestToTrip' = requestToTrip
      /\ \A u \in DOMAIN trips : /\ trips'[u].requestId = trips[u].requestId
                                /\ trips'[u].riderId = trips[u].riderId
      /\ \A u : Announced(u, trips) => Announced(u, trips')
  BY <1>1 DEF TripsOn, Announced
<1>3. Indexed'
  BY <1>1, <1>2 DEF Indexed
<1>4. ViewTrip' = ViewTrip /\ (view # None /\ ViewTrip # None => ViewTrip \in DOMAIN trips)
  <2>1. ViewTrip' = ViewTrip
    BY <1>2 DEF ViewTrip
  <2>2. view # None => view.request \in Requests
    BY <1>1 DEF ViewIs, Views
  <2> QED
    BY <1>1, <2>1, <2>2 DEF Indexed, ViewTrip
<1>5. ViewIs'
  BY <1>1, <1>2, <1>4 DEF ViewIs
<1>6. AskedIs'
  BY <1>1, <1>2 DEF AskedIs
<1>7. /\ InboxIs'
      /\ \A u \in DOMAIN trips :
             trips[u].riderId = Viewer => LastWord(inbox', u, trips'[u].status)
      /\ inbox' = <<>> /\ ~misled' =>
             /\ inbox = <<>> /\ ~misled
             /\ \A u \in DOMAIN trips : trips'[u].status = trips[u].status
  BY <1>1, Heard DEF WordsAre
<1>8. WordsAre'
  <2>1. ASSUME NEW u \in DOMAIN trips, trips[u].riderId = Viewer, loop'[u].at = "saving"
        PROVE  trips'[u].status = "matched"
    <3>1. u \in FSM!TripIds
      BY <1>1, TripIs
    <3>2. CASE loop[u].at = "saving"
      <4>1. trips[u].status = "matched" /\ u \notin c
        BY <1>1, <2>1, <3>2 DEF WordsAre
      <4>2. trips'[u].status # "cancelled"
        BY <1>1, <4>1 DEF TripsOn
      <4>3. trips'[u].status \in {trips[u].status, "cancelled"}
        BY <2>1, <3>1, <3>2 DEF SavesOn
      <4> QED
        BY <4>1, <4>2, <4>3
    <3>3. CASE loop[u].at # "saving"
      BY <1>1, <2>1, <3>1, <3>3 DEF LoopsOn
    <3> QED
      BY <3>2, <3>3
  <2> QED
    BY <1>2, <1>7, <2>1 DEF WordsAre
<1>9. FailsAre'
  BY <1>1, <1>2 DEF FailsAre, FailsOn, TripsOn
<1>10. ShownIs'
  <2>1. /\ view' = view /\ ownCancel' = ownCancel
        /\ inbox' = <<>> /\ ~misled' /\ view # None => RideStatus' = RideStatus
    BY <1>4, <1>7 DEF RideStatus
  <2> QED
    BY <1>1, <1>7, <2>1 DEF ShownIs
<1> QED
  BY <1>1, <1>3, <1>5, <1>6, <1>7, <1>8, <1>9, <1>10 DEF ViewInv, DashInv

LEMMA Silence == Sendable(<<>>)
BY DEF Sendable

\* Messages and events of a step that moves no trip.
LEMMA NothingHeard ==
  ASSUME FSM!TypeOK, FSM!TypeOK', DOMAIN trips \subseteq DOMAIN trips',
         \A u \in DOMAIN trips : trips'[u] = trips[u],
         inbox \in Seq(Msgs), Broadcast(<<>>)
  PROVE  inbox' = inbox /\ (misled' <=> misled)
<1>1. TripEvents \in Seq(Msgs) /\ \A i \in DOMAIN TripEvents : FALSE
  BY TripEventsAre
<1> DEFINE ev == TripEvents
<1>2. ev \in Seq(Msgs) /\ \A i \in DOMAIN ev : FALSE
  BY <1>1
<1>3. /\ IF link = "connected"
          THEN inbox' = inbox \o (<<>> \o ev) /\ misled' = misled
          ELSE misled' = (misled \/ (<<>> \o ev) # <<>>) /\ inbox' = inbox
  BY DEF Broadcast
<1> HIDE DEF ev
<1>4. ev = <<>>
  <2>1. ev # <<>> => 1 \in DOMAIN ev
    BY <1>2
  <2> QED
    BY <1>2, <2>1
<1>5. <<>> \o ev = <<>>
  BY <1>4
<1>6. inbox \o <<>> = inbox
  OBVIOUS
<1>7. CASE link = "connected"
  BY <1>3, <1>5, <1>6, <1>7
<1>8. CASE link # "connected"
  <2>1. misled' = (misled \/ (<<>> \o ev) # <<>>) /\ inbox' = inbox
    BY <1>3, <1>8
  <2>2. misled' = (misled \/ FALSE)
    BY <1>5, <2>1
  <2>3. misled' <=> misled
    BY <2>2, Zenon
  <2> QED
    BY <2>1, <2>3
<1> QED
  BY <1>7, <1>8

\* createTrip, told without reference to eviction.
LEMMA CreateIs ==
  ASSUME FSM!TypeOK, NEW q \in Requests, NEW r \in Riders, FSM!CreateTrip(q, r)
  PROVE  \E id \in FSM!TripIds :
             /\ id \notin DOMAIN trips /\ DOMAIN trips' = DOMAIN trips \cup {id}
             /\ \A u \in DOMAIN trips : trips'[u] = trips[u]
             /\ trips'[id].requestId = q /\ trips'[id].riderId = r
             /\ trips'[id].status = "requested"
             /\ requestToTrip[q] = None /\ requestToTrip'[q] = id
             /\ \A p \in Requests : p # q => requestToTrip'[p] = requestToTrip[p]
<1>1. FSM!Evicted = {}
  BY NothingEvicted
<1>2. /\ created < MaxTrips /\ requestToTrip[q] = None
      /\ trips' = [t \in DOMAIN trips \cup {created + 1} |->
                     IF t = created + 1 THEN FSM!NewTrip(q, r) ELSE trips[t]]
      /\ requestToTrip' = [p \in Requests |-> IF p = q THEN created + 1 ELSE requestToTrip[p]]
  BY <1>1 DEF FSM!CreateTrip
<1>3. created + 1 \notin DOMAIN trips /\ created + 1 \in FSM!TripIds
  BY <1>2, SimulatorAssumption DEF FSM!TypeOK, FSM!TripIds
<1>4. /\ FSM!NewTrip(q, r).requestId = q /\ FSM!NewTrip(q, r).riderId = r
      /\ FSM!NewTrip(q, r).status = "requested"
  BY DEF FSM!NewTrip
<1> QED
  BY <1>2, <1>3, <1>4

LEMMA Created ==
  ASSUME SimInv, SimInv', ViewInv, Calm,
         NEW q \in Requests, NEW r \in Riders, RequestRide(q, r), Broadcast(<<>>),
         UNCHANGED <<view, link, cancelSent, cancelDone, ownCancel>>,
         \/ ~Drawn(q) /\ posted' = posted
         \/ q \in posted /\ r = Viewer /\ posted' = posted \ {q}
  PROVE  ViewInv'
<1>1. /\ Indexed /\ ViewIs /\ AskedIs /\ InboxIs /\ WordsAre /\ FailsAre /\ ShownIs
      /\ FSM!TypeOK /\ FSM!TypeOK' /\ scenario.dashboard
      /\ FSM!CreateTrip(q, r) /\ loop' = loop /\ wire' = wire /\ scenario' = scenario
      /\ \A t \in FSM!TripIds : Saved(t)
  BY SimFacts DEF ViewInv, DashInv, Calm, SimInv, SimTyped, RideInv, RequestRide, poolVars, simVars
<1>2. PICK id \in FSM!TripIds :
          /\ id \notin DOMAIN trips /\ DOMAIN trips' = DOMAIN trips \cup {id}
          /\ \A u \in DOMAIN trips : trips'[u] = trips[u]
          /\ trips'[id].requestId = q /\ trips'[id].riderId = r
          /\ trips'[id].status = "requested"
          /\ requestToTrip[q] = None /\ requestToTrip'[q] = id
          /\ \A p \in Requests : p # q => requestToTrip'[p] = requestToTrip[p]
  BY <1>1, CreateIs
<1>3. /\ id # None /\ \A u \in DOMAIN trips : u # None /\ trips[u].requestId \in Requests
      /\ \A u : Announced(u, trips) => Announced(u, trips')
  BY <1>1, <1>2, SimulatorAssumption DEF FSM!TypeOK, FSM!Trip, FSM!TripIds, Announced
<1>4. inbox' = inbox /\ (misled' <=> misled)
  BY <1>1, <1>2, NothingHeard DEF InboxIs
<1>5. Indexed'
  <2>1. ASSUME NEW u \in DOMAIN trips PROVE requestToTrip'[trips[u].requestId] = u
    <3>1. requestToTrip[trips[u].requestId] = u /\ trips[u].requestId # q
      BY <1>1, <1>2, <1>3 DEF Indexed
    <3> QED
      BY <1>2, <1>3, <3>1
  <2>2. ASSUME NEW p \in Requests, requestToTrip'[p] # None
        PROVE  requestToTrip'[p] \in DOMAIN trips' /\ trips'[requestToTrip'[p]].requestId = p
    <3>1. CASE p = q
      BY <1>2, <3>1
    <3>2. CASE p # q
      BY <1>1, <1>2, <2>2, <3>2 DEF Indexed
    <3> QED
      BY <3>1, <3>2
  <2> QED
    BY <1>2, <2>1, <2>2 DEF Indexed
<1>6. /\ view' = view /\ (view # None => view.request \in Requests)
      /\ view # None /\ view.request # q =>
             ViewTrip' = ViewTrip /\ (ViewTrip # None => ViewTrip \in DOMAIN trips)
      /\ view # None /\ view.request = q =>
             ViewTrip' = id /\ ViewTrip = None /\ r = Viewer
  <2>1. view' = view /\ (view # None => view.request \in Requests)
    BY <1>1 DEF ViewIs, Views
  <2>2. view # None /\ view.request # q =>
             ViewTrip' = ViewTrip /\ (ViewTrip # None => ViewTrip \in DOMAIN trips)
    BY <1>1, <1>2, <2>1 DEF ViewTrip, Indexed
  <2>3. view # None /\ view.request = q => ViewTrip' = id /\ ViewTrip = None /\ r = Viewer
    BY <1>2, <2>1 DEF ViewTrip, Drawn
  <2> QED
    BY <2>1, <2>2, <2>3
<1>7. ViewIs'
  <2>1. view # None => (ViewTrip' # None => trips'[ViewTrip'].riderId = Viewer)
    BY <1>1, <1>2, <1>6 DEF ViewIs
  <2> QED
    BY <1>1, <1>3, <1>6, <2>1 DEF ViewIs
<1>8. AskedIs'
  <2>1. \A p \in posted' : p \in posted /\ p # q
    BY DEF Drawn
  <2> QED
    BY <1>1, <1>2, <1>3, <2>1 DEF AskedIs
<1>9. InboxIs'
  <2>1. \A i \in DOMAIN inbox : GoodMsg(inbox[i], trips')
    BY <1>1, <1>2, <1>3 DEF InboxIs, GoodMsg
  <2> QED
    BY <1>1, <1>4, <2>1 DEF InboxIs
<1>10. WordsAre'
  <2>1. LastWord(inbox, id, "requested") /\ loop[id].at # "saving"
    BY <1>1, <1>2 DEF InboxIs, GoodMsg, LastWord, Saved
  <2> QED
    BY <1>1, <1>2, <1>4, <2>1 DEF WordsAre
<1>11. FailsAre'
  BY <1>1, <1>2 DEF FailsAre
<1>12. ShownIs'
  <2>1. view # None => RideStatus' = RideStatus
    BY <1>2, <1>3, <1>6 DEF RideStatus
  <2> QED
    BY <1>1, <1>4, <1>6, <2>1 DEF ShownIs
<1> QED
  BY <1>1, <1>5, <1>7, <1>8, <1>9, <1>10, <1>11, <1>12 DEF ViewInv, DashInv

-----------------------------------------------------------------------------
(* The hook itself *)

\* What does not depend on the hook.
LEMMA ServiceStill ==
  ASSUME Indexed, FailsAre, UNCHANGED vars
  PROVE  /\ Indexed' /\ FailsAre' /\ scenario' = scenario /\ requestToTrip' = requestToTrip
         /\ trips' = trips /\ loop' = loop
BY DEF Indexed, FailsAre, vars, fsmVars, poolVars, simVars

LEMMA ClickRequestView ==
  ASSUME ViewInv, Calm, NEW q \in Requests, ClickRequest(q)
  PROVE  ViewInv'
<1>1. /\ Indexed /\ ViewIs /\ AskedIs /\ InboxIs /\ WordsAre /\ FailsAre /\ ShownIs
      /\ UNCHANGED vars /\ scenario.dashboard
  BY DEF ViewInv, DashInv, Calm, ClickRequest
<1>2. /\ Indexed' /\ FailsAre' /\ scenario' = scenario /\ requestToTrip' = requestToTrip
      /\ trips' = trips /\ loop' = loop
  BY <1>1, ServiceStill
<1>3. /\ requestToTrip[q] = None /\ posted' = posted \cup {q}
      /\ UNCHANGED <<link, cancelSent, cancelDone, inbox>>
  BY DEF ClickRequest
<1>4. /\ view' \in Views /\ view'.request = q /\ view'.status = "requested"
      /\ view'.trip = None
  BY DEF ClickRequest, Views, FSM!TripStatus
<1>5. view' # None /\ ViewTrip' = None
  BY <1>2, <1>3, <1>4, ViewerAssumption DEF ViewTrip
<1>6. ViewIs' /\ ShownIs'
  BY <1>4, <1>5 DEF ViewIs, ShownIs, RideStatus
<1>7. AskedIs'
  BY <1>1, <1>2, <1>3, <1>5 DEF AskedIs
<1>8. InboxIs' /\ WordsAre'
  BY <1>1, <1>2, <1>3 DEF InboxIs, WordsAre
<1> QED
  BY <1>1, <1>2, <1>6, <1>7, <1>8 DEF ViewInv, DashInv

\* The view is cancelled by the hook.
LEMMA CancelViewKeeps ==
  ASSUME ViewIs, view # None, CancelView, trips' = trips, requestToTrip' = requestToTrip
  PROVE  ViewIs' /\ ShownIs' /\ view' # None
<1>1. /\ view \in Views /\ view' = [view EXCEPT !.status = "cancelled"] /\ ownCancel' = TRUE
      /\ view.trip # None => Announced(view.trip, trips)
      /\ ViewTrip # None => trips[ViewTrip].riderId = Viewer
  BY DEF ViewIs, CancelView
<1>2. /\ view' \in Views /\ view'.status = "cancelled" /\ view'.trip = view.trip
      /\ view'.request = view.request
  BY <1>1 DEF Views, FSM!TripStatus, FSM!Terminal
<1>3. ViewTrip' = ViewTrip /\ view' # None
  BY <1>2, ViewerAssumption DEF ViewTrip
<1> QED
  BY <1>1, <1>2, <1>3 DEF ViewIs, ShownIs

LEMMA ClickCancelView ==
  ASSUME ViewInv, Calm, ClickCancel
  PROVE  ViewInv'
<1>1. /\ Indexed /\ ViewIs /\ AskedIs /\ InboxIs /\ WordsAre /\ FailsAre /\ ShownIs
      /\ UNCHANGED vars /\ scenario.dashboard
  BY DEF ViewInv, DashInv, Calm, ClickCancel
<1>2. /\ Indexed' /\ FailsAre' /\ scenario' = scenario /\ requestToTrip' = requestToTrip
      /\ trips' = trips /\ loop' = loop
  BY <1>1, ServiceStill
<1>3. view # None /\ UNCHANGED <<link, posted, cancelDone, inbox, misled>>
  BY DEF ClickCancel, NoRideShown
<1>4. InboxIs' /\ WordsAre'
  BY <1>1, <1>2, <1>3 DEF InboxIs, WordsAre
<1>5. CASE view.trip = None
  <2>1. CancelView /\ cancelSent' = cancelSent
    BY <1>5 DEF ClickCancel
  <2>2. ViewIs' /\ ShownIs' /\ view' # None
    BY <1>1, <1>2, <1>3, <2>1, CancelViewKeeps
  <2>3. AskedIs'
    BY <1>1, <1>2, <1>3, <2>1, <2>2 DEF AskedIs
  <2> QED
    BY <1>1, <1>2, <1>4, <2>2, <2>3 DEF ViewInv, DashInv
<1>6. CASE view.trip # None
  <2>1. cancelSent' = cancelSent \cup {view.trip} /\ view' = view /\ ownCancel' = ownCancel
    BY <1>6 DEF ClickCancel
  <2>2. ViewTrip' = ViewTrip
    BY <1>2, <2>1 DEF ViewTrip
  <2>3. ViewIs' /\ ShownIs'
    BY <1>1, <1>2, <1>3, <2>1, <2>2 DEF ViewIs, ShownIs, RideStatus
  <2>4. AskedIs'
    BY <1>1, <1>2, <1>3, <1>6, <2>1 DEF AskedIs, ViewIs
  <2> QED
    BY <1>1, <1>2, <1>4, <2>3, <2>4 DEF ViewInv, DashInv
<1> QED
  BY <1>5, <1>6

LEMMA CancelAnsweredView ==
  ASSUME ViewInv, Calm, NEW t, CancelAnswered(t)
  PROVE  ViewInv'
<1>1. /\ Indexed /\ ViewIs /\ AskedIs /\ InboxIs /\ WordsAre /\ FailsAre /\ ShownIs
      /\ UNCHANGED vars /\ scenario.dashboard
  BY DEF ViewInv, DashInv, Calm, CancelAnswered
<1>2. /\ Indexed' /\ FailsAre' /\ scenario' = scenario /\ requestToTrip' = requestToTrip
      /\ trips' = trips /\ loop' = loop
  BY <1>1, ServiceStill
<1>3. /\ view # None /\ CancelView
      /\ UNCHANGED <<link, posted, cancelSent, inbox, misled>>
  BY <1>1 DEF CancelAnswered, AskedIs
<1>4. InboxIs' /\ WordsAre'
  BY <1>1, <1>2, <1>3 DEF InboxIs, WordsAre
<1>5. ViewIs' /\ ShownIs' /\ view' # None
  BY <1>1, <1>2, <1>3, CancelViewKeeps
<1>6. AskedIs'
  BY <1>1, <1>2, <1>3, <1>5 DEF AskedIs
<1> QED
  BY <1>1, <1>2, <1>4, <1>5, <1>6 DEF ViewInv, DashInv

LEMMA ConnectView ==
  ASSUME ViewInv, Calm, Connect
  PROVE  ViewInv'
<1>1. /\ Indexed /\ ViewIs /\ AskedIs /\ InboxIs /\ WordsAre /\ FailsAre /\ ShownIs
      /\ UNCHANGED vars /\ scenario.dashboard
  BY DEF ViewInv, DashInv, Calm, Connect
<1>2. /\ Indexed' /\ FailsAre' /\ scenario' = scenario /\ requestToTrip' = requestToTrip
      /\ trips' = trips /\ loop' = loop
  BY <1>1, ServiceStill
<1>3. UNCHANGED <<view, posted, cancelSent, cancelDone, ownCancel, inbox, misled>> /\ link # "connected"
  BY DEF Connect, httpVars
<1>4. InboxIs' /\ WordsAre' /\ AskedIs'
  BY <1>1, <1>2, <1>3 DEF InboxIs, WordsAre, AskedIs
<1>5. ViewTrip' = ViewTrip
  BY <1>2, <1>3 DEF ViewTrip
<1>6. ViewIs' /\ ShownIs'
  BY <1>1, <1>2, <1>3, <1>5 DEF ViewIs, ShownIs, RideStatus
<1> QED
  BY <1>1, <1>2, <1>4, <1>6 DEF ViewInv, DashInv

LEMMA LoseLinkView ==
  ASSUME ViewInv, Calm, LoseLink
  PROVE  ViewInv'
<1>1. /\ Indexed /\ ViewIs /\ AskedIs /\ InboxIs /\ WordsAre /\ FailsAre /\ ShownIs
      /\ UNCHANGED vars /\ scenario.dashboard
  BY DEF ViewInv, DashInv, Calm, LoseLink
<1>2. /\ Indexed' /\ FailsAre' /\ scenario' = scenario /\ requestToTrip' = requestToTrip
      /\ trips' = trips /\ loop' = loop
  BY <1>1, ServiceStill
<1>3. /\ UNCHANGED <<view, posted, cancelSent, cancelDone, ownCancel>> /\ inbox' = <<>>
      /\ misled' = (misled \/ inbox # <<>>)
  BY DEF LoseLink, httpVars
<1>4. InboxIs' /\ WordsAre' /\ AskedIs'
  BY <1>1, <1>2, <1>3 DEF InboxIs, WordsAre, AskedIs, LastWord
<1>5. ViewTrip' = ViewTrip /\ (~misled' => ~misled /\ inbox = <<>>)
  BY <1>2, <1>3 DEF ViewTrip
<1>6. ViewIs' /\ ShownIs'
  BY <1>1, <1>2, <1>3, <1>5 DEF ViewIs, ShownIs, RideStatus
<1> QED
  BY <1>1, <1>2, <1>4, <1>6 DEF ViewInv, DashInv

\* A message sets fields of the view, and makes it no worse.
LEMMA AppliedIs ==
  ASSUME NEW v \in Views, NEW m \in Msgs
  PROVE  /\ Applied(v, m) \in Views
         /\ Applied(v, m).request = v.request
         /\ Applied(v, m).status = m.sets.status
         /\ \/ Applied(v, m).trip = v.trip
            \/ "trip" \in DOMAIN m.sets /\ Applied(v, m).trip = m.sets.trip
<1> DEFINE a == Applied(v, m)
<1>1. v # None /\ DOMAIN v = {"trip", "request", "status", "driver"}
  BY ViewerAssumption DEF Views
<1>2. a = [f \in {"trip", "request", "status", "driver"} |->
              IF f \in DOMAIN m.sets THEN m.sets[f] ELSE v[f]]
  BY <1>1 DEF Applied
<1>3. /\ v.trip \in FSM!TripIds \cup {None} /\ v.request \in Requests
      /\ v.status \in FSM!TripStatus /\ v.driver \in Drivers \cup {None}
  BY DEF Views
<1>4. /\ "status" \in DOMAIN m.sets /\ m.sets.status \in FSM!TripStatus
      /\ "request" \notin DOMAIN m.sets
      /\ "driver" \in DOMAIN m.sets => m.sets.driver \in Drivers
      /\ "trip" \in DOMAIN m.sets => m.sets.trip \in FSM!TripIds
  <2>1. CASE m.sets \in [status : FSM!TripStatus]
    BY <2>1
  <2>2. CASE m.sets \in [status : FSM!TripStatus, driver : Drivers]
    BY <2>2
  <2>3. CASE m.sets \in [status : FSM!TripStatus, driver : Drivers, trip : FSM!TripIds]
    BY <2>3
  <2> QED
    BY <2>1, <2>2, <2>3 DEF Msgs
<1>5. /\ a.trip = IF "trip" \in DOMAIN m.sets THEN m.sets.trip ELSE v.trip
      /\ a.request = v.request /\ a.status = m.sets.status
      /\ a.driver = IF "driver" \in DOMAIN m.sets THEN m.sets.driver ELSE v.driver
  BY <1>2, <1>4
<1>6. a = [trip |-> a.trip, request |-> a.request, status |-> a.status, driver |-> a.driver]
  BY <1>2
<1>7. /\ a.trip \in FSM!TripIds \cup {None} /\ a.request \in Requests
      /\ a.status \in FSM!TripStatus /\ a.driver \in Drivers \cup {None}
  BY <1>3, <1>4, <1>5
<1> HIDE DEF a
<1>8. a \in Views
  BY <1>6, <1>7 DEF Views
<1> QED
  BY <1>5, <1>8 DEF a

LEMMA ReceiveView ==
  ASSUME ViewInv, Calm, Receive
  PROVE  ViewInv'
<1> DEFINE m == Head(inbox)
           w == Tail(inbox)
<1>1. /\ Indexed /\ ViewIs /\ AskedIs /\ InboxIs /\ WordsAre /\ FailsAre /\ ShownIs
      /\ UNCHANGED vars /\ scenario.dashboard
  BY DEF ViewInv, DashInv, Calm, Receive
<1>2. /\ Indexed' /\ FailsAre' /\ scenario' = scenario /\ requestToTrip' = requestToTrip
      /\ trips' = trips /\ loop' = loop
  BY <1>1, ServiceStill
<1>3. /\ inbox # <<>> /\ inbox' = w /\ view' = Applied(view, m)
      /\ UNCHANGED <<link, posted, cancelSent, cancelDone, ownCancel>>
      /\ ~misled' => ~OfAnotherRide(m)
  BY DEF Receive, httpVars
<1>4. /\ inbox \in Seq(Msgs) /\ w \in Seq(Msgs) /\ m = inbox[1] /\ 1 \in DOMAIN inbox
      /\ m \in Msgs /\ \A i \in DOMAIN w : w[i] = inbox[i + 1] /\ i + 1 \in DOMAIN inbox
  BY <1>1, <1>3 DEF InboxIs
<1>5. GoodMsg(m, trips) /\ m.about \in DOMAIN trips
  BY <1>1, <1>4 DEF InboxIs, GoodMsg
<1>6. \A u \in DOMAIN trips : trips[u].riderId = Viewer =>
          /\ LastWord(w, u, trips[u].status)
          /\ w = <<>> /\ m.about = u => m.sets.status = trips[u].status
  BY <1>1, <1>3, <1>4, LastWordTail DEF WordsAre
<1> HIDE DEF m, w
<1>7. InboxIs'
  BY <1>1, <1>2, <1>3, <1>4 DEF InboxIs
<1>8. WordsAre'
  BY <1>1, <1>2, <1>3, <1>6 DEF WordsAre
<1>9. CASE view = None
  <2>1. view' = None
    BY <1>3, <1>9 DEF Applied
  <2> QED
    BY <1>1, <1>2, <1>3, <1>7, <1>8, <1>9, <2>1 DEF ViewInv, DashInv, ViewIs, ShownIs, AskedIs
<1>10. CASE view # None
  <2>1. view \in Views
    BY <1>1, <1>10 DEF ViewIs
  <2>2. /\ view' \in Views /\ view'.request = view.request /\ view'.status = m.sets.status
        /\ \/ view'.trip = view.trip
           \/ "trip" \in DOMAIN m.sets /\ view'.trip = m.sets.trip
    BY <1>3, <1>4, <2>1, AppliedIs
  <2>3. ViewTrip' = ViewTrip /\ view' # None
    BY <1>2, <2>2, ViewerAssumption DEF ViewTrip
  <2>4. view'.trip # None => Announced(view'.trip, trips)
    BY <1>1, <1>5, <1>10, <2>2 DEF ViewIs, GoodMsg
  <2>5. ViewIs'
    BY <1>1, <1>2, <1>10, <2>2, <2>3, <2>4 DEF ViewIs
  <2>6. AskedIs'
    BY <1>1, <1>2, <1>3, <2>3 DEF AskedIs
  <2>7. ASSUME w = <<>>, ~misled'
        PROVE  view'.status = RideStatus
    <3>1. trips[m.about].requestId = view.request
      BY <1>3, <1>10, <2>7 DEF OfAnotherRide
    <3>2. ViewTrip = m.about
      BY <1>1, <1>5, <3>1 DEF Indexed, ViewTrip
    <3>3. m.about # None
      BY <1>4, SimulatorAssumption DEF Msgs, FSM!TripIds
    <3>4. trips[m.about].riderId = Viewer
      BY <1>1, <1>10, <3>2, <3>3 DEF ViewIs
    <3> QED
      BY <1>5, <1>6, <2>2, <2>7, <3>2, <3>3, <3>4 DEF RideStatus
  <2>8. ShownIs'
    <3>1. RideStatus' = RideStatus
      BY <1>2, <2>3 DEF RideStatus
    <3> QED
      BY <1>3, <2>7, <3>1 DEF ShownIs
  <2> QED
    BY <1>1, <1>2, <1>7, <1>8, <2>5, <2>6, <2>8 DEF ViewInv, DashInv
<1> QED
  BY <1>9, <1>10

-----------------------------------------------------------------------------
(* The service and the hook together *)

\* The rider of a dashboard orders and cancels nothing beside it: a ride that another
\* client cancels between its commit and its save is announced as matched after that.
OwnDashboard == \A s \in Scenarios : s.dashboard => Viewer \notin s.riders

LEMMA OfferSendable ==
  ASSUME SimInv, NEW t \in FSM!TripIds, NEW d \in Drivers, Offer(t, d)
  PROVE  Sendable(<<OfferMsg(t, d)>>)
<1> DEFINE m == OfferMsg(t, d)
<1>1. /\ t \in DOMAIN trips /\ trips' = trips /\ trips[t].status = "matching"
  <2>1. Launched(t) /\ loop[t].at = "top" /\ fsmVars' = fsmVars /\ trips[t].status = "matching"
    BY SimFacts, OfferOn DEF Offer
  <2> QED
    BY <2>1 DEF Launched, fsmVars
<1>2. /\ m \in Msgs /\ m.about = t /\ m.sets.status = "matching"
      /\ "status" \in DOMAIN m.sets /\ "request" \notin DOMAIN m.sets /\ "trip" \notin DOMAIN m.sets
  BY DEF OfferMsg, Msgs, FSM!TripStatus
<1> HIDE DEF m
<1>3. <<m>> \in Seq(Msgs) /\ \A i \in DOMAIN <<m>> : <<m>>[i] = m
  BY <1>2
<1>4. GoodMsg(m, trips')
  BY <1>1, <1>2 DEF GoodMsg
<1> QED
  BY <1>1, <1>2, <1>3, <1>4 DEF Sendable, m

LEMMA FailSendable ==
  ASSUME SimInv, FailsAre, NEW t \in FSM!TripIds, FailReply(t)
  PROVE  Sendable(<<FailedMsg(t)>>)
<1> DEFINE m == FailedMsg(t)
<1>1. t \in DOMAIN trips /\ trips' = trips /\ trips[t].status = "cancelled"
  <2>1. Occurs(wire, FailCall(t)) /\ fsmVars' = fsmVars
    BY FailReplyOn
  <2> QED
    BY <2>1 DEF FailsAre, fsmVars
<1>2. /\ m \in Msgs /\ m.about = t /\ m.sets.status = "cancelled"
      /\ "status" \in DOMAIN m.sets /\ "request" \notin DOMAIN m.sets /\ "trip" \notin DOMAIN m.sets
  BY DEF FailedMsg, Msgs, FSM!TripStatus, FSM!Terminal
<1> HIDE DEF m
<1>3. <<m>> \in Seq(Msgs) /\ \A i \in DOMAIN <<m>> : <<m>>[i] = m
  BY <1>2
<1>4. GoodMsg(m, trips')
  BY <1>1, <1>2 DEF GoodMsg
<1> QED
  BY <1>1, <1>2, <1>3, <1>4 DEF Sendable, m

LEMMA MatchedSendable ==
  ASSUME SimInv, WordsAre, NEW t \in FSM!TripIds, SaveReply(t)
  PROVE  Sendable(<<MatchedMsg(t, loop[t].driver)>>)
<1> DEFINE d == loop[t].driver
           m == MatchedMsg(t, d)
<1>1. /\ t \in DOMAIN trips /\ t \in DOMAIN trips' /\ d \in Drivers /\ loop[t].at = "saving"
      /\ trips'[t].status \in Late
      /\ trips[t].status = "matched" => trips'[t].status = "en_route"
  BY SaveReplyOn DEF ServiceOn, TripsOn
<1>2. Announced(t, trips')
  BY <1>1 DEF Announced
<1>3. trips[t].riderId = Viewer => trips[t].status # trips'[t].status
  BY <1>1 DEF WordsAre
<1> HIDE DEF d
<1>4. /\ m \in Msgs /\ m.about = t /\ m.sets.trip = t
      /\ "status" \in DOMAIN m.sets /\ "request" \notin DOMAIN m.sets
  <2> DEFINE sets == [status |-> "matched", driver |-> d, trip |-> t]
  <2>1. sets \in [status : FSM!TripStatus, driver : Drivers, trip : FSM!TripIds]
    BY <1>1 DEF FSM!TripStatus, FSM!Assigned
  <2>2. sets.trip = t /\ DOMAIN sets = {"status", "driver", "trip"}
    OBVIOUS
  <2> HIDE DEF sets
  <2>3. m = [about |-> t, sets |-> sets]
    BY DEF MatchedMsg, sets
  <2>4. m \in Msgs
    BY <2>1, <2>3 DEF Msgs
  <2> HIDE DEF m
  <2> QED
    BY <2>2, <2>3, <2>4
<1> HIDE DEF m
<1>5. <<m>> \in Seq(Msgs) /\ \A i \in DOMAIN <<m>> : <<m>>[i] = m
  BY <1>4
<1>6. GoodMsg(m, trips')
  BY <1>1, <1>2, <1>4 DEF GoodMsg
<1> QED
  BY <1>3, <1>4, <1>5, <1>6 DEF Sendable, m, d

LEMMA ServiceStepView ==
  ASSUME SimInv, SimInv', ViewInv, Calm, SavesOn, ServiceStep, UNCHANGED hookVars, scenario' = scenario
  PROVE  ViewInv'
<1>1. /\ WordsAre /\ FailsAre
      /\ UNCHANGED <<view, link, ownCancel, scenario, posted, cancelSent, cancelDone>>
      /\ view = None => cancelDone = {}
  BY DEF ViewInv, DashInv, AskedIs, hookVars, httpVars
<1>2. ASSUME NEW msgs, Sendable(msgs), Broadcast(msgs), ServiceOn({}) PROVE ViewInv'
  BY <1>1, <1>2, ServiceHeard
<1>3. ASSUME NEW t \in FSM!TripIds, NEW d \in Drivers, Offer(t, d), Broadcast(<<OfferMsg(t, d)>>)
      PROVE  ViewInv'
  BY <1>2, <1>3, OfferOn, OfferSendable
<1>4. ASSUME NEW t \in FSM!TripIds, SaveReply(t), Broadcast(<<MatchedMsg(t, loop[t].driver)>>)
      PROVE  ViewInv'
  BY <1>1, <1>2, <1>4, SaveReplyOn, MatchedSendable
<1>5. ASSUME NEW t \in FSM!TripIds, FailReply(t), Broadcast(<<FailedMsg(t)>>)
      PROVE  ViewInv'
  BY <1>1, <1>2, <1>5, FailReplyOn, FailSendable
<1>6. ASSUME Broadcast(<<>>), NEW t \in FSM!TripIds,
             \/ BeginMatching(t) \/ LoopAborted(t) \/ Respond(t) \/ CommitReply(t)
             \/ LeftBoardingOver(t) \/ \E d \in Drivers : FreeReply(t, d)
      PROVE  ViewInv'
  <2>1. ServiceOn({})
    BY <1>6, BeginMatchingOn, LoopAbortedOn, RespondOn, CommitReplyOn, LeftBoardingOverOn, FreeReplyOn
  <2> QED
    BY <1>2, <1>6, <2>1, Silence
<1>7. ASSUME Broadcast(<<>>), NEW t \in FSM!TripIds, GiveUp(t) PROVE ViewInv'
  <2>1. ServiceOn({t}) /\ \A u \in {t} : ~(u \in DOMAIN trips /\ loop[u].at = "saving")
    BY <1>7, GiveUpOn
  <2> QED
    BY <1>1, <1>7, <2>1, Silence, ServiceHeard
<1>8. ASSUME Broadcast(<<>>), NEW d \in Drivers, DriverStep(d) PROVE ViewInv'
  BY <1>2, <1>8, DriverStepOn, Silence
<1>9. ASSUME Broadcast(<<>>), ResetReply PROVE ViewInv'
  BY <1>2, <1>9, ResetReplyOn, Silence
<1> QED
  BY <1>3, <1>4, <1>5, <1>6, <1>7, <1>8, <1>9 DEF ServiceStep

LEMMA OtherRidersView ==
  ASSUME SimInv, SimInv', ViewInv, Calm, SavesOn, Viewer \notin scenario.riders, OtherRiders,
         UNCHANGED hookVars, scenario' = scenario
  PROVE  ViewInv'
<1>1. /\ UNCHANGED <<view, link, ownCancel, scenario, posted, cancelSent, cancelDone>>
      /\ view = None => cancelDone = {}
  BY DEF ViewInv, DashInv, AskedIs, hookVars, httpVars
<1>2. Broadcast(<<>>)
  BY DEF OtherRiders
<1>3. ASSUME NEW q \in Requests, NEW r \in scenario.riders, ~Drawn(q), RequestRide(q, r)
      PROVE  ViewInv'
  <2>1. r \in Riders
    BY SimFacts, SimulatorAssumption DEF SimTyped
  <2> QED
    BY <1>1, <1>2, <1>3, <2>1, Created
<1>4. ASSUME NEW t \in DOMAIN trips, trips[t].riderId \in scenario.riders, CancelRide(t)
      PROVE  ViewInv'
  <2>1. t \in FSM!TripIds
    BY SimFacts, TripIs
  <2>2. ServiceOn({t}) /\ \A u \in {t} : trips[u].riderId # Viewer
    BY <1>4, <2>1, CancelRideOn
  <2> QED
    BY <1>1, <1>2, <2>2, Silence, ServiceHeard
<1>5. ASSUME NEW t \in DOMAIN trips, RepeatCancel(t) PROVE ViewInv'
  BY <1>1, <1>2, <1>5, RepeatCancelOn, Silence, ServiceHeard
<1> QED
  BY <1>3, <1>4, <1>5 DEF OtherRiders

\* A panel moves a trip whose match was announced.
LEMMA PanelClickView ==
  ASSUME SimInv, SimInv', ViewInv, Calm, SavesOn, PanelClick, UNCHANGED hookVars,
         scenario' = scenario
  PROVE  ViewInv'
<1>1. /\ UNCHANGED <<view, link, ownCancel, scenario, posted, cancelSent, cancelDone>>
      /\ view = None => cancelDone = {}
  BY DEF ViewInv, DashInv, AskedIs, hookVars, httpVars
<1>2. ServiceOn({}) /\ Broadcast(<<>>)
  BY DriverActionOn DEF PanelClick
<1> QED
  BY <1>1, <1>2, Silence, ServiceHeard

LEMMA PostArrivesView ==
  ASSUME SimInv, SimInv', ViewInv, Calm, SavesOn, NEW q \in Requests, PostArrives(q),
         scenario' = scenario
  PROVE  ViewInv'
<1>1. /\ UNCHANGED <<view, link, ownCancel, scenario, cancelSent, cancelDone>>
      /\ q \in posted /\ posted' = posted \ {q} /\ Broadcast(<<>>)
      /\ view = None => cancelDone = {}
  BY DEF ViewInv, DashInv, AskedIs, PostArrives
<1>2. CASE RequestRide(q, Viewer)
  BY <1>1, <1>2, ViewerAssumption, Created
<1>3. CASE UNCHANGED vars
  <2>1. ServiceOn({})
    BY <1>3, SameTripsOn, SameFailsOn DEF ServiceOn, LoopsOn, vars, poolVars
  <2>2. posted' \subseteq posted
    BY <1>1
  <2> QED
    BY <1>1, <2>1, <2>2, Silence, ServiceHeard
<1> QED
  BY <1>2, <1>3 DEF PostArrives

LEMMA CancelArrivesView ==
  ASSUME SimInv, SimInv', ViewInv, Calm, SavesOn, NEW t \in FSM!TripIds, CancelArrives(t),
         scenario' = scenario
  PROVE  ViewInv'
<1>1. /\ UNCHANGED <<view, link, ownCancel, scenario, posted>>
      /\ t \in cancelSent /\ cancelSent' \subseteq cancelSent /\ Broadcast(<<>>)
      /\ view # None /\ Announced(t, trips) /\ WordsAre
  BY DEF ViewInv, DashInv, AskedIs, CancelArrives
<1>2. CASE CancelRide(t)
  <2>1. ServiceOn({t})
    BY <1>2, CancelRideOn
  <2>2. \A u \in {t} : u \in DOMAIN trips /\ loop[u].at = "saving" => trips[u].riderId # Viewer
    BY <1>1 DEF Announced, Late, WordsAre
  <2> QED
    BY <1>1, <2>1, <2>2, Silence, ServiceHeard
<1>3. CASE UNCHANGED vars
  <2>1. ServiceOn({})
    BY <1>3, SameTripsOn, SameFailsOn DEF ServiceOn, LoopsOn, vars, poolVars
  <2> QED
    BY <1>1, <2>1, Silence, ServiceHeard
<1>4. CASE RepeatCancel(t)
  BY <1>1, <1>4, RepeatCancelOn, Silence, ServiceHeard
<1> QED
  BY <1>2, <1>3, <1>4 DEF CancelArrives

LEMMA HookStepView ==
  ASSUME ViewInv, Calm, HookStep
  PROVE  ViewInv'
BY ClickRequestView, ClickCancelView, CancelAnsweredView, ReceiveView, ConnectView, LoseLinkView
   DEF HookStep

LEMMA StutterView ==
  ASSUME ViewInv, UNCHANGED allVars
  PROVE  ViewInv'
<1>1. /\ UNCHANGED vars /\ UNCHANGED <<view, link, posted, cancelSent, cancelDone, ownCancel>>
      /\ inbox' = inbox /\ misled' = misled
  BY DEF allVars, hookVars, httpVars
<1>2. /\ scenario' = scenario /\ requestToTrip' = requestToTrip /\ resets' = resets
      /\ trips' = trips /\ loop' = loop /\ wire' = wire
  BY <1>1 DEF vars, fsmVars, poolVars, simVars
<1>3. ViewTrip' = ViewTrip /\ RideStatus' = RideStatus /\ Calm' = Calm
  BY <1>1, <1>2 DEF ViewTrip, RideStatus, Calm
<1> QED
  BY <1>1, <1>2, <1>3 DEF ViewInv, DashInv, Indexed, ViewIs, AskedIs, InboxIs, WordsAre, FailsAre, ShownIs

\* The scenario stays, and only a reset counts as one.
LEMMA ScenarioStays ==
  ASSUME SimInv, [NextView]_allVars
  PROVE  scenario' = scenario /\ (ResetRegion \/ resets' = resets)
<1>1. [AnyonesNext]_vars
  BY ViewStep
<1>2. ASSUME NEW t \in FSM!TripIds, LoopStep(t) \/ Respond(t) \/ LeftBoardingOver(t)
      PROVE  scenario' = scenario /\ resets' = resets
  BY <1>2 DEF LoopStep, Respond, LeftBoardingOver, BeginMatching, Offer, GiveUp, LoopAborted,
              Accept, Decline, simVars
<1>3. ASSUME RedisAnswers PROVE scenario' = scenario /\ resets' = resets
  BY <1>3 DEF RedisAnswers, CommitReply, SaveReply, FailReply, FreeReply, ResetReply, simVars
<1>4. ASSUME NEW d \in Drivers, DriverStep(d) PROVE scenario' = scenario /\ resets' = resets
  BY <1>4 DEF DriverStep, ReachPickup, BoardingOver, ReachDropoff
<1>5. ASSUME NEW t \in FSM!TripIds, CancelRide(t) \/ RepeatCancel(t) \/ DriverAction(t)
      PROVE  scenario' = scenario /\ resets' = resets
  BY <1>5 DEF CancelRide, RepeatCancel, DriverAction, ReportMilestone, ReportCompletion, simVars
<1>6. ASSUME NEW q, NEW r, RequestRide(q, r) PROVE scenario' = scenario /\ resets' = resets
  BY <1>6 DEF RequestRide, simVars
<1>7. CASE ResetRegion
  BY <1>7 DEF ResetRegion
<1>8. CASE UNCHANGED vars
  BY <1>8 DEF vars, simVars
<1> QED
  BY <1>1, <1>2, <1>3, <1>4, <1>5, <1>6, <1>7, <1>8 DEF AnyonesNext, Next

LEMMA NextViewInv ==
  ASSUME OwnDashboard, SimInv, SimInv', ViewInv, [NextView]_allVars
  PROVE  ViewInv'
<1>1. scenario' = scenario /\ (ResetRegion \/ resets' = resets) /\ resets \in Nat
      /\ scenario \in Scenarios
  BY ScenarioStays, SimFacts DEF SimTyped
<1>2. CASE scenario.dashboard /\ Calm'
  <2>1. Calm /\ ~ResetRegion /\ Viewer \notin scenario.riders
    BY <1>1, <1>2 DEF Calm, ResetRegion, OwnDashboard
  <2>2. ~Reseed
    BY <2>1 DEF Reseed
  <2>3. SavesOn
    BY <2>1, SavesStay DEF Calm
  <2> QED
    BY <1>1, <2>1, <2>2, <2>3, ServiceStepView, OtherRidersView, PanelClickView,
       PostArrivesView, CancelArrivesView, HookStepView, StutterView DEF NextView
<1>3. CASE scenario.dashboard /\ ~Calm'
  BY <1>1, <1>3 DEF ViewInv
<1>4. CASE ~scenario.dashboard
  <2>1. view = None /\ cancelSent = {} /\ cancelDone = {} /\ ~Calm'
    BY <1>1, <1>4 DEF ViewInv, Calm
  <2>2. view' = None /\ cancelSent' = {} /\ cancelDone' = {}
    <3>1. CASE UNCHANGED hookVars \/ UNCHANGED allVars
      BY <2>1, <3>1 DEF hookVars, httpVars, allVars
    <3>2. CASE \E q \in Requests : PostArrives(q)
      BY <2>1, <3>2 DEF PostArrives
    <3>3. CASE \E t \in FSM!TripIds : CancelArrives(t)
      BY <2>1, <3>3 DEF CancelArrives
    <3>4. CASE HookStep
      BY <1>4, <2>1, <3>4
         DEF HookStep, ClickRequest, ClickCancel, CancelAnswered, Receive, Connect, LoseLink,
             NoRideShown, Applied, httpVars
    <3> QED
      BY <3>1, <3>2, <3>3, <3>4 DEF NextView
  <2> QED
    BY <2>1, <2>2 DEF ViewInv
<1> QED
  BY <1>2, <1>3, <1>4

LEMMA InitViewInv == InitView => ViewInv
<1> SUFFICES ASSUME InitView PROVE ViewInv
  OBVIOUS
<1>1. /\ view = None /\ link = "connecting" /\ inbox = <<>> /\ posted = {}
      /\ cancelSent = {} /\ cancelDone = {} /\ Init
  BY DEF InitView
<1>2. /\ \A u : u \notin DOMAIN trips
      /\ \A q \in Requests : requestToTrip[q] = None
      /\ wire = <<>>
  BY <1>1 DEF Init, FSM!Init
<1> QED
  BY <1>1, <1>2 DEF ViewInv, DashInv, Indexed, ViewIs, AskedIs, InboxIs, WordsAre, FailsAre,
                    ShownIs, Occurs

\* Until the first reset of the region, what the hook shows, what is posted and what is
\* under way to the hook agree with the trips of the state machine, however the service,
\* the clicks, the answers and the losses of the socket interleave.
THEOREM ViewInvariant == OwnDashboard => (ViewSpec => []ViewInv)
<1>1. SUFFICES ASSUME OwnDashboard PROVE ViewSpec => []ViewInv
  OBVIOUS
<1>2. SimInv /\ SimInv' /\ ViewInv /\ [NextView]_allVars => ViewInv'
  BY <1>1, NextViewInv
<1> QED
  BY <1>2, InitViewInv, SimulatorInvariantBelowView, PTL DEF ViewSpec

\* A hook that has read its messages shows the ride as it is, or as cancelled by its own
\* click, unless a message was lost or was about another ride, or the region was reset:
\* handleMessage, which compares no ids, against the order of the broadcasts of the
\* matching service, the state machine and the simulator.
THEOREM ViewIsCurrentHolds == OwnDashboard => (ViewSpec => []ViewIsCurrent)
<1>1. SUFFICES ASSUME OwnDashboard PROVE ViewSpec => []ViewIsCurrent
  OBVIOUS
<1>2. ViewInv => ViewIsCurrent
  BY DEF ViewInv, ViewIsCurrent, DashInv, ShownIs, RideStatus, Calm, Quiet
<1>3. ViewSpec => []ViewInv
  BY <1>1, ViewInvariant
<1> QED
  BY <1>2, <1>3, PTL

\* A hook that has read its messages shows a ride as cancelled that is not over only if
\* it wrote that status itself, after a click: no order of the messages about a ride
\* ends it for the user alone.  What the run cancel_click refutes takes cancelActiveRide,
\* which overwrites the status whatever the server made of the request.
THEOREM CancelledIsOverUnlessWritten ==
  OwnDashboard => (ViewSpec => [](resets = 0 /\ ~ownCancel => CancelledIsOver))
<1>1. SUFFICES ASSUME OwnDashboard
               PROVE  ViewSpec => [](resets = 0 /\ ~ownCancel => CancelledIsOver)
  OBVIOUS
<1>2. ViewIsCurrent => (resets = 0 /\ ~ownCancel => CancelledIsOver)
  BY DEF ViewIsCurrent, CancelledIsOver, FSM!ActiveTrips, FSM!Terminal
<1>3. ViewSpec => []ViewIsCurrent
  BY <1>1, ViewIsCurrentHolds
<1> QED
  BY <1>2, <1>3, PTL

==============================================================================
