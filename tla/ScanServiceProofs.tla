-------------------------- MODULE ScanServiceProofs -------------------------
(***************************************************************************)
(* Where an address of a scan is, for any number of workers and addresses  *)
(* and any consumer: the inductive invariant of a scan, and what it implies *)
(* of the results and of the back-pressure.                                *)
(***************************************************************************)
EXTENDS ScanService, FiniteSetTheorems, TLAPS

----------------------------------------------------------------------------
(* Sequences without duplicates.                                           *)

Elems(s) == {s[i] : i \in DOMAIN s}
Distinct(s) == \A i, j \in DOMAIN s : s[i] = s[j] => i = j

\* put_nowait() of an element that is not in the queue.
LEMMA Put_Elems ==
    ASSUME NEW S, NEW s \in Seq(S), NEW e \in S
    PROVE  /\ Append(s, e) \in Seq(S) /\ Len(Append(s, e)) = Len(s) + 1
           /\ Elems(Append(s, e)) = Elems(s) \cup {e}
           /\ Distinct(s) /\ e \notin Elems(s) => Distinct(Append(s, e))
<1>1. /\ Append(s, e) \in Seq(S) /\ Len(Append(s, e)) = Len(s) + 1
      /\ Len(s) \in Nat /\ DOMAIN s = 1 .. Len(s)
      /\ DOMAIN Append(s, e) = 1 .. Len(s) + 1
  OBVIOUS
<1>2. \A i \in 1 .. Len(s) : Append(s, e)[i] = s[i]
  OBVIOUS
<1>3. Append(s, e)[Len(s) + 1] = e
  OBVIOUS
<1>4. \A i \in 1 .. Len(s) + 1 : i \in 1 .. Len(s) \/ i = Len(s) + 1
  BY <1>1
<1>5. Elems(Append(s, e)) = Elems(s) \cup {e}
  BY <1>1, <1>2, <1>3, <1>4 DEF Elems
<1>6. ASSUME Distinct(s), e \notin Elems(s) PROVE Distinct(Append(s, e))
  BY <1>1, <1>2, <1>3, <1>4, <1>6 DEF Elems, Distinct
<1> QED
  BY <1>1, <1>5, <1>6

\* get_nowait().
LEMMA Get_Elems ==
    ASSUME NEW S, NEW s \in Seq(S), s # <<>>
    PROVE  /\ Head(s) \in S /\ Tail(s) \in Seq(S) /\ Len(Tail(s)) = Len(s) - 1
           /\ Elems(s) = {Head(s)} \cup Elems(Tail(s))
           /\ Distinct(s) => Distinct(Tail(s)) /\ Head(s) \notin Elems(Tail(s))
<1>1. /\ Len(s) \in Nat \ {0} /\ DOMAIN s = 1 .. Len(s) /\ Head(s) = s[1] /\ s[1] \in S
      /\ Tail(s) \in Seq(S) /\ Len(Tail(s)) = Len(s) - 1
      /\ DOMAIN Tail(s) = 1 .. Len(s) - 1
  OBVIOUS
<1>2. \A i \in 1 .. Len(s) - 1 : Tail(s)[i] = s[i + 1]
  OBVIOUS
<1>3. Elems(s) \subseteq {Head(s)} \cup Elems(Tail(s))
  <2>1. ASSUME NEW i \in 1 .. Len(s) PROVE s[i] \in {Head(s)} \cup Elems(Tail(s))
    <3>1. i = 1 \/ (i - 1 \in 1 .. Len(s) - 1 /\ (i - 1) + 1 = i)
      BY <1>1
    <3> QED
      BY <1>1, <1>2, <3>1 DEF Elems
  <2> QED
    BY <1>1, <2>1 DEF Elems
<1>4. {Head(s)} \cup Elems(Tail(s)) \subseteq Elems(s)
  <2>1. ASSUME NEW i \in 1 .. Len(s) - 1 PROVE i + 1 \in 1 .. Len(s)
    BY <1>1
  <2> QED
    BY <1>1, <1>2, <2>1 DEF Elems
<1>5. ASSUME Distinct(s) PROVE Distinct(Tail(s)) /\ Head(s) \notin Elems(Tail(s))
  <2>1. \A i \in 1 .. Len(s) - 1 : i + 1 \in 1 .. Len(s) /\ i + 1 # 1
    BY <1>1
  <2>2. 1 \in 1 .. Len(s)
    BY <1>1
  <2>3. Head(s) \notin Elems(Tail(s))
    BY <1>1, <1>2, <1>5, <2>1, <2>2 DEF Elems, Distinct
  <2>4. \A i, j \in 1 .. Len(s) - 1 : i + 1 = j + 1 => i = j
    BY <1>1
  <2> QED
    BY <1>1, <1>2, <1>5, <2>1, <2>3, <2>4 DEF Distinct
<1> QED
  BY <1>1, <1>3, <1>4, <1>5

\* The elements of a sequence are no more than its length, and as many if they
\* are distinct.
LEMMA Elems_Count ==
    ASSUME NEW S, NEW s \in Seq(S)
    PROVE  /\ IsFiniteSet(Elems(s)) /\ Cardinality(Elems(s)) <= Len(s)
           /\ Distinct(s) => Cardinality(Elems(s)) = Len(s)
<1>1. Len(s) \in Nat /\ DOMAIN s = 1 .. Len(s)
  OBVIOUS
<1>2. /\ IsFiniteSet(1 .. Len(s)) /\ Cardinality(1 .. Len(s)) = Len(s)
  BY <1>1, FS_Interval
<1> DEFINE f == [i \in 1 .. Len(s) |-> s[i]]
<1>3. f \in Surjection(1 .. Len(s), Elems(s))
  BY <1>1 DEF Elems, Surjection
<1>4. Distinct(s) => f \in Injection(1 .. Len(s), Elems(s))
  BY <1>1, <1>3 DEF Distinct, Injection, Surjection, IsInjective
<1> HIDE DEF f
<1> QED
  BY <1>2, <1>3, <1>4, FS_Surjection

\* The union of two finite sets.
LEMMA UnionBound ==
    ASSUME NEW A, NEW B, IsFiniteSet(A), IsFiniteSet(B)
    PROVE  /\ IsFiniteSet(A \cup B) /\ Cardinality(A \cup B) \in Nat
           /\ Cardinality(A \cup B) <= Cardinality(A) + Cardinality(B)
<1>1. IsFiniteSet(A \cap B)
  BY FS_Intersection
<1>2. /\ Cardinality(A) \in Nat /\ Cardinality(B) \in Nat /\ Cardinality(A \cap B) \in Nat
  BY <1>1, FS_CardinalityType
<1> QED
  BY <1>2, FS_Union, FS_CardinalityType

----------------------------------------------------------------------------
(* The inductive invariant.                                                *)

Looping == {"idle", "waiting"} \cup AtYield
Stopped == {"gathering"} \cup Final

\* A worker has an address while it probes or waits to put the result; one that
\* returned has found the iterator at its end; what is under way or yielded was
\* taken from the iterator.
Hands ==
    /\ \A w \in Worker : whost[w] = NoHost <=> wstate[w] \notin {"probing", "putting"}
    /\ \A w \in Worker : wstate[w] = "returned" => next = NHosts + 1
    /\ \A h \in Host : h \in Yielded \cup InQueue \cup InHand \cup {item} => h < next

\* An address is at one place.
OnePlace ==
    /\ Distinct(rqueue)
    /\ \A h \in Host : out[h] <= 1
    /\ InQueue \cap Yielded = {} /\ InHand \cap (InQueue \cup Yielded) = {}
    /\ InGet \cap (InHand \cup InQueue \cup Yielded) = {}
    /\ \A v, w \in Worker : v # w /\ whost[v] # NoHost => whost[v] # whost[w]

\* get_result has a result when it is done, and that has been yielded when the
\* generator stands at the yield of the loop.
Getter ==
    /\ get = "getting" => item = NoHost
    /\ get = "done" => item # NoHost
    /\ mstate = "idle" => get = "getting"
    /\ mstate \in Looping => get # "cancelled"
    /\ mstate = "yielded" => get = "done" /\ item \in Yielded
    /\ mstate \in Stopped => get # "getting"

\* The generator forgets only workers that have ended, and goes on only if they
\* have returned.
Workers ==
    /\ \A w \in seen : wstate[w] \in Over
    /\ \A w \in Worker \ mworkers : wstate[w] \in Over
    /\ ~broken => \A w \in Worker \ mworkers : wstate[w] = "returned"
    /\ mstate = "ended" => \A w \in mworkers : wstate[w] \in Over

\* Nothing that the iterator gave is lost.
Covered ==
    ~broken /\ (\A w \in Worker : wstate[w] # "cancelled") =>
        \A h \in Host : h < next => h \in Yielded \cup InQueue \cup InHand \cup {item}

\* A scan that nobody interrupted ends with an empty queue and without workers.
Drained ==
    /\ mstate = "draining" => mworkers = {}
    /\ ~broken /\ mstate \in {"closing"} \cup Stopped => mworkers = {} /\ rqueue = <<>>
    /\ ~broken /\ ~suspends /\ mstate \in {"draining", "closing"} \cup Stopped => item = NoHost

IInv == TypeOK /\ Hands /\ OnePlace /\ Getter /\ Workers /\ Covered /\ Drained

\* The places of an address are sets of addresses.
LEMMA Places ==
    ASSUME TypeOK
    PROVE  /\ InQueue = Elems(rqueue) /\ InQueue \subseteq Host
           /\ Yielded \subseteq Host /\ InHand \subseteq Host
           /\ InGet \subseteq Host
           /\ Capacity \in Nat /\ Concurrency \in Nat \ {0}
<1>1. InQueue = Elems(rqueue) /\ InQueue \subseteq Host
  BY DEF InQueue, Elems, TypeOK
<1>2. Yielded \subseteq Host /\ InHand \subseteq Host /\ InGet \subseteq Host
  BY DEF Yielded, InHand, InGet, TypeOK
<1>3. Concurrency \in Nat \ {0}
  BY WorkerAssumption, FS_CardinalityType, FS_EmptySet DEF Concurrency
<1> QED
  BY <1>1, <1>2, <1>3 DEF Capacity

\* A new scan: nothing has been taken from the iterator.
LEMMA InvInit == Init => IInv
<1> SUFFICES ASSUME Init PROVE IInv
  OBVIOUS
<1> USE DEF Init
<1>1. TypeOK
  <2>1. Cardinality(Worker) \in Nat
    BY WorkerAssumption, FS_CardinalityType
  <2>2. rqueue \in Seq(Host) /\ Len(rqueue) <= Capacity
    BY <2>1 DEF Capacity, Concurrency
  <2>3. wstate \in [Worker -> {"new", "probing", "putting"} \cup Over] /\ whost \in [Worker -> Host \cup {NoHost}]
    OBVIOUS
  <2>4. next \in 1 .. NHosts + 1 /\ out \in [Host -> Nat]
    BY HostAssumption
  <2>5. broken \in BOOLEAN /\ suspends \in BOOLEAN
    OBVIOUS
  <2>6. kill \subseteq Worker /\ get \in {"getting", "done", "cancelled"} /\ item \in Host \cup {NoHost}
       /\ mstate \in {"idle", "waiting", "closing", "gathering"} \cup AtYield \cup Final
    OBVIOUS
  <2>7. mworkers \subseteq Worker /\ waitset \subseteq Worker /\ seen \subseteq Worker
    OBVIOUS
  <2> QED
    BY <2>2, <2>3, <2>4, <2>5, <2>6, <2>7 DEF TypeOK
<1>2. InQueue = {} /\ Yielded = {} /\ InHand = {} /\ InGet = {}
  BY DEF InQueue, Yielded, InHand, InGet
<1>3. Hands /\ Getter /\ Workers /\ Covered /\ Drained
  BY <1>2, HostAssumption DEF Hands, Getter, Workers, Covered, Drained, Looping, Stopped, Final, AtYield, Host
<1>4. OnePlace
  BY <1>2 DEF OnePlace, Distinct
<1> QED
  BY <1>1, <1>3, <1>4 DEF IInv

\* The types of what a worker leaves alone.
LEMMA WorkerTypes ==
    ASSUME TypeOK, UNCHANGED <<getVars, mainVars, suspends>>,
           next' \in 1 .. NHosts + 1, kill' \subseteq Worker,
           wstate' \in [Worker -> {"new", "probing", "putting"} \cup Over],
           whost' \in [Worker -> Host \cup {NoHost}],
           rqueue' \in Seq(Host), Len(rqueue') <= Capacity
    PROVE  TypeOK'
<1>1. (broken \in BOOLEAN /\ suspends \in BOOLEAN)'
  BY DEF TypeOK, mainVars
<1>2. Capacity' = Capacity /\ AtYield' = AtYield
  BY DEF Capacity, Concurrency, AtYield
<1> QED
  BY <1>1, <1>2 DEF TypeOK, getVars, mainVars

\* A worker whose result, if it has one, is in the queue takes the next address
\* from the iterator, or ends.
LEMMA FetchInv ==
    ASSUME IInv, NEW w \in Worker, Fetch(w),
           \/ wstate[w] = "new" /\ rqueue' = rqueue
           \/ wstate[w] \in {"probing", "putting"} /\ HasRoom /\ rqueue' = Append(rqueue, whost[w]),
           UNCHANGED <<kill, getVars, mainVars, suspends>>
    PROVE  IInv'
<1>1. /\ TypeOK /\ Hands /\ OnePlace /\ Getter /\ Workers /\ Covered /\ Drained
      /\ Capacity \in Nat /\ InQueue = Elems(rqueue) /\ Yielded \cup InQueue \cup InHand \subseteq Host
  BY Places DEF IInv
<1>2. \/ whost[w] = NoHost /\ rqueue' = rqueue
      \/ /\ whost[w] \in Host /\ whost[w] # NoHost /\ whost[w] \in InHand
         /\ HasRoom /\ rqueue' = Append(rqueue, whost[w])
         /\ wstate[w] \in {"probing", "putting"}
  BY <1>1 DEF Hands, TypeOK, InHand
<1>3. /\ rqueue' \in Seq(Host) /\ Len(rqueue') <= Capacity /\ Distinct(rqueue')
      /\ InQueue' = InQueue \cup ({whost[w]} \ {NoHost})
  <2>1. CASE rqueue' = rqueue /\ whost[w] = NoHost
    BY <1>1, <2>1 DEF InQueue, TypeOK, OnePlace
  <2>2. CASE whost[w] \in InHand /\ HasRoom /\ rqueue' = Append(rqueue, whost[w])
    <3>1. rqueue \in Seq(Host) /\ whost[w] \in Host /\ whost[w] \notin Elems(rqueue) /\ Distinct(rqueue)
      BY <1>1, <2>2 DEF TypeOK, OnePlace
    <3>2. /\ rqueue' \in Seq(Host) /\ Len(rqueue') = Len(rqueue) + 1
          /\ Elems(rqueue') = Elems(rqueue) \cup {whost[w]} /\ Distinct(rqueue')
      BY <2>2, <3>1, Put_Elems
    <3>3. InQueue' = Elems(rqueue')
      BY DEF InQueue, Elems
    <3>4. Len(rqueue') <= Capacity
      BY <1>1, <2>2, <3>1, <3>2 DEF HasRoom
    <3>5. whost[w] # NoHost
      BY <2>2 DEF InHand
    <3> QED
      BY <1>1, <3>2, <3>3, <3>4, <3>5
  <2> QED
    BY <1>2, <2>1, <2>2
<1>4. /\ next \in Nat /\ next' \in 1 .. NHosts + 1 /\ next' \in Nat /\ next <= next'
      /\ \/ /\ next \in Host /\ next # NoHost /\ next' = next + 1
            /\ whost' = [whost EXCEPT ![w] = next] /\ wstate' = [wstate EXCEPT ![w] = "probing"]
         \/ /\ next' = next /\ next' = NHosts + 1
            /\ whost' = [whost EXCEPT ![w] = NoHost] /\ wstate' = [wstate EXCEPT ![w] = "returned"]
  <2>1. next \in 1 .. NHosts + 1 /\ NHosts \in Nat
    BY <1>1, HostAssumption DEF TypeOK
  <2>2. CASE next <= NHosts
    BY <2>1, <2>2, HostAssumption DEF Fetch, Host
  <2>3. CASE next > NHosts
    BY <2>1, <2>3 DEF Fetch
  <2> QED
    BY <2>1, <2>2, <2>3
<1>5. /\ whost' \in [Worker -> Host \cup {NoHost}]
      /\ wstate' \in [Worker -> {"new", "probing", "putting"} \cup Over]
      /\ \A v \in Worker : v # w => whost'[v] = whost[v] /\ wstate'[v] = wstate[v]
      /\ \/ next' = next + 1 /\ whost'[w] = next /\ wstate'[w] = "probing" /\ next \in Host
         \/ next' = next /\ next' = NHosts + 1 /\ whost'[w] = NoHost /\ wstate'[w] = "returned"
  BY <1>1, <1>4 DEF TypeOK, Over
<1>6. TypeOK'
  BY <1>1, <1>3, <1>4, <1>5, WorkerTypes DEF TypeOK
<1>7. /\ Yielded' = Yielded /\ InGet' = InGet /\ item' = item
  BY DEF Yielded, InGet, getVars, mainVars
<1>8. InHand' = (InHand \ {whost[w]}) \cup ({whost'[w]} \ {NoHost})
  <2>1. \A v \in Worker : v # w => whost[v] = NoHost \/ whost[v] # whost[w]
    BY <1>1 DEF OnePlace
  <2> QED
    BY <1>5, <2>1 DEF InHand
<1>9. \A h \in Host : h \in Yielded \cup InQueue \cup InHand \cup {item} => h < next /\ h # next
  BY <1>1, <1>4 DEF Hands, Host
<1>10. Hands'
  <2>1. \A v \in Worker : whost'[v] = NoHost <=> wstate'[v] \notin {"probing", "putting"}
    BY <1>1, <1>5, HostAssumption DEF Hands
  <2>2. \A v \in Worker : wstate'[v] = "returned" => next' = NHosts + 1
    BY <1>1, <1>4, <1>5, HostAssumption DEF Hands, TypeOK, Host
  <2>3. whost[w] = NoHost \/ whost[w] \in InHand
    BY DEF InHand
  <2>4. ASSUME NEW h \in Host, h \in Yielded' \cup InQueue' \cup InHand' \cup {item'} PROVE h < next'
    <3>1. h \in Yielded \cup InQueue \cup InHand \cup {item} \/ (h = whost'[w] /\ h # NoHost)
      BY <1>3, <1>7, <1>8, <2>3, <2>4
    <3>2. CASE h \in Yielded \cup InQueue \cup InHand \cup {item}
      BY <1>4, <1>9, <3>2 DEF Host
    <3>3. CASE h = whost'[w] /\ h # NoHost
      BY <1>4, <1>5, <3>3
    <3> QED
      BY <3>1, <3>2, <3>3
  <2> QED
    BY <2>1, <2>2, <2>4 DEF Hands
<1>11. OnePlace'
  <2>1. whost'[w] = NoHost \/ (whost'[w] \notin Yielded \cup InQueue \cup InHand \cup {item} /\ whost'[w] \notin InGet)
    BY <1>5, <1>9 DEF InGet
  <2>2. whost[w] = NoHost \/ whost[w] \in InHand
    BY DEF InHand
  <2>3. /\ (InQueue \cap Yielded = {})' /\ (InHand \cap (InQueue \cup Yielded) = {})'
        /\ (InGet \cap (InHand \cup InQueue \cup Yielded) = {})'
    BY <1>1, <1>3, <1>7, <1>8, <2>1, <2>2 DEF OnePlace
  <2>4. ASSUME NEW v \in Worker, NEW u \in Worker, v # u, whost'[v] # NoHost
        PROVE  whost'[v] # whost'[u]
    BY <1>1, <1>5, <2>1, <2>4 DEF OnePlace, InHand
  <2>5. \A h \in Host : out'[h] <= 1
    BY <1>1 DEF OnePlace, mainVars
  <2> QED
    BY <1>3, <2>3, <2>4, <2>5 DEF OnePlace
<1>12. Getter'
  BY <1>1, <1>7 DEF Getter, getVars, mainVars
<1>13. w \in Worker \ mworkers => broken
  BY <1>1, <1>2, <1>5 DEF Workers, Hands, Over
<1>14. wstate[w] \notin Over
  BY <1>1, <1>2 DEF Over
<1>15. Workers'
  <2>1. \A v \in Worker : wstate[v] \in Over => v # w /\ wstate'[v] = wstate[v]
    BY <1>5, <1>14
  <2>2. mworkers \subseteq Worker /\ seen \subseteq Worker
    BY <1>1 DEF TypeOK
  <2>3. mworkers' = mworkers /\ seen' = seen /\ broken' = broken /\ mstate' = mstate /\ Over' = Over
    BY DEF mainVars, Over
  <2>4. "returned" \in Over
    BY DEF Over
  <2> QED
    BY <1>1, <2>1, <2>2, <2>3, <2>4 DEF Workers
<1>16. Covered'
  <2> SUFFICES ASSUME ~broken, \A v \in Worker : wstate'[v] # "cancelled", NEW h \in Host, h < next'
               PROVE  h \in Yielded' \cup InQueue' \cup InHand' \cup {item'}
    BY DEF Covered, mainVars
  <2>1. \A v \in Worker : wstate[v] # "cancelled"
    BY <1>5, <1>14 DEF Over
  <2>2. h < next => h \in Yielded \cup InQueue \cup InHand \cup {item}
    BY <1>1, <2>1 DEF Covered
  <2>3. h < next \/ (h = next /\ whost'[w] = next)
    BY <1>4, <1>5 DEF Host
  <2>4. h # NoHost
    BY HostAssumption
  <2> QED
    BY <1>3, <1>7, <1>8, <2>2, <2>3, <2>4
<1>17. Drained'
  <2>1. mworkers # {} \/ broken \/ wstate[w] = "returned"
    BY <1>1 DEF Workers
  <2>2. mworkers # {} \/ broken
    BY <1>14, <2>1 DEF Over
  <2> QED
    BY <1>1, <1>7, <2>2 DEF Drained, getVars, mainVars
<1> QED
  BY <1>6, <1>10, <1>11, <1>12, <1>15, <1>16, <1>17 DEF IInv

\* A worker that waits for room in the queue.
LEMMA WaitsInv ==
    ASSUME IInv, NEW w \in Worker, wstate[w] \in {"probing", "putting"},
           wstate' = [wstate EXCEPT ![w] = "putting"],
           UNCHANGED <<next, whost, kill, rqueue, getVars, mainVars, suspends>>
    PROVE  IInv'
<1>1. /\ TypeOK /\ Hands /\ OnePlace /\ Getter /\ Workers /\ Covered /\ Drained
  BY DEF IInv
<1>2. /\ wstate' \in [Worker -> {"new", "probing", "putting"} \cup Over]
      /\ \A v \in Worker : v # w => wstate'[v] = wstate[v]
      /\ wstate'[w] = "putting"
  BY <1>1 DEF TypeOK
<1>3. TypeOK'
  BY <1>1, <1>2, WorkerTypes DEF TypeOK
<1>4. /\ Yielded' = Yielded /\ InGet' = InGet /\ item' = item /\ InQueue' = InQueue /\ InHand' = InHand
  BY DEF Yielded, InGet, InQueue, InHand, getVars, mainVars
<1>5. Hands'
  BY <1>1, <1>2, <1>4 DEF Hands
<1>6. OnePlace' /\ Getter'
  BY <1>1, <1>4 DEF OnePlace, Getter, Distinct, getVars, mainVars
<1>7. Drained'
  BY <1>1, <1>4 DEF Drained, mainVars
<1>8. Workers'
  <2>1. \A v \in Worker : wstate[v] \in Over => wstate'[v] = wstate[v]
    BY <1>2 DEF Over
  <2>2. mworkers \subseteq Worker /\ seen \subseteq Worker /\ Over' = Over
    BY <1>1 DEF TypeOK, Over
  <2>3. mworkers' = mworkers /\ seen' = seen /\ broken' = broken /\ mstate' = mstate /\ "returned" \in Over
    BY DEF mainVars, Over
  <2> QED
    BY <1>1, <2>1, <2>2, <2>3 DEF Workers
<1>9. Covered'
  BY <1>1, <1>2, <1>4 DEF Covered, mainVars
<1> QED
  BY <1>3, <1>5, <1>6, <1>7, <1>8, <1>9 DEF IInv

\* A cancelled worker takes its address with it.
LEMMA CancelInv ==
    ASSUME IInv, NEW w \in Worker, WorkerCancelled(w)
    PROVE  IInv'
<1>1. /\ TypeOK /\ Hands /\ OnePlace /\ Getter /\ Workers /\ Covered /\ Drained
  BY DEF IInv
<1>2. /\ wstate' = [wstate EXCEPT ![w] = "cancelled"] /\ whost' = [whost EXCEPT ![w] = NoHost]
      /\ kill' = kill \ {w} /\ UNCHANGED <<next, rqueue, getVars, mainVars, suspends>>
      /\ wstate[w] \notin Over
  BY DEF WorkerCancelled, Over
<1>3. /\ wstate' \in [Worker -> {"new", "probing", "putting"} \cup Over]
      /\ whost' \in [Worker -> Host \cup {NoHost}]
      /\ \A v \in Worker : v # w => wstate'[v] = wstate[v] /\ whost'[v] = whost[v]
      /\ wstate'[w] = "cancelled" /\ whost'[w] = NoHost
  BY <1>1, <1>2 DEF TypeOK, Over
<1>4. TypeOK'
  BY <1>1, <1>2, <1>3, WorkerTypes DEF TypeOK
<1>5. /\ Yielded' = Yielded /\ InGet' = InGet /\ item' = item /\ InQueue' = InQueue /\ InHand' \subseteq InHand
  BY <1>2, <1>3 DEF Yielded, InGet, InQueue, InHand, getVars, mainVars
<1>6. Hands'
  BY <1>1, <1>2, <1>3, <1>5 DEF Hands
<1>7. OnePlace'
  BY <1>1, <1>2, <1>3, <1>5 DEF OnePlace, Distinct, mainVars
<1>8. Getter'
  BY <1>1, <1>2, <1>5 DEF Getter, getVars, mainVars
<1>9. Drained'
  BY <1>1, <1>2, <1>5 DEF Drained, mainVars
<1>10. Workers'
  <2>1. \A v \in Worker : wstate[v] \in Over => wstate'[v] = wstate[v]
    BY <1>2, <1>3
  <2>2. mworkers \subseteq Worker /\ seen \subseteq Worker /\ Over' = Over
    BY <1>1 DEF TypeOK, Over
  <2>3. mworkers' = mworkers /\ seen' = seen /\ broken' = broken /\ mstate' = mstate /\ "returned" \in Over
    BY <1>2 DEF mainVars, Over
  <2> QED
    BY <1>1, <2>1, <2>2, <2>3 DEF Workers
<1>11. Covered'
  BY <1>3 DEF Covered
<1> QED
  BY <1>4, <1>6, <1>7, <1>8, <1>9, <1>10, <1>11 DEF IInv

\* The types of what the generator and get_result leave alone.
LEMMA MainTypes ==
    ASSUME TypeOK, UNCHANGED <<next, wstate, whost, suspends>>, kill' \subseteq Worker,
           rqueue' \in Seq(Host), Len(rqueue') <= Len(rqueue),
           get' \in {"getting", "done", "cancelled"}, item' \in Host \cup {NoHost},
           mstate' \in {"idle", "waiting", "closing", "gathering"} \cup AtYield \cup Final,
           mworkers' \subseteq Worker, waitset' \subseteq Worker, seen' \subseteq Worker,
           out' \in [Host -> Nat], broken' \in BOOLEAN
    PROVE  TypeOK'
<1>1. Capacity' = Capacity /\ AtYield' = AtYield /\ Over' = Over /\ Final' = Final
  BY DEF Capacity, Concurrency, AtYield, Over, Final
<1>2. Len(rqueue') <= Capacity
  BY Places DEF TypeOK
<1>3. suspends' \in BOOLEAN
  BY DEF TypeOK
<1> QED
  BY <1>1, <1>2, <1>3 DEF TypeOK

\* get_result takes a result from the queue.
LEMMA GetInv == ASSUME IInv, GetTakes PROVE IInv'
<1>1. /\ TypeOK /\ Hands /\ OnePlace /\ Getter /\ Workers /\ Covered /\ Drained
      /\ InQueue = Elems(rqueue) /\ InQueue \subseteq Host
  BY Places DEF IInv
<1>2. /\ get = "getting" /\ get' = "done" /\ item = NoHost /\ item' = Head(rqueue)
      /\ rqueue' = Tail(rqueue) /\ rqueue # <<>> /\ mstate # "idle"
      /\ suspends \/ mstate \notin AtYield
      /\ UNCHANGED <<workerVars, mainVars, suspends>>
  BY <1>1 DEF GetTakes, Getter, OthersRun
<1>3. /\ item' \in Host /\ item' # NoHost /\ rqueue' \in Seq(Host) /\ Len(rqueue') = Len(rqueue) - 1
      /\ InQueue = {item'} \cup InQueue' /\ Distinct(rqueue') /\ item' \notin InQueue'
  <2>1. rqueue \in Seq(Host) /\ Distinct(rqueue)
    BY <1>1 DEF TypeOK, OnePlace
  <2>2. InQueue' = Elems(rqueue')
    BY DEF InQueue, Elems
  <2> QED
    BY <1>1, <1>2, <2>1, <2>2, Get_Elems, HostAssumption
<1>4. TypeOK'
  <2>1. broken' \in BOOLEAN
    BY <1>1, <1>2 DEF TypeOK, mainVars
  <2>2. Len(rqueue) \in Nat
    BY <1>1 DEF TypeOK
  <2> QED
    BY <1>1, <1>2, <1>3, <2>1, <2>2, MainTypes DEF TypeOK, workerVars, mainVars
<1>5. /\ Yielded' = Yielded /\ InHand' = InHand /\ InGet' \subseteq {item'}
  BY <1>2 DEF Yielded, InHand, InGet, workerVars, mainVars
<1>6. Hands'
  BY <1>1, <1>2, <1>3, <1>5 DEF Hands, workerVars
<1>7. OnePlace'
  BY <1>1, <1>2, <1>3, <1>5 DEF OnePlace, workerVars, mainVars
<1>8. Getter'
  BY <1>1, <1>2, <1>3 DEF Getter, mainVars, Looping, AtYield, Stopped, Final
<1>9. Workers'
  <2>1. /\ mworkers' = mworkers /\ seen' = seen /\ broken' = broken /\ mstate' = mstate
        /\ wstate' = wstate /\ Over' = Over
    BY <1>2 DEF workerVars, mainVars, Over
  <2> QED
    BY <1>1, <2>1 DEF Workers
<1>10. Covered'
  <2>1. wstate' = wstate /\ next' = next /\ broken' = broken
    BY <1>2 DEF workerVars, mainVars
  <2> SUFFICES ASSUME ~broken, \A v \in Worker : wstate[v] # "cancelled", NEW h \in Host, h < next
               PROVE  h \in Yielded' \cup InQueue' \cup InHand' \cup {item'}
    BY <2>1 DEF Covered
  <2>2. h \in Yielded \cup InQueue \cup InHand \cup {item}
    BY <1>1 DEF Covered
  <2> QED
    BY <1>2, <1>3, <1>5, <2>2, HostAssumption
<1>11. Drained'
  BY <1>1, <1>2 DEF Drained, Getter, mainVars, AtYield, Stopped, Final
<1> QED
  BY <1>4, <1>6, <1>7, <1>8, <1>9, <1>10, <1>11 DEF IInv

\* The generator yields the first result of the queue.
LEMMA YieldsHead ==
    ASSUME TypeOK, OnePlace, rqueue # <<>>, rqueue' = Tail(rqueue), Yield(Head(rqueue))
    PROVE  /\ rqueue' \in Seq(Host) /\ Len(rqueue') <= Len(rqueue) /\ Distinct(rqueue')
           /\ out' \in [Host -> Nat] /\ (\A h \in Host : out'[h] <= 1)
           /\ InQueue' \cap Yielded' = {} /\ InQueue' \cup Yielded' = InQueue \cup Yielded
<1>1. rqueue \in Seq(Host) /\ Len(rqueue) \in Nat /\ Distinct(rqueue) /\ out \in [Host -> Nat]
  BY DEF TypeOK, OnePlace
<1>2. /\ Head(rqueue) \in Host /\ rqueue' \in Seq(Host) /\ Len(rqueue') = Len(rqueue) - 1
      /\ Elems(rqueue) = {Head(rqueue)} \cup Elems(rqueue')
      /\ Distinct(rqueue') /\ Head(rqueue) \notin Elems(rqueue')
  BY <1>1, Get_Elems
<1>3. InQueue = Elems(rqueue) /\ InQueue' = Elems(rqueue')
  BY DEF InQueue, Elems
<1>4. out[Head(rqueue)] = 0
  BY <1>1, <1>2, <1>3 DEF OnePlace, Yielded
<1>5. /\ out' \in [Host -> Nat] /\ out'[Head(rqueue)] = 1
      /\ \A h \in Host : h # Head(rqueue) => out'[h] = out[h]
  BY <1>1, <1>2, <1>4 DEF Yield
<1>6. Yielded' = Yielded \cup {Head(rqueue)}
  BY <1>1, <1>2, <1>5 DEF Yielded
<1>7. \A h \in Host : out'[h] <= 1
  BY <1>5 DEF OnePlace
<1>8. InQueue' \cap Yielded' = {} /\ InQueue' \cup Yielded' = InQueue \cup Yielded
  BY <1>2, <1>3, <1>6 DEF OnePlace
<1>9. Len(rqueue') <= Len(rqueue)
  BY <1>1, <1>2
<1> QED
  BY <1>2, <1>5, <1>7, <1>8, <1>9

\* The generator goes on with the workers D, that have ended, in "done".
LEMMA TurnInv ==
    ASSUME IInv, NEW D \in SUBSET Worker, \A w \in D : wstate[w] \in Over, Turn(D),
           mstate \in {"waiting", "yielded"}, item \in Yielded \cup {NoHost},
           get' = "getting", item' = NoHost, seen' \subseteq seen,
           UNCHANGED <<workerVars, suspends>>
    PROVE  IInv'
<1>1. /\ TypeOK /\ Hands /\ OnePlace /\ Getter /\ Workers /\ Covered /\ Drained
      /\ InQueue = Elems(rqueue) /\ InQueue \cup Yielded \subseteq Host
  BY Places DEF IInv
<1>2. mworkers' = mworkers \ D
  BY DEF Turn
<1>3. \/ rqueue' = rqueue /\ out' = out /\ mstate' \in {"closing", "waiting"}
      \/ /\ rqueue # <<>> /\ rqueue' = Tail(rqueue) /\ mstate' = "draining"
         /\ out' = [out EXCEPT ![Head(rqueue)] = @ + 1]
  BY DEF Turn, Yield, ResultsAreLeft
<1>4. waitset' \subseteq Worker
  BY <1>1, <1>2 DEF Turn, TypeOK
<1>5. \/ broken' = TRUE /\ mstate' = "closing"
      \/ /\ broken' = broken /\ \A w \in D : wstate[w] # "cancelled"
         /\ \/ mworkers' = {} /\ mstate' = "draining"
            \/ mworkers' = {} /\ mstate' = "closing" /\ rqueue' = <<>>
            \/ mstate' = "waiting"
  BY DEF Turn, ResultsAreLeft
<1>6. /\ rqueue' \in Seq(Host) /\ Len(rqueue') <= Len(rqueue) /\ Distinct(rqueue')
      /\ out' \in [Host -> Nat] /\ (\A h \in Host : out'[h] <= 1)
      /\ InQueue' \cap Yielded' = {} /\ InQueue' \cup Yielded' = InQueue \cup Yielded
  <2>1. rqueue \in Seq(Host) /\ Len(rqueue) \in Nat /\ Distinct(rqueue) /\ out \in [Host -> Nat]
    BY <1>1 DEF TypeOK, OnePlace
  <2>2. CASE rqueue' = rqueue /\ out' = out
    BY <1>1, <2>1, <2>2 DEF OnePlace, InQueue, Yielded
  <2>3. CASE rqueue # <<>> /\ rqueue' = Tail(rqueue) /\ out' = [out EXCEPT ![Head(rqueue)] = @ + 1]
    BY <1>1, <2>3, YieldsHead DEF Yield
  <2> QED
    BY <1>3, <2>2, <2>3
<1>7. TypeOK'
  <2>1. broken' \in BOOLEAN
    BY <1>1, <1>5 DEF TypeOK
  <2>2. mstate' \in {"waiting", "closing"} \cup AtYield
    BY <1>3 DEF AtYield
  <2>3. seen' \subseteq Worker /\ kill' \subseteq Worker /\ mworkers' \subseteq Worker
    BY <1>1, <1>2 DEF TypeOK, workerVars
  <2> QED
    BY <1>1, <1>4, <1>6, <2>1, <2>2, <2>3, MainTypes DEF workerVars
<1>8. InHand' = InHand /\ InGet' = {}
  BY DEF InHand, InGet, workerVars
<1>9. Hands'
  <2>1. /\ wstate' = wstate /\ whost' = whost /\ next' = next
    BY DEF workerVars
  <2>2. \A h \in Host : h \in Yielded' \cup InQueue' \cup InHand' \cup {item'} => h < next'
    BY <1>1, <1>6, <1>8, <2>1, HostAssumption DEF Hands
  <2> QED
    BY <1>1, <2>1, <2>2 DEF Hands
<1>10. OnePlace'
  BY <1>1, <1>6, <1>8 DEF OnePlace, workerVars
<1>11. Getter'
  BY <1>3 DEF Getter, Stopped, Final
<1>12. Workers'
  <2>1. \A w \in Worker \ mworkers' : w \in Worker \ mworkers \/ w \in D
    BY <1>2
  <2>2. wstate' = wstate /\ Over' = Over
    BY DEF workerVars, Over
  <2>3. \A w \in Worker \ mworkers' : wstate[w] \in Over
    BY <1>1, <2>1 DEF Workers
  <2>4. ~broken' => \A w \in Worker \ mworkers' : wstate[w] = "returned"
    BY <1>1, <1>5, <2>1 DEF Workers, Over
  <2>5. (\A w \in seen' : wstate[w] \in Over) /\ mstate' # "ended"
    BY <1>1, <1>3 DEF Workers
  <2> QED
    BY <2>2, <2>3, <2>4, <2>5 DEF Workers
<1>13. Covered'
  <2> SUFFICES ASSUME ~broken', \A v \in Worker : wstate'[v] # "cancelled", NEW h \in Host, h < next'
               PROVE  h \in Yielded' \cup InQueue' \cup InHand' \cup {item'}
    BY DEF Covered
  <2>1. ~broken /\ wstate' = wstate /\ next' = next
    BY <1>5 DEF workerVars
  <2>2. h \in Yielded \cup InQueue \cup InHand \cup {item}
    BY <1>1, <2>1 DEF Covered
  <2> QED
    BY <1>6, <1>8, <2>2, HostAssumption
<1>14. Drained'
  BY <1>3, <1>5 DEF Drained, Stopped, Final
<1> QED
  BY <1>7, <1>9, <1>10, <1>11, <1>12, <1>13, <1>14 DEF IInv

\* The drain: the next result, or the end of the loop.
LEMMA DrainInv == ASSUME IInv, ResumesDrain PROVE IInv'
<1>1. /\ TypeOK /\ Hands /\ OnePlace /\ Getter /\ Workers /\ Covered /\ Drained
      /\ InQueue = Elems(rqueue) /\ InQueue \cup Yielded \subseteq Host
  BY Places DEF IInv
<1>2. /\ mstate = "draining"
      /\ UNCHANGED <<workerVars, getVars, mworkers, waitset, seen, broken, suspends>>
      /\ \/ /\ rqueue # <<>> /\ rqueue' = Tail(rqueue) /\ mstate' = "draining"
            /\ out' = [out EXCEPT ![Head(rqueue)] = @ + 1]
         \/ rqueue = <<>> /\ mstate' = "closing" /\ rqueue' = rqueue /\ out' = out
  BY DEF ResumesDrain, Yield
<1>3. InGet = {item} \ {NoHost} /\ InGet' \subseteq InGet /\ InHand' = InHand
  BY <1>2 DEF InGet, InHand, getVars, workerVars
<1>4. /\ rqueue' \in Seq(Host) /\ Len(rqueue') <= Len(rqueue) /\ Distinct(rqueue')
      /\ out' \in [Host -> Nat] /\ (\A h \in Host : out'[h] <= 1)
      /\ InQueue' \cap Yielded' = {} /\ InQueue' \cup Yielded' = InQueue \cup Yielded
  <2>1. CASE rqueue' = rqueue /\ out' = out
    BY <1>1, <2>1 DEF OnePlace, InQueue, Yielded, TypeOK
  <2>2. CASE rqueue # <<>> /\ rqueue' = Tail(rqueue) /\ out' = [out EXCEPT ![Head(rqueue)] = @ + 1]
    BY <1>1, <2>2, YieldsHead DEF Yield
  <2> QED
    BY <1>2, <2>1, <2>2
<1>5. TypeOK'
  <2>1. broken' \in BOOLEAN /\ mstate' \in {"closing"} \cup AtYield
    BY <1>1, <1>2 DEF TypeOK, AtYield
  <2> QED
    BY <1>1, <1>2, <1>4, <2>1, MainTypes DEF TypeOK, workerVars, getVars
<1>6. /\ wstate' = wstate /\ whost' = whost /\ next' = next /\ item' = item /\ get' = get
      /\ mworkers' = mworkers /\ seen' = seen /\ broken' = broken /\ suspends' = suspends
      /\ Over' = Over
  BY <1>2 DEF workerVars, getVars, Over
<1>7. Hands'
  BY <1>1, <1>3, <1>4, <1>6 DEF Hands
<1>8. OnePlace'
  BY <1>1, <1>3, <1>4, <1>6 DEF OnePlace
<1>9. Getter'
  BY <1>1, <1>2, <1>6 DEF Getter, Looping, AtYield, Stopped, Final
<1>10. Workers'
  BY <1>1, <1>2, <1>6 DEF Workers
<1>11. Covered'
  BY <1>1, <1>3, <1>4, <1>6 DEF Covered
<1>12. Drained'
  BY <1>1, <1>2, <1>6 DEF Drained, Stopped, Final
<1> QED
  BY <1>5, <1>7, <1>8, <1>9, <1>10, <1>11, <1>12 DEF IInv

\* get_result has a result: the generator yields it.
LEMMA ResultInv == ASSUME IInv, WaitReturnsResult PROVE IInv'
<1>1. /\ TypeOK /\ Hands /\ OnePlace /\ Getter /\ Workers /\ Covered /\ Drained
  BY DEF IInv
<1>2. /\ mstate = "waiting" /\ get = "done" /\ out' = [out EXCEPT ![item] = @ + 1]
      /\ seen' = Done /\ mstate' = "yielded"
      /\ UNCHANGED <<workerVars, rqueue, getVars, mworkers, waitset, broken, suspends>>
  BY DEF WaitReturnsResult, Yield
<1>3. item \in Host /\ item # NoHost /\ out \in [Host -> Nat] /\ item \in InGet
  BY <1>1, <1>2 DEF Getter, TypeOK, InGet
<1>4. out[item] = 0
  BY <1>1, <1>3 DEF OnePlace, Yielded
<1>5. out' \in [Host -> Nat] /\ out'[item] = 1 /\ \A h \in Host : h # item => out'[h] = out[h]
  BY <1>2, <1>3, <1>4
<1>6. Yielded' = Yielded \cup {item}
  BY <1>3, <1>5 DEF Yielded
<1>7. /\ wstate' = wstate /\ whost' = whost /\ next' = next /\ item' = item /\ get' = get
      /\ mworkers' = mworkers /\ broken' = broken /\ suspends' = suspends /\ rqueue' = rqueue
      /\ Over' = Over
  BY <1>2 DEF workerVars, getVars, Over
<1>8. InHand' = InHand /\ InQueue' = InQueue /\ InGet' = {}
  BY <1>2, <1>7 DEF InHand, InQueue, InGet
<1>9. TypeOK'
  <2>1. broken' \in BOOLEAN /\ mstate' \in AtYield /\ seen' \subseteq Worker /\ waitset' \subseteq Worker
    BY <1>1, <1>2 DEF TypeOK, AtYield, Done
  <2>2. rqueue' \in Seq(Host) /\ Len(rqueue') <= Len(rqueue)
    BY <1>1, <1>7 DEF TypeOK
  <2> QED
    BY <1>1, <1>2, <1>5, <1>7, <2>1, <2>2, MainTypes DEF TypeOK, workerVars
<1>10. Hands'
  BY <1>1, <1>6, <1>7, <1>8 DEF Hands
<1>11. OnePlace'
  <2>1. \A h \in Host : out'[h] <= 1
    BY <1>1, <1>5 DEF OnePlace
  <2> QED
    BY <1>1, <1>3, <1>6, <1>7, <1>8, <2>1 DEF OnePlace
<1>12. Getter'
  BY <1>1, <1>2, <1>3, <1>6, <1>7 DEF Getter, Stopped, Final
<1>13. Workers'
  <2>1. \A w \in seen' : wstate[w] \in Over
    BY <1>2 DEF Done
  <2> QED
    BY <1>1, <1>2, <1>7, <2>1 DEF Workers
<1>14. Covered'
  BY <1>1, <1>6, <1>7, <1>8 DEF Covered
<1>15. Drained'
  BY <1>2 DEF Drained, Stopped, Final
<1> QED
  BY <1>9, <1>10, <1>11, <1>12, <1>13, <1>14, <1>15 DEF IInv

\* The steps that move no address: the start, the end of the loop by an
\* exception, the teardown.
LEMMA TeardownInv ==
    ASSUME IInv, UNCHANGED <<next, wstate, whost, rqueue, item, mworkers, seen, out, suspends>>,
           kill' \subseteq Worker, waitset' \subseteq Worker,
           \/ mstate = "idle" /\ mstate' = "waiting" /\ get' = get /\ broken' = broken
           \/ Abandons
           \/ ClosesGet
           \/ Interrupted
           \/ /\ mstate = "gathering" /\ WorkersGathered
              /\ mstate' = "ended" /\ get' = get /\ broken' = broken
    PROVE  IInv'
<1>1. /\ TypeOK /\ Hands /\ OnePlace /\ Getter /\ Workers /\ Covered /\ Drained
  BY DEF IInv
<1>2. \/ mstate = "idle" /\ mstate' = "waiting" /\ get' = get /\ broken' = broken
      \/ mstate \in Looping /\ mstate' = "closing" /\ get' = get /\ broken' = TRUE
      \/ /\ mstate = "closing"
         /\ \/ mstate' = "gathering" /\ broken' = broken
            \/ mstate' = "interrupted" /\ broken' = TRUE
         /\ get' = IF get = "getting" THEN "cancelled" ELSE get
      \/ /\ mstate = "gathering" /\ (\A w \in mworkers : wstate[w] \in Over)
         /\ mstate' = "ended" /\ get' = get /\ broken' = broken
  BY DEF Abandons, ClosesGet, Interrupted, CancelsGet, WorkersGathered, Looping, getVars
<1>3. /\ InHand' = InHand /\ InQueue' = InQueue /\ Yielded' = Yielded /\ InGet' = {} /\ Over' = Over
      /\ Capacity' = Capacity
  <2>1. mstate = "idle" => item = NoHost
    BY <1>1 DEF Getter
  <2> QED
    BY <1>2, <2>1 DEF InHand, InQueue, Yielded, InGet, Over, Capacity, Concurrency
<1>4. TypeOK'
  <2>1. broken' \in BOOLEAN
    BY <1>1, <1>2 DEF TypeOK
  <2>2. get' \in {"getting", "done", "cancelled"}
    BY <1>1, <1>2 DEF TypeOK
  <2>3. mstate' \in {"waiting", "closing", "gathering"} \cup Final
    BY <1>2 DEF Final
  <2>4. Len(rqueue') <= Len(rqueue)
    BY <1>1 DEF TypeOK
  <2> QED
    BY <1>1, <2>1, <2>2, <2>3, <2>4, MainTypes DEF TypeOK
<1>5. Hands' /\ OnePlace'
  BY <1>1, <1>3 DEF Hands, OnePlace, Distinct
<1>6. Getter'
  BY <1>1, <1>2, <1>3 DEF Getter, Looping, AtYield, Stopped, Final
<1>7. Workers'
  BY <1>1, <1>2, <1>3 DEF Workers
<1>8. Covered'
  BY <1>1, <1>2, <1>3 DEF Covered
<1>9. Drained'
  BY <1>1, <1>2 DEF Drained, Stopped, Final, Looping, AtYield
<1> QED
  BY <1>4, <1>5, <1>6, <1>7, <1>8, <1>9 DEF IInv

\* A step of a scan keeps the invariant.
LEMMA InvNext == IInv /\ [Next]_vars => IInv'
<1> SUFFICES ASSUME IInv, [Next]_vars PROVE IInv'
  OBVIOUS
<1>1. /\ TypeOK /\ Getter /\ Workers
      /\ kill \subseteq Worker /\ waitset \subseteq Worker /\ mworkers \subseteq Worker
  BY DEF IInv, TypeOK
<1>2. ASSUME NEW w \in Worker, Starts(w) PROVE IInv'
  BY <1>2, FetchInv DEF Starts
<1>3. ASSUME NEW w \in Worker, wstate[w] \in {"probing", "putting"}, Put(w),
             UNCHANGED <<kill, getVars, mainVars, suspends>>
      PROVE  IInv'
  <2>1. CASE HasRoom /\ rqueue' = Append(rqueue, whost[w]) /\ Fetch(w)
    BY <1>3, <2>1, FetchInv
  <2>2. CASE wstate' = [wstate EXCEPT ![w] = "putting"] /\ UNCHANGED <<rqueue, next, whost>>
    BY <1>3, <2>2, WaitsInv
  <2> QED
    BY <1>3, <2>1, <2>2 DEF Put
<1>4. ASSUME NEW w \in Worker, ProbeEnds(w) \/ PutResumes(w) PROVE IInv'
  BY <1>3, <1>4 DEF ProbeEnds, PutResumes
<1>5. ASSUME NEW w \in Worker, WorkerCancelled(w) PROVE IInv'
  BY <1>5, CancelInv
<1>6. CASE GetTakes
  BY <1>6, GetInv
<1>7. CASE WaitReturnsResult
  BY <1>7, ResultInv
<1>8. CASE WaitReturnsWorkers
  <2>1. /\ mstate = "waiting" /\ get # "done" /\ Turn(Done)
        /\ UNCHANGED <<workerVars, getVars, seen, suspends>>
    BY <1>8 DEF WaitReturnsWorkers
  <2>2. get = "getting" /\ item = NoHost
    BY <1>1, <2>1 DEF Getter, TypeOK, Looping
  <2>3. Done \subseteq Worker /\ \A w \in Done : wstate[w] \in Over
    BY <1>1 DEF Done
  <2>4. get' = "getting" /\ item' = NoHost /\ seen' = seen
    BY <2>1, <2>2 DEF getVars
  <2> QED
    BY <2>1, <2>2, <2>3, <2>4, TurnInv
<1>9. CASE ResumesLoop
  <2>1. /\ mstate = "yielded" /\ get' = "getting" /\ item' = NoHost /\ Turn(seen) /\ seen' = {}
        /\ UNCHANGED <<workerVars, suspends>>
    BY <1>9 DEF ResumesLoop, NewGet
  <2>2. item \in Yielded
    BY <1>1, <2>1 DEF Getter
  <2>3. seen \in SUBSET Worker /\ \A w \in seen : wstate[w] \in Over
    BY <1>1 DEF Workers, TypeOK
  <2> QED
    BY <2>1, <2>2, <2>3, TurnInv
<1>10. CASE ResumesDrain
  BY <1>10, DrainInv
<1>11. CASE Begins
  <2>1. UNCHANGED <<next, wstate, whost, kill, rqueue, get, item, mworkers, seen, out, suspends>>
    BY <1>11 DEF Begins, workerVars, getVars
  <2>2. mstate = "idle" /\ mstate' = "waiting" /\ broken' = broken /\ waitset' = Worker
    BY <1>11 DEF Begins
  <2> QED
    BY <1>1, <2>1, <2>2, TeardownInv
<1>12. CASE Abandons
  <2>1. UNCHANGED <<next, wstate, whost, kill, rqueue, item, mworkers, waitset, seen, out, suspends>>
    BY <1>12 DEF Abandons, workerVars, getVars
  <2> QED
    BY <1>1, <1>12, <2>1, TeardownInv
<1>13. CASE ClosesGet
  <2>1. UNCHANGED <<next, wstate, whost, rqueue, item, mworkers, waitset, seen, out, suspends>>
    BY <1>13 DEF ClosesGet
  <2>2. kill' \subseteq Worker
    BY <1>1, <1>13 DEF ClosesGet, ToStop
  <2> QED
    BY <1>1, <1>13, <2>1, <2>2, TeardownInv
<1>14. CASE Interrupted
  <2>1. UNCHANGED <<next, wstate, whost, kill, rqueue, item, mworkers, waitset, seen, out, suspends>>
    BY <1>14 DEF Interrupted, workerVars
  <2> QED
    BY <1>1, <1>14, <2>1, TeardownInv
<1>15. CASE Ends
  <2>1. UNCHANGED <<next, wstate, whost, kill, rqueue, get, item, mworkers, waitset, seen, out, suspends>>
    BY <1>15 DEF Ends, workerVars, getVars
  <2>2. mstate = "gathering" /\ WorkersGathered /\ mstate' = "ended" /\ broken' = broken
    BY <1>15 DEF Ends
  <2> QED
    BY <1>1, <2>1, <2>2, TeardownInv
<1>16. CASE UNCHANGED vars
  <2>1. UNCHANGED <<next, wstate, whost, kill, rqueue, get, item, mstate, mworkers, waitset, seen, out>>
    BY <1>16 DEF vars, workerVars, getVars, mainVars
  <2>2. broken' = broken /\ suspends' = suspends
    BY <1>16 DEF vars, mainVars
  <2>3. TypeOK'
    BY <1>1, <2>1, <2>2, WorkerTypes DEF TypeOK, getVars, mainVars
  <2>4. /\ InHand' = InHand /\ InQueue' = InQueue /\ Yielded' = Yielded /\ InGet' = InGet
        /\ Over' = Over /\ Looping' = Looping /\ Stopped' = Stopped
    BY <2>1 DEF InHand, InQueue, Yielded, InGet, Over, Looping, Stopped, Final, AtYield
  <2>5. Hands' /\ OnePlace' /\ Getter'
    BY <2>1, <2>4 DEF IInv, Hands, OnePlace, Getter, Distinct
  <2>6. Workers' /\ Covered' /\ Drained'
    BY <2>1, <2>2, <2>4 DEF IInv, Workers, Covered, Drained
  <2> QED
    BY <2>3, <2>5, <2>6 DEF IInv
<1> QED
  BY <1>2, <1>4, <1>5, <1>6, <1>7, <1>8, <1>9, <1>10, <1>11, <1>12, <1>13, <1>14, <1>15, <1>16
     DEF Next, WorkerStep, MainStep, Consumes, Finished

\* Where every address of a scan is, in every state.
THEOREM Invariant == Spec => []IInv
  BY InvInit, InvNext, PTL DEF Spec

\* The variables of a scan keep their types, and the queue its bound.
THEOREM TypeCorrect == Spec => []TypeOK
<1>1. IInv => TypeOK
  BY DEF IInv
<1> QED
  BY <1>1, Invariant, PTL

\* No address is yielded twice, nor is it at two places on its way.
THEOREM AtMostOnceHolds == Spec => []AtMostOnce
<1>1. ASSUME IInv PROVE AtMostOnce
  <2>1. TypeOK /\ OnePlace /\ InQueue = Elems(rqueue)
    BY <1>1, Places DEF IInv
  <2>2. Cardinality(InQueue) = Len(rqueue)
    BY <2>1, Elems_Count DEF TypeOK, OnePlace
  <2> QED
    BY <2>1, <2>2 DEF AtMostOnce, OnePlace
<1> QED
  BY <1>1, Invariant, PTL

\* However slow the consumer, 3 * concurrency + 1 addresses at the most are on
\* their way, for any concurrency.
THEOREM BackPressureHolds == Spec => []BackPressure
<1>1. ASSUME IInv, ~broken, \A w \in Worker : wstate[w] # "cancelled"
      PROVE  (next - 1) - Cardinality(Yielded) <= 3 * Concurrency + 1
  <2>1. /\ TypeOK /\ Covered /\ InQueue = Elems(rqueue) /\ Concurrency \in Nat
        /\ Yielded \subseteq Host
    BY <1>1, Places DEF IInv
  <2>2. next \in 1 .. NHosts + 1 /\ NHosts \in Nat /\ rqueue \in Seq(Host)
        /\ Len(rqueue) <= 2 * Concurrency
    BY <2>1, HostAssumption DEF TypeOK, Capacity
  <2> DEFINE Taken == 1 .. next - 1
  <2>3. IsFiniteSet(Taken) /\ Cardinality(Taken) = next - 1
    BY <2>2, FS_Interval
  <2>4. IsFiniteSet(Yielded) /\ Cardinality(Yielded) \in Nat
    <3>1. IsFiniteSet(Host)
      BY <2>2, FS_Interval DEF Host
    <3> QED
      BY <2>1, <3>1, FS_Subset, FS_CardinalityType
  <2>5. IsFiniteSet(InQueue) /\ Cardinality(InQueue) \in Nat /\ Cardinality(InQueue) <= 2 * Concurrency
    <3>1. IsFiniteSet(InQueue) /\ Cardinality(InQueue) <= Len(rqueue) /\ Len(rqueue) \in Nat
      BY <2>1, <2>2, Elems_Count
    <3> QED
      BY <2>1, <2>2, <3>1, FS_CardinalityType
  <2>6. IsFiniteSet(InHand) /\ Cardinality(InHand) \in Nat /\ Cardinality(InHand) <= Concurrency
    <3> DEFINE Hosts == {whost[w] : w \in Worker}
               f == [w \in Worker |-> whost[w]]
    <3>1. f \in Surjection(Worker, Hosts)
      BY DEF Surjection
    <3>2. IsFiniteSet(Hosts) /\ Cardinality(Hosts) <= Cardinality(Worker)
      BY <3>1, WorkerAssumption, FS_Surjection
    <3>3. InHand \subseteq Hosts
      BY DEF InHand
    <3>4. IsFiniteSet(InHand) /\ Cardinality(InHand) <= Cardinality(Hosts)
      BY <3>2, <3>3, FS_Subset
    <3> HIDE DEF Hosts
    <3>5. Cardinality(InHand) \in Nat /\ Cardinality(Hosts) \in Nat
      BY <3>2, <3>4, FS_CardinalityType
    <3> QED
      BY <2>1, <3>2, <3>4, <3>5 DEF Concurrency
  <2>7. IsFiniteSet({item}) /\ Cardinality({item}) = 1
    BY FS_Singleton
  <2>8. Taken \subseteq (Yielded \cup InQueue) \cup (InHand \cup {item})
    BY <1>1, <2>1, <2>2 DEF Covered, Host
  <2> HIDE DEF Taken
  <2>9. /\ IsFiniteSet(Yielded \cup InQueue)
        /\ Cardinality(Yielded \cup InQueue) \in Nat
        /\ Cardinality(Yielded \cup InQueue) <= Cardinality(Yielded) + Cardinality(InQueue)
    BY <2>4, <2>5, UnionBound
  <2>10. /\ IsFiniteSet(InHand \cup {item})
         /\ Cardinality(InHand \cup {item}) \in Nat
         /\ Cardinality(InHand \cup {item}) <= Cardinality(InHand) + 1
    BY <2>6, <2>7, UnionBound
  <2>11. /\ IsFiniteSet((Yielded \cup InQueue) \cup (InHand \cup {item}))
         /\ Cardinality((Yielded \cup InQueue) \cup (InHand \cup {item})) \in Nat
         /\ Cardinality((Yielded \cup InQueue) \cup (InHand \cup {item}))
              <= Cardinality(Yielded \cup InQueue) + Cardinality(InHand \cup {item})
    BY <2>9, <2>10, UnionBound
  <2>12. Cardinality(Taken) <= Cardinality((Yielded \cup InQueue) \cup (InHand \cup {item}))
    BY <2>8, <2>11, FS_Subset
  <2> QED
    BY <2>1, <2>2, <2>3, <2>4, <2>5, <2>6, <2>9, <2>10, <2>11, <2>12
<1>2. IInv => BackPressure
  BY <1>1 DEF BackPressure
<1> QED
  BY <1>2, Invariant, PTL

\* A scan that nobody interrupted yields every address, or all but the one in
\* the hands of get_result.
THEOREM AllButOneReturnedHolds == Spec => []AllButOneReturned
<1>1. ASSUME IInv, mstate = "ended", ~broken
      PROVE  Host \ Yielded \subseteq (IF suspends THEN {item} ELSE {})
  <2>1. TypeOK /\ Hands /\ Workers /\ Covered /\ Drained /\ "ended" \in Stopped
    BY <1>1 DEF IInv, Stopped, Final
  <2>2. mworkers = {} /\ rqueue = <<>> /\ (~suspends => item = NoHost)
    BY <1>1, <2>1 DEF Drained
  <2>3. \A w \in Worker : wstate[w] = "returned"
    BY <1>1, <2>1, <2>2 DEF Workers
  <2>4. next = NHosts + 1
    BY <2>1, <2>3, WorkerAssumption DEF Hands
  <2>5. InQueue = {} /\ InHand = {}
    BY <2>1, <2>2, <2>3 DEF InQueue, InHand, Hands
  <2>6. \A h \in Host : h < next
    BY <2>4, HostAssumption DEF Host
  <2>7. \A h \in Host : h \in Yielded \/ h = item
    BY <1>1, <2>1, <2>3, <2>5, <2>6 DEF Covered
  <2>8. CASE suspends
    BY <2>7, <2>8
  <2>9. CASE ~suspends
    BY <2>2, <2>7, <2>9, HostAssumption
  <2> QED
    BY <2>8, <2>9
<1>2. IInv => AllButOneReturned
  BY <1>1 DEF AllButOneReturned, Complete
<1> QED
  BY <1>2, Invariant, PTL

\* The generator that comes to the end of its finally block leaves no task
\* behind; one interrupted there leaves no get_result, and no worker that it
\* had struck off its list.
THEOREM NothingLeftRunningHolds == Spec => []NothingLeftRunning
<1>1. IInv => NothingLeftRunning
  BY DEF IInv, TypeOK, Workers, Getter, NothingLeftRunning, Stopped, Final
<1> QED
  BY <1>1, Invariant, PTL
============================================================================
