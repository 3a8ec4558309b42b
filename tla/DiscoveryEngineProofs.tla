------------------------ MODULE DiscoveryEngineProofs -----------------------
(***************************************************************************)
(* The slots of the discovery budget, and the cancellation of detect(),    *)
(* for any number of detections, ports and slots.                          *)
(***************************************************************************)
EXTENDS DiscoveryEngine, FiniteSetTheorems, TLAPS

----------------------------------------------------------------------------
(* The classes of probes.                                                  *)

Protocol == {"options", "http_auth", "describe", "onvif_probe"}

\* Each probe task holds a slot of one class: the classes share no probe.
LEMMA ProbeClasses ==
    /\ Probe = Port \cup Protocol /\ Port \cap Protocol = {}
    /\ \A c \in Class : Probes(c) \subseteq Probe
    /\ \A c, e \in Class : c # e => Probes(c) \cap Probes(e) = {}
    /\ \A c \in Class : IsFiniteSet(Probes(c))
    /\ Probes("total") = {} /\ Probes("tcp") = Port
<1>1. Port \cap Protocol = {}
  BY PortAssumption DEF Protocol
<1>2. /\ Probes("total") = {} /\ Probes("tcp") = Port
      /\ Probes("rtsp") = {"options", "describe"}
      /\ Probes("http") = {"http_auth"} /\ Probes("onvif") = {"onvif_probe"}
  BY DEF Probes
<1>3. Probe = Port \cup Protocol
  BY <1>2 DEF Probe, Class, Protocol
<1>4. \A c \in Class : Probes(c) \subseteq Probe
  BY DEF Probe
<1>5. \A c, e \in Class : c # e => Probes(c) \cap Probes(e) = {}
  BY <1>1, <1>2 DEF Class, Protocol
<1>6. \A c \in Class : IsFiniteSet(Probes(c))
  <2>1. IsFiniteSet({"options"}) /\ IsFiniteSet({"http_auth"}) /\ IsFiniteSet({"onvif_probe"})
    BY FS_Singleton
  <2>2. IsFiniteSet({"options", "describe"})
    <3>1. IsFiniteSet({"options"} \cup {"describe"})
      BY <2>1, FS_AddElement
    <3>2. {"options", "describe"} = {"options"} \cup {"describe"}
      OBVIOUS
    <3> QED
      BY <3>1, <3>2
  <2>3. IsFiniteSet({}) /\ IsFiniteSet(Port)
    BY FS_EmptySet, DetectionAssumption
  <2>4. /\ IsFiniteSet(Probes("total")) /\ IsFiniteSet(Probes("tcp"))
        /\ IsFiniteSet(Probes("rtsp")) /\ IsFiniteSet(Probes("http"))
        /\ IsFiniteSet(Probes("onvif"))
    BY <1>2, <2>1, <2>2, <2>3
  <2> QED
    BY <2>4 DEF Class
<1> QED
  BY <1>1, <1>2, <1>3, <1>4, <1>5, <1>6

----------------------------------------------------------------------------
(* Type correctness.                                                       *)

\* A new budget has all its slots.
LEMMA TypeInit == Init => TypeOK
BY LimitAssumption DEF Init, TypeOK, Working, Reason, Unwinding, Active

\* create_task() starts probes; the others stay as they are.
LEMMA Started ==
    ASSUME TypeOK, NEW d \in Detection, NEW S, StartProbes(d, S)
    PROVE  /\ probe' \in [Detection -> [Probe -> {"none", "ended", "cancelled"} \cup Active]]
           /\ \A e \in Detection \ {d} : probe'[e] = probe[e]
           /\ \A o \in Probe :
                 probe'[d][o] = IF o \in S THEN "polling" ELSE probe[d][o]
<1> DEFINE row == [o \in Probe |-> IF o \in S THEN "polling" ELSE probe[d][o]]
<1>1. row \in [Probe -> {"none", "ended", "cancelled"} \cup Active]
  BY DEF TypeOK, Active
<1>2. probe' = [probe EXCEPT ![d] = row]
  BY DEF StartProbes
<1>3. \A o \in Probe : row[o] = IF o \in S THEN "polling" ELSE probe[d][o]
  OBVIOUS
<1> HIDE DEF row
<1> QED
  BY <1>1, <1>2, <1>3 DEF TypeOK

\* Every step of the probes and of detect() keeps the types; a slot is only
\* taken when there is one.
LEMMA TypeStep == TypeOK /\ [Next]_vars => TypeOK'
<1> SUFFICES ASSUME TypeOK, [Next]_vars PROVE TypeOK'
  OBVIOUS
<1> USE DEF TypeOK, Working, Active, Reason, Unwinding
<1>1. ASSUME NEW d \in Detection, NEW c \in Class, NEW o \in Probes(c), ProbeStep(d, c, o)
      PROVE  TypeOK'
  <2>1. o \in Probe
    BY ProbeClasses
  <2>2. CASE ProbeEnters(d, c, o)
    BY <2>1, <2>2 DEF ProbeEnters, Acquire
  <2>3. CASE ProbeEnds(d, c, o)
    <3>1. c = "tcp" => o \in Port
      BY ProbeClasses
    <3>2. avail' \in [Class -> Nat]
      BY <2>3 DEF ProbeEnds, Release
    <3>3. open' \in [Detection -> SUBSET Port] /\ evidence' \subseteq Detection
      BY <2>3, <3>1 DEF ProbeEnds
    <3>4. probe' \in [Detection -> [Probe -> {"none", "ended", "cancelled"} \cup Active]]
      BY <2>1, <2>3 DEF ProbeEnds
    <3>5. threads' \subseteq Detection
      BY <2>3 DEF ProbeEnds
    <3>6. UNCHANGED <<phase, ending, status, asked, inTask>>
      BY <2>3 DEF ProbeEnds
    <3> QED
      BY <3>2, <3>3, <3>4, <3>5, <3>6
  <2>4. CASE ProbeCancelled(d, c, o)
    BY SMTT(30), <2>1, <2>4 DEF ProbeCancelled, GivesBack, Release
  <2> QED
    BY <1>1, <2>2, <2>3, <2>4 DEF ProbeStep
<1>2. ASSUME NEW d \in Detection, Detect(d) \/ Deadline(d) \/ ThreadEnds(d) PROVE TypeOK'
  BY <1>2 DEF Detect, Deadline, ThreadEnds
<1>3. ASSUME NEW d \in Detection, TakesTotal(d) PROVE TypeOK'
  BY <1>3, Started DEF TakesTotal, Acquire, Class
<1>4. ASSUME NEW d \in Detection, PhaseEnds(d) PROVE TypeOK'
  <2>1. probe' \in [Detection -> [Probe -> {"none", "ended", "cancelled"} \cup Active]]
    BY <1>4, Started DEF PhaseEnds, Finish, GoOn, Identifies, Raises
  <2>2. phase' \in [Detection -> {"idle", "waiting", "over"} \cup Working]
    BY <1>4 DEF PhaseEnds, Finish, GoOn, Identifies, Raises
  <2>3. status' \in [Detection -> {"none", "ok", "unknown", "no_services", "error",
                                  "timeout", "cancelled"}]
    BY <1>4 DEF PhaseEnds, Finish, GoOn, Identifies, Raises
  <2> QED
    BY <1>4, <2>1, <2>2, <2>3 DEF PhaseEnds
<1>5. ASSUME NEW d \in Detection, Returns(d) \/ TornDown(d) PROVE TypeOK'
  <2>1. avail' \in [Class -> Nat]
    BY <1>5 DEF Returns, TornDown, Leaves, Release, Class
  <2>2. phase' \in [Detection -> {"idle", "waiting", "over"} \cup Working]
    BY <1>5 DEF Returns, TornDown, Leaves
  <2>3. status' \in [Detection -> {"none", "ok", "unknown", "no_services", "error",
                                  "timeout", "cancelled"}]
    BY <1>5 DEF Returns, TornDown, Leaves
  <2> QED
    BY <1>5, <2>1, <2>2, <2>3 DEF Returns, TornDown
<1>6. ASSUME NEW d \in Detection, Cancel(d) PROVE TypeOK'
  <2> USE DEF Cancel, CancelWaiting, CancelTeardown, CancelWorking, CancelIgnored, Leaves
  <2>1. avail' \in [Class -> Nat]
    BY <1>6 DEF Release, Class
  <2>2. /\ phase' \in [Detection -> {"idle", "waiting", "over"} \cup Working]
        /\ ending' \in [Detection -> Reason]
    BY <1>6
  <2>3. status' \in [Detection -> {"none", "ok", "unknown", "no_services", "error",
                                  "timeout", "cancelled"}]
    BY <1>6
  <2> QED
    BY <1>6, <2>1, <2>2, <2>3
<1>7. CASE UNCHANGED vars
  BY <1>7 DEF vars
<1> QED
  BY <1>1, <1>2, <1>3, <1>4, <1>5, <1>6, <1>7 DEF Next, CallStep, Finished

----------------------------------------------------------------------------
(* The slots.                                                              *)

\* No probe is started before the detection has its slot "total".
NotStarted ==
    \A d \in Detection : phase[d] \in {"idle", "waiting"} =>
        \A o \in Probe : probe[d][o] = "none"

\* The inductive invariant of the slots.
SlotInv == TypeOK /\ NotStarted /\ SlotsConserved

\* The holders of a slot are finitely many.
LEMMA HoldersFinite == \A c \in Class : IsFiniteSet(Holders(c))
<1> TAKE c \in Class
<1>1. CASE c = "total"
  BY <1>1, FS_Subset, DetectionAssumption DEF Holders
<1>2. CASE c # "total"
  <2>1. IsFiniteSet(Detection \X Probes(c))
    BY FS_Product, ProbeClasses, DetectionAssumption
  <2> QED
    BY <1>2, <2>1, FS_Subset DEF Holders
<1> QED
  BY <1>1, <1>2

\* slot() takes a slot for a new holder.
LEMMA HolderGained ==
    ASSUME SlotsConserved, TypeOK, NEW c \in Class, NEW x, x \notin Holders(c),
           Acquire(c), Holders(c)' = Holders(c) \cup {x},
           \A e \in Class \ {c} : Holders(e)' = Holders(e)
    PROVE  SlotsConserved'
<1>1. Cardinality(Holders(c)') = Cardinality(Holders(c)) + 1
  BY HoldersFinite, FS_AddElement
<1>2. \A e \in Class : Cardinality(Holders(e)) \in Nat
  BY HoldersFinite, FS_CardinalityType
<1>3. \A e \in Class : Limit[e] \in Nat /\ avail[e] \in Nat
  BY LimitAssumption DEF TypeOK
<1> SUFFICES ASSUME NEW e \in Class
             PROVE  avail'[e] + Cardinality(Holders(e)') = Limit[e]
  BY DEF SlotsConserved
<1>4. avail[e] + Cardinality(Holders(e)) = Limit[e]
  BY DEF SlotsConserved
<1>5. CASE e = c
  <2>1. avail'[e] = avail[e] - 1
    BY <1>5 DEF Acquire, TypeOK
  <2> QED
    BY <1>1, <1>2, <1>3, <1>4, <1>5, <2>1
<1>6. CASE e # c
  <2>1. avail'[e] = avail[e] /\ Holders(e)' = Holders(e)
    BY <1>6 DEF Acquire, TypeOK
  <2> QED
    BY <1>4, <2>1
<1> QED
  BY <1>5, <1>6

\* slot() gives the slot of a holder back.
LEMMA HolderLost ==
    ASSUME SlotsConserved, TypeOK, NEW c \in Class, NEW x \in Holders(c),
           Release(c), Holders(c)' = Holders(c) \ {x},
           \A e \in Class \ {c} : Holders(e)' = Holders(e)
    PROVE  SlotsConserved'
<1>1. Cardinality(Holders(c)') = Cardinality(Holders(c)) - 1
  BY HoldersFinite, FS_RemoveElement
<1>2. \A e \in Class : Cardinality(Holders(e)) \in Nat
  BY HoldersFinite, FS_CardinalityType
<1>3. \A e \in Class : Limit[e] \in Nat /\ avail[e] \in Nat
  BY LimitAssumption DEF TypeOK
<1> SUFFICES ASSUME NEW e \in Class
             PROVE  avail'[e] + Cardinality(Holders(e)') = Limit[e]
  BY DEF SlotsConserved
<1>4. avail[e] + Cardinality(Holders(e)) = Limit[e]
  BY DEF SlotsConserved
<1>5. CASE e = c
  <2>1. avail'[e] = avail[e] + 1
    BY <1>5 DEF Release, TypeOK
  <2>2. Cardinality(Holders(e)') = Cardinality(Holders(e)) - 1
    BY <1>1, <1>5
  <2>3. Cardinality(Holders(e)) \in Nat /\ Limit[e] \in Nat /\ avail[e] \in Nat
    BY <1>2, <1>3
  <2> QED
    BY <1>4, <2>1, <2>2, <2>3
<1>6. CASE e # c
  <2>1. avail'[e] = avail[e] /\ Holders(e)' = Holders(e)
    BY <1>6 DEF Release, TypeOK
  <2> QED
    BY <1>4, <2>1
<1> QED
  BY <1>5, <1>6

\* Where the semaphores and the holders stay, so does the balance.
LEMMA HoldersKept ==
    ASSUME SlotsConserved, UNCHANGED avail, \A c \in Class : Holders(c)' = Holders(c)
    PROVE  SlotsConserved'
BY DEF SlotsConserved

\* A step that starts and ends no probe and no detection changes no holder.
LEMMA SameHolders ==
    ASSUME UNCHANGED probe,
           \A d \in Detection : phase'[d] \in Working <=> phase[d] \in Working
    PROVE  \A c \in Class : Holders(c)' = Holders(c)
<1>1. {d \in Detection : phase'[d] \in Working} = {d \in Detection : phase[d] \in Working}
  OBVIOUS
<1> QED
  BY <1>1 DEF Holders

\* A call that has its slot and leaves gives "total" back, whatever its probes
\* still hold.
LEMMA TotalGivenBack ==
    ASSUME SlotsConserved, TypeOK, NEW d \in Detection, phase[d] \in Working,
           phase' = [phase EXCEPT ![d] = "over"], Release("total"), UNCHANGED probe
    PROVE  SlotsConserved'
<1>1. d \in Holders("total") /\ Holders("total")' = Holders("total") \ {d}
  BY DEF Holders, TypeOK, Working
<1>2. \A e \in Class \ {"total"} : Holders(e)' = Holders(e)
  BY DEF Holders
<1> QED
  BY <1>1, <1>2, HolderLost DEF Class

\* A probe task holds a slot of one class only.
LEMMA OneProbe ==
    ASSUME TypeOK, NEW d \in Detection, NEW c \in Class, NEW o \in Probes(c), NEW s,
           UNCHANGED phase,
           \A b \in Detection, p \in Probe :
              probe'[b][p] = IF b = d /\ p = o THEN s ELSE probe[b][p]
    PROVE  /\ \A e \in Class \ {c} : Holders(e)' = Holders(e)
           /\ s = "inside" => Holders(c)' = Holders(c) \cup {<<d, o>>}
           /\ s # "inside" => Holders(c)' = Holders(c) \ {<<d, o>>}
           /\ <<d, o>> \in Holders(c) <=> probe[d][o] = "inside"
<1>1. c # "total" /\ o \in Probe
  BY ProbeClasses
<1>2. \A e \in Class \ {c} : Holders(e)' = Holders(e)
  <2> TAKE e \in Class \ {c}
  <2>1. CASE e = "total"
    BY <2>1 DEF Holders
  <2>2. CASE e # "total"
    <3>1. \A x \in Detection \X Probes(e) : probe'[x[1]][x[2]] = probe[x[1]][x[2]]
      BY ProbeClasses
    <3> QED
      BY <2>2, <3>1 DEF Holders
  <2> QED
    BY <2>1, <2>2
<1>3. \A x \in Detection \X Probes(c) :
         probe'[x[1]][x[2]] = IF x = <<d, o>> THEN s ELSE probe[x[1]][x[2]]
  BY ProbeClasses
<1>4. <<d, o>> \in Detection \X Probes(c)
  OBVIOUS
<1>5. /\ Holders(c) = {x \in Detection \X Probes(c) : probe[x[1]][x[2]] = "inside"}
      /\ Holders(c)' = {x \in Detection \X Probes(c) : probe'[x[1]][x[2]] = "inside"}
  BY <1>1 DEF Holders
<1>6. s = "inside" => Holders(c)' = Holders(c) \cup {<<d, o>>}
  BY <1>3, <1>4, <1>5
<1>7. s # "inside" => Holders(c)' = Holders(c) \ {<<d, o>>}
  BY <1>3, <1>4, <1>5
<1>8. <<d, o>> \in Holders(c) <=> probe[d][o] = "inside"
  BY <1>4, <1>5
<1> QED
  BY <1>2, <1>6, <1>7, <1>8

\* The probes that start wait for their slots: who holds one stays.
LEMMA StartKeepsHolders ==
    ASSUME TypeOK, NEW d \in Detection, NEW S, StartProbes(d, S),
           \A o \in Probe : probe[d][o] # "inside"
    PROVE  \A e \in Class \ {"total"} : Holders(e)' = Holders(e)
<1> TAKE e \in Class \ {"total"}
<1>1. \A x \in Detection \X Probes(e) :
         (probe'[x[1]][x[2]] = "inside") <=> (probe[x[1]][x[2]] = "inside")
  BY Started, ProbeClasses
<1> QED
  BY <1>1 DEF Holders

\* slot() gives back what it took: on return, on an exception, at the deadline
\* and when the caller is cancelled.
LEMMA SlotStep == SlotInv /\ [Next]_vars => SlotInv'
<1> SUFFICES ASSUME SlotInv, [Next]_vars PROVE SlotInv'
  OBVIOUS
<1> USE DEF SlotInv
<1>0. TypeOK'
  BY TypeStep
<1>1. ASSUME NEW d \in Detection, NEW c \in Class, NEW o \in Probes(c), ProbeStep(d, c, o)
      PROVE  NotStarted' /\ SlotsConserved'
  <2>1. o \in Probe
    BY ProbeClasses
  <2>2. CASE ProbeEnters(d, c, o)
    <3>1. NotStarted'
      BY <2>1, <2>2 DEF ProbeEnters, NotStarted, TypeOK
    <3>0. /\ UNCHANGED phase /\ probe[d][o] # "inside"
          /\ \A b \in Detection, p \in Probe :
                 probe'[b][p] = IF b = d /\ p = o THEN "inside" ELSE probe[b][p]
      BY <2>1, <2>2 DEF ProbeEnters, TypeOK
    <3>2. /\ <<d, o>> \notin Holders(c) /\ Holders(c)' = Holders(c) \cup {<<d, o>>}
          /\ \A e \in Class \ {c} : Holders(e)' = Holders(e)
      BY <3>0, OneProbe
    <3> QED
      BY <2>2, <3>1, <3>2, HolderGained DEF ProbeEnters
  <2>3. CASE ProbeEnds(d, c, o)
    <3>1. NotStarted'
      BY <2>1, <2>3 DEF ProbeEnds, NotStarted, TypeOK
    <3>0. /\ UNCHANGED phase /\ probe[d][o] = "inside"
          /\ \A b \in Detection, p \in Probe :
                 probe'[b][p] = IF b = d /\ p = o THEN "ended" ELSE probe[b][p]
      BY <2>1, <2>3 DEF ProbeEnds, TypeOK
    <3>2. /\ <<d, o>> \in Holders(c) /\ Holders(c)' = Holders(c) \ {<<d, o>>}
          /\ \A e \in Class \ {c} : Holders(e)' = Holders(e)
      BY <3>0, OneProbe
    <3> QED
      BY <2>3, <3>1, <3>2, HolderLost DEF ProbeEnds
  <2>4. CASE ProbeCancelled(d, c, o)
    <3>1. NotStarted'
      BY <2>1, <2>4 DEF ProbeCancelled, NotStarted, TypeOK, Active
    <3>2. /\ \A e \in Class \ {c} : Holders(e)' = Holders(e)
          /\ Holders(c)' = Holders(c) \ {<<d, o>>}
          /\ <<d, o>> \in Holders(c) <=> probe[d][o] = "inside"
      <4>1. /\ UNCHANGED phase
            /\ \A b \in Detection, p \in Probe :
                   probe'[b][p] = IF b = d /\ p = o THEN "cancelled" ELSE probe[b][p]
        BY <2>1, <2>4 DEF ProbeCancelled, TypeOK
      <4> QED
        BY <4>1, OneProbe
    <3>3. CASE probe[d][o] = "inside"
      BY <2>4, <3>1, <3>2, <3>3, HolderLost DEF ProbeCancelled, GivesBack
    <3>4. CASE probe[d][o] # "inside"
      <4>1. \A e \in Class : Holders(e)' = Holders(e)
        BY <3>2, <3>4
      <4> QED
        BY <2>4, <3>1, <3>4, <4>1, HoldersKept DEF ProbeCancelled, GivesBack
    <3> QED
      BY <3>3, <3>4
  <2> QED
    BY <1>1, <2>2, <2>3, <2>4 DEF ProbeStep
<1>2. ASSUME NEW d \in Detection, Detect(d) \/ Deadline(d) \/ ThreadEnds(d)
      PROVE  NotStarted' /\ SlotsConserved'
  <2>1. /\ UNCHANGED avail /\ UNCHANGED probe
        /\ \A e \in Detection :
              /\ phase'[e] \in Working <=> phase[e] \in Working
              /\ phase'[e] \in {"idle", "waiting"} <=> phase[e] \in {"idle", "waiting"}
    BY <1>2 DEF Detect, Deadline, ThreadEnds, TypeOK, Working
  <2>2. \A c \in Class : Holders(c)' = Holders(c)
    BY <2>1, SameHolders
  <2>3. SlotsConserved'
    BY <2>1, <2>2, HoldersKept
  <2> QED
    BY <2>1, <2>3 DEF NotStarted
<1>3. ASSUME NEW d \in Detection, TakesTotal(d) PROVE NotStarted' /\ SlotsConserved'
  <2>1. /\ phase' = [phase EXCEPT ![d] = "tcp"] /\ StartProbes(d, Port)
        /\ Acquire("total") /\ phase[d] = "waiting"
    BY <1>3 DEF TakesTotal
  <2>2. NotStarted'
    BY <2>1, Started DEF NotStarted, TypeOK
  <2>3. \A o \in Probe : probe[d][o] # "inside"
    BY <2>1 DEF NotStarted
  <2>4. d \notin Holders("total") /\ Holders("total")' = Holders("total") \cup {d}
    BY <2>1 DEF Holders, TypeOK, Working
  <2> QED
    BY <2>1, <2>2, <2>3, <2>4, StartKeepsHolders, HolderGained DEF Class
<1>4. ASSUME NEW d \in Detection, PhaseEnds(d) PROVE NotStarted' /\ SlotsConserved'
  <2>1. /\ AllEnded(d) /\ UNCHANGED avail /\ phase[d] \in Working
        /\ \E ph \in Working : phase' = [phase EXCEPT ![d] = ph]
        /\ UNCHANGED probe \/ \E S \in {FirstProbes(d), FallbackProbes(d)} : StartProbes(d, S)
    BY <1>4 DEF PhaseEnds, Identifies, Raises, Finish, GoOn, Working
  <2>2. \A o \in Probe : probe[d][o] # "inside"
    BY <2>1 DEF AllEnded, Active
  <2>3. \A e \in Class \ {"total"} : Holders(e)' = Holders(e)
    BY <2>1, <2>2, StartKeepsHolders DEF Holders
  <2>4. /\ \A e \in Detection \ {d} : phase'[e] = phase[e] /\ probe'[e] = probe[e]
        /\ phase'[d] \in Working
    BY <2>1, Started DEF TypeOK
  <2>5. Holders("total")' = Holders("total")
    BY <2>1, <2>4 DEF Holders
  <2>6. NotStarted'
    BY <2>4 DEF NotStarted, Working
  <2> QED
    BY <2>1, <2>3, <2>5, <2>6, HoldersKept
<1>5. ASSUME NEW d \in Detection, Returns(d) \/ TornDown(d) PROVE NotStarted' /\ SlotsConserved'
  <2>1. /\ phase[d] \in Working /\ phase' = [phase EXCEPT ![d] = "over"]
        /\ Release("total") /\ UNCHANGED probe
    BY <1>5 DEF Returns, TornDown, Leaves, Working
  <2> QED
    BY <2>1, TotalGivenBack DEF NotStarted, TypeOK
<1>6. ASSUME NEW d \in Detection, Cancel(d) PROVE NotStarted' /\ SlotsConserved'
  <2>1. CASE CancelTeardown(d)
    <3>1. /\ phase[d] \in Working /\ phase' = [phase EXCEPT ![d] = "over"]
          /\ Release("total") /\ UNCHANGED probe
      BY <1>6, <2>1 DEF Cancel, CancelTeardown, Leaves
    <3> QED
      BY <3>1, TotalGivenBack DEF NotStarted, TypeOK
  <2>2. CASE CancelWaiting(d) \/ CancelWorking(d) \/ CancelIgnored(d)
    <3>1. /\ UNCHANGED avail /\ UNCHANGED probe
          /\ \A e \in Detection :
                /\ phase'[e] \in Working <=> phase[e] \in Working
                /\ phase'[e] \in {"idle", "waiting"} => phase[e] \in {"idle", "waiting"}
      BY <1>6, <2>2 DEF Cancel, CancelWaiting, CancelWorking, CancelIgnored, TypeOK, Working
    <3>2. \A c \in Class : Holders(c)' = Holders(c)
      BY <3>1, SameHolders
    <3>3. SlotsConserved'
      BY <3>1, <3>2, HoldersKept
    <3> QED
      BY <3>1, <3>3 DEF NotStarted
  <2> QED
    BY <1>6, <2>1, <2>2 DEF Cancel
<1>7. CASE UNCHANGED vars
  <2>1. \A c \in Class : Holders(c)' = Holders(c)
    BY <1>7 DEF vars, Holders
  <2> QED
    BY <1>0, <1>7, <2>1, HoldersKept DEF vars, NotStarted
<1> QED
  BY <1>0, <1>1, <1>2, <1>3, <1>4, <1>5, <1>6, <1>7 DEF Next, CallStep, Finished

\* Nobody holds a slot of a new budget.
LEMMA SlotInit == Init => SlotInv
<1> SUFFICES ASSUME Init PROVE SlotInv
  OBVIOUS
<1>1. \A c \in Class : Holders(c) = {}
  BY ProbeClasses DEF Init, Holders, Working
<1>2. SlotsConserved
  <2>1. Cardinality({}) = 0
    BY FS_EmptySet
  <2>2. \A c \in Class : Limit[c] \in Nat /\ avail[c] = Limit[c]
    BY LimitAssumption DEF Init
  <2> QED
    BY <1>1, <2>1, <2>2 DEF SlotsConserved
<1> QED
  BY <1>2, TypeInit DEF Init, SlotInv, NotStarted

\* The types of the budget and of the calls of detect() hold in every state.
THEOREM TypeCorrect == Spec => []TypeOK
BY TypeInit, TypeStep, PTL DEF Spec

\* No slot of the budget is lost or made, whatever ends a detection.
THEOREM SlotsConservedHolds == Spec => []SlotsConserved
<1>1. SlotInv => SlotsConserved
  BY DEF SlotInv
<1> QED
  BY <1>1, SlotInit, SlotStep, PTL DEF Spec

----------------------------------------------------------------------------
(* The calls.                                                              *)

\* In the phase of the ports no protocol probe of a call runs, and when it is
\* finished none is left; when it is over, none is left unless its teardown was
\* cut off.
Probing(d) ==
    /\ phase[d] \in {"tcp", "finished"} => \A o \in Probe \ Port : probe[d][o] \notin Active
    /\ phase[d] = "over" /\ ending[d] # "interrupted" =>
          \A o \in Probe \ Port : probe[d][o] \notin Active
    /\ ending[d] = "interrupted" => inTask /\ phase[d] = "over"

\* A call whose caller was cancelled before the result was there unwinds or has
\* done so.
Asked(d) ==
    /\ phase[d] = "finished" /\ inTask => ending[d] = "no"
    /\ d \in asked =>
         \/ phase[d] \in Working /\ ending[d] = "cancelled"
         \/ phase[d] = "over" /\ status[d] = "cancelled"

CallInv == \A d \in Detection : Probing(d) /\ Asked(d)

\* Probe tasks, deadlines, callers and the phases of detect() keep both.
LEMMA CallInvStep == ASSUME SlotInv, CallInv, [Next]_vars PROVE CallInv'
<1> SUFFICES ASSUME NEW e \in Detection PROVE Probing(e)' /\ Asked(e)'
  BY DEF CallInv
<1> TypeOK /\ NotStarted /\ Probing(e) /\ Asked(e)
  BY DEF CallInv, SlotInv
<1>1. ASSUME NEW d \in Detection, NEW c \in Class, NEW o \in Probes(c),
             ProbeStep(d, c, o)
      PROVE  Probing(e)' /\ Asked(e)'
  <2>1. o \in Probe
    BY ProbeClasses
  <2>2. /\ UNCHANGED <<phase, ending, status, asked, inTask>>
        /\ \A p \in Probe : probe'[e][p] \in Active => probe[e][p] \in Active
    BY <1>1, <2>1 DEF ProbeStep, ProbeEnters, ProbeEnds, ProbeCancelled, TypeOK, Active
  <2> QED
    BY <2>2 DEF Probing, Asked
<1>2. ASSUME NEW d \in Detection, Detect(d) \/ Deadline(d) \/ ThreadEnds(d)
      PROVE  Probing(e)' /\ Asked(e)'
  <2>1. /\ UNCHANGED <<probe, status, asked, inTask>>
        /\ phase'[e] = phase[e] \/ (phase[e] = "idle" /\ phase'[e] = "waiting")
        /\ \/ ending'[e] = ending[e]
           \/ /\ ending[e] = "no" /\ ending'[e] = "timeout" /\ phase[e] \in Working
              /\ phase[e] = "finished" => ~inTask
    <3>1. CASE Detect(d)
      BY <3>1 DEF Detect, TypeOK
    <3>2. CASE Deadline(d)
      BY <3>2 DEF Deadline, Interruptible, TypeOK
    <3>3. CASE ThreadEnds(d)
      BY <3>3 DEF ThreadEnds
    <3> QED
      BY <1>2, <3>1, <3>2, <3>3
  <2> QED
    BY <2>1 DEF Probing, Asked, Working
<1>3. ASSUME NEW d \in Detection, TakesTotal(d) PROVE Probing(e)' /\ Asked(e)'
  <2>1. /\ phase[d] = "waiting" /\ phase' = [phase EXCEPT ![d] = "tcp"]
        /\ StartProbes(d, Port) /\ UNCHANGED <<ending, status, asked, inTask>>
    BY <1>3 DEF TakesTotal
  <2>2. CASE e = d
    <3>1. \A o \in Probe : probe[d][o] = "none"
      BY <2>1 DEF NotStarted
    <3>2. \A o \in Probe \ Port : probe'[d][o] = "none"
      BY <2>1, <3>1, Started
    <3>3. d \notin asked /\ phase'[d] = "tcp"
      BY <2>1, <2>2 DEF Asked, Working, TypeOK
    <3> QED
      BY <2>1, <2>2, <3>2, <3>3 DEF Probing, Asked, Active
  <2>3. CASE e # d
    <3>1. phase'[e] = phase[e] /\ probe'[e] = probe[e]
      BY <2>1, <2>3, Started DEF TypeOK
    <3> QED
      BY <2>1, <3>1 DEF Probing, Asked
  <2> QED
    BY <2>2, <2>3
<1>4. ASSUME NEW d \in Detection, PhaseEnds(d) PROVE Probing(e)' /\ Asked(e)'
  <2>1. /\ AllEnded(d) /\ ending[d] = "no" /\ phase[d] \in Working \ {"finished"}
        /\ UNCHANGED <<ending, asked, inTask>>
    BY <1>4 DEF PhaseEnds, Working
  <2>2. CASE e = d
    <3>1. \/ phase'[d] = "finished" /\ UNCHANGED probe
          \/ phase'[d] \in {"first", "fallback"}
      BY <1>4 DEF PhaseEnds, Identifies, Raises, Finish, GoOn, TypeOK
    <3>2. d \notin asked
      BY <2>1, <2>2 DEF Asked, Working
    <3> QED
      BY <2>1, <2>2, <3>1, <3>2 DEF Probing, Asked, AllEnded
  <2>3. CASE e # d
    <3>1. \/ UNCHANGED probe
          \/ \E S \in {FirstProbes(d), FallbackProbes(d)} : StartProbes(d, S)
      BY <1>4 DEF PhaseEnds, Identifies, Raises, Finish, GoOn
    <3>2. phase'[e] = phase[e] /\ status'[e] = status[e]
      BY <1>4, <2>3 DEF PhaseEnds, Identifies, Raises, Finish, GoOn, TypeOK
    <3>3. probe'[e] = probe[e]
      BY <2>3, <3>1, Started
    <3> QED
      BY <2>1, <3>2, <3>3 DEF Probing, Asked
  <2> QED
    BY <2>2, <2>3
<1>5. ASSUME NEW d \in Detection, Returns(d) PROVE Probing(e)' /\ Asked(e)'
  BY <1>5 DEF Returns, Probing, Asked, TypeOK
<1>6. ASSUME NEW d \in Detection, TornDown(d) PROVE Probing(e)' /\ Asked(e)'
  <2>1. /\ phase[d] \in Working /\ Unwound(d) /\ ending[d] \in Unwinding
        /\ phase' = [phase EXCEPT ![d] = "over"]
        /\ status' = [status EXCEPT ![d] = ending[d]]
        /\ UNCHANGED <<probe, asked, ending, inTask>>
    BY <1>6 DEF TornDown, Leaves
  <2>2. \A o \in Probe \ Port : e = d => probe[e][o] \notin Active
    BY <2>1 DEF Unwound, AllEnded, Probing
  <2> QED
    BY <2>1, <2>2 DEF Probing, Asked, TypeOK, Working, Unwinding
<1>7. ASSUME NEW d \in Detection, Cancel(d) PROVE Probing(e)' /\ Asked(e)'
  <2>1. /\ UNCHANGED <<probe, inTask>>
        /\ asked' = asked \cup {d} \/ CancelIgnored(d)
    BY <1>7 DEF Cancel
  <2>2. CASE CancelWaiting(d)
    <3>1. \A o \in Probe : e = d => probe[e][o] = "none"
      BY <2>2 DEF CancelWaiting, NotStarted
    <3>2. phase[d] = "waiting"
      BY <2>2 DEF CancelWaiting
    <3> QED
      BY <2>1, <2>2, <3>1, <3>2 DEF CancelWaiting, CancelIgnored, Probing, Asked, TypeOK, Active
  <2>3. CASE CancelTeardown(d)
    <3>1. /\ phase' = [phase EXCEPT ![d] = "over"] /\ status' = [status EXCEPT ![d] = "cancelled"]
          /\ ending' = [ending EXCEPT ![d] = "interrupted"] /\ inTask
          /\ phase[d] \in Working /\ ending[d] \in Unwinding
      BY <2>3 DEF CancelTeardown, Leaves
    <3>2. asked' \subseteq asked \cup {d}
      BY <2>1 DEF CancelIgnored
    <3> QED
      BY <2>1, <3>1, <3>2 DEF Probing, Asked, TypeOK
  <2>4. CASE CancelWorking(d)
    <3>1. asked' \subseteq asked \cup {d}
      BY <2>1 DEF CancelIgnored
    <3>2. ending[d] # "interrupted"
      BY <2>4 DEF CancelWorking, Interruptible, CallInv, Probing, Working
    <3> QED
      BY <2>1, <2>4, <3>1, <3>2 DEF CancelWorking, Interruptible, Probing, Asked, TypeOK, Working
  <2>5. CASE CancelIgnored(d)
    <3>1. UNCHANGED <<phase, ending, status, asked>>
      BY <2>5 DEF CancelIgnored
    <3> QED
      BY <2>1, <3>1 DEF Probing, Asked
  <2> QED
    BY <1>7, <2>2, <2>3, <2>4, <2>5 DEF Cancel
<1>8. CASE UNCHANGED vars
  BY <1>8 DEF vars, Probing, Asked
<1> QED
  BY <1>1, <1>2, <1>3, <1>4, <1>5, <1>6, <1>7, <1>8 DEF Next, CallStep, Finished

\* No call has begun.
LEMMA CallInit == Init => CallInv
BY DEF Init, CallInv, Probing, Asked

\* Both invariants together are inductive.
LEMMA CallInvHolds == Spec => [](SlotInv /\ CallInv)
<1>1. Init => SlotInv /\ CallInv
  BY SlotInit, CallInit
<1>2. SlotInv /\ CallInv /\ [Next]_vars => SlotInv' /\ CallInv'
  BY SlotStep, CallInvStep
<1> QED
  BY <1>1, <1>2, PTL DEF Spec

\* A protocol probe runs under "total": it does not outlive its call, unless a
\* second cancellation cuts the teardown off, before Python 3.12.
THEOREM ProbesUnderTotalHolds == Spec => []ProbesUnderTotal
<1>1. CallInv => ProbesUnderTotal
  BY DEF CallInv, Probing, ProbesUnderTotal, Active
<1> QED
  BY <1>1, CallInvHolds, PTL

\* A caller cancelled before its result is there gets CancelledError.
THEOREM CancelledIsToldHolds == Spec => []CancelledIsTold
<1>1. SlotInv /\ CallInv => CancelledIsTold
  <2> SUFFICES ASSUME SlotInv, CallInv, NEW d \in asked, phase[d] = "over"
               PROVE  status[d] = "cancelled"
    BY DEF CancelledIsTold
  <2>1. d \in Detection /\ Asked(d)
    BY DEF CallInv, SlotInv, TypeOK
  <2> QED
    BY <2>1 DEF Asked, Working
<1> QED
  BY <1>1, CallInvHolds, PTL

============================================================================
