-------------------------- MODULE HttpClientProofs --------------------------
(***************************************************************************)
(* The search for the base URL, the cache, and close(), for any number of  *)
(* calls, test paths and changes of the device, and any lifetimes.         *)
(***************************************************************************)
EXTENDS HttpClient, SequenceTheorems, TLAPS

\* A sequence without its element p.
LEMMA RemoveAt_Elems ==
    ASSUME NEW S, NEW s \in Seq(S), NEW p \in 1 .. Len(s)
    PROVE  /\ RemoveAt(s, p) \in Seq(S) /\ Len(RemoveAt(s, p)) = Len(s) - 1
           /\ \A i \in 1 .. Len(s) - 1 : RemoveAt(s, p)[i] = s[IF i < p THEN i ELSE i + 1]
<1> DEFINE a == SubSeq(s, 1, p - 1)
           b == SubSeq(s, p + 1, Len(s))
<1>1. Len(s) \in Nat /\ p \in Nat /\ 1 <= p /\ p <= Len(s)
  OBVIOUS
<1>2. a \in Seq(S) /\ Len(a) = p - 1 /\ \A i \in 1 .. p - 1 : a[i] = s[i]
  BY <1>1
<1>3. b \in Seq(S) /\ Len(b) = Len(s) - p /\ \A i \in 1 .. Len(s) - p : b[i] = s[p + i]
  BY <1>1
<1> HIDE DEF a, b
<1>4. /\ a \o b \in Seq(S) /\ Len(a \o b) = Len(s) - 1
      /\ \A i \in 1 .. Len(s) - 1 : (a \o b)[i] = IF i <= p - 1 THEN a[i] ELSE b[i - (p - 1)]
  <2>1. /\ a \o b \in Seq(S) /\ Len(a \o b) = Len(a) + Len(b)
        /\ \A i \in 1 .. Len(a) + Len(b) : (a \o b)[i] = IF i <= Len(a) THEN a[i] ELSE b[i - Len(a)]
    <3> a \in Seq(S) /\ b \in Seq(S)
      BY <1>2, <1>3
    <3> QED
      BY ConcatProperties, Zenon
  <2>2. Len(a) + Len(b) = Len(s) - 1
    BY <1>1, <1>2, <1>3
  <2> QED
    BY <1>2, <2>1, <2>2
<1>5. ASSUME NEW i \in 1 .. Len(s) - 1 PROVE (a \o b)[i] = s[IF i < p THEN i ELSE i + 1]
  <2>1. CASE i < p
    <3>1. i <= p - 1 /\ i \in 1 .. p - 1
      BY <1>1, <2>1
    <3> QED
      BY <1>2, <1>4, <2>1, <3>1
  <2>2. CASE i >= p
    <3>1. i - (p - 1) \in 1 .. Len(s) - p /\ p + (i - (p - 1)) = i + 1 /\ ~(i <= p - 1) /\ ~(i < p)
      BY <1>1, <2>2
    <3>2. (a \o b)[i] = b[i - (p - 1)]
      BY <1>4, <3>1
    <3>3. b[i - (p - 1)] = s[p + (i - (p - 1))]
      BY <1>3, <3>1
    <3> QED
      BY <3>1, <3>2, <3>3
  <2>3. i < p \/ i >= p
    BY <1>1
  <2> QED
    BY <2>1, <2>2, <2>3
<1>6. RemoveAt(s, p) = a \o b
  BY DEF RemoveAt, a, b
<1> QED
  BY <1>4, <1>5, <1>6

Distinct(s) == \A i, j \in DOMAIN s : s[i] = s[j] => i = j
Elems(s)    == {s[i] : i \in DOMAIN s}

\* A call joins the queue.
LEMMA Joins ==
    ASSUME NEW S, NEW s \in Seq(S), NEW e \in S, Distinct(s), e \notin Elems(s)
    PROVE  /\ Append(s, e) \in Seq(S) /\ Distinct(Append(s, e))
           /\ Elems(Append(s, e)) = Elems(s) \cup {e}
           /\ Head(Append(s, e)) = IF s = <<>> THEN e ELSE Head(s)
<1>1. /\ Append(s, e) \in Seq(S) /\ Len(Append(s, e)) = Len(s) + 1
      /\ Len(s) \in Nat /\ DOMAIN s = 1 .. Len(s)
      /\ DOMAIN Append(s, e) = 1 .. Len(s) + 1
  OBVIOUS
<1>2. (\A i \in 1 .. Len(s) : Append(s, e)[i] = s[i]) /\ Append(s, e)[Len(s) + 1] = e
  OBVIOUS
<1>3. \A i \in 1 .. Len(s) + 1 : i \in 1 .. Len(s) \/ i = Len(s) + 1
  BY <1>1
<1>4. Elems(Append(s, e)) = Elems(s) \cup {e}
  BY <1>1, <1>2, <1>3 DEF Elems
<1>5. Distinct(Append(s, e))
  BY <1>1, <1>2, <1>3 DEF Elems, Distinct
<1>6. Head(Append(s, e)) = Append(s, e)[1] /\ (s # <<>> => Len(s) >= 1 /\ Head(s) = s[1])
  BY <1>1
<1>7. s = <<>> => Len(s) = 0
  OBVIOUS
<1> QED
  BY <1>1, <1>2, <1>4, <1>5, <1>6, <1>7

\* A call leaves the queue, if it is in it.
LEMMA Leaves ==
    ASSUME lock \in Seq(Call), Distinct(lock), NEW c
    PROVE  /\ Without(c) \in Seq(Call) /\ Distinct(Without(c))
           /\ Elems(Without(c)) = Elems(lock) \ {c}
           /\ lock # <<>> /\ Head(lock) # c => Head(Without(c)) = Head(lock)
<1>1. Len(lock) \in Nat /\ DOMAIN lock = 1 .. Len(lock)
  OBVIOUS
<1>2. CASE Queued(c) = {}
  <2>1. Without(c) = lock /\ c \notin Elems(lock)
    BY <1>2 DEF Without, Queued, Elems
  <2> QED
    BY <2>1
<1>3. CASE Queued(c) # {}
  <2> DEFINE p == CHOOSE i \in Queued(c) : TRUE
             r == RemoveAt(lock, p)
  <2>1. p \in 1 .. Len(lock) /\ lock[p] = c
    BY <1>1, <1>3 DEF Queued
  <2>2. Without(c) = r
    BY <1>3 DEF Without
  <2> HIDE DEF p
  <2>3. /\ r \in Seq(Call) /\ Len(r) = Len(lock) - 1
        /\ \A i \in 1 .. Len(lock) - 1 : r[i] = lock[IF i < p THEN i ELSE i + 1]
    BY <2>1, RemoveAt_Elems
  <2> HIDE DEF r
  <2>4. DOMAIN r = 1 .. Len(lock) - 1
    BY <2>3
  <2> DEFINE f(i) == IF i < p THEN i ELSE i + 1
  <2>5. \A i \in 1 .. Len(lock) - 1 : f(i) \in 1 .. Len(lock) /\ f(i) # p /\ r[i] = lock[f(i)]
    BY <1>1, <2>1, <2>3
  <2>6. \A i, j \in 1 .. Len(lock) - 1 : f(i) = f(j) => i = j
    BY <1>1, <2>1
  <2>7. \A k \in 1 .. Len(lock) : k # p => \E i \in 1 .. Len(lock) - 1 : f(i) = k
    <3>1. ASSUME NEW k \in 1 .. Len(lock), k < p PROVE \E i \in 1 .. Len(lock) - 1 : f(i) = k
      BY <1>1, <2>1, <3>1
    <3>2. ASSUME NEW k \in 1 .. Len(lock), k > p PROVE \E i \in 1 .. Len(lock) - 1 : f(i) = k
      <4>1. k - 1 \in 1 .. Len(lock) - 1 /\ f(k - 1) = k
        BY <1>1, <2>1, <3>2
      <4> QED
        BY <4>1
    <3> QED
      BY <1>1, <2>1, <3>1, <3>2
  <2> HIDE DEF f
  <2>8. Distinct(r)
    BY <1>1, <2>4, <2>5, <2>6 DEF Distinct
  <2>9. Elems(r) = Elems(lock) \ {c}
    <3>1. \A i \in DOMAIN r : r[i] \in Elems(lock) /\ r[i] # c
      BY <1>1, <2>1, <2>4, <2>5 DEF Elems, Distinct
    <3>2. \A k \in DOMAIN lock : lock[k] # c => lock[k] \in Elems(r)
      BY <1>1, <2>1, <2>4, <2>5, <2>7 DEF Elems
    <3> QED
      BY <3>1, <3>2 DEF Elems
  <2>10. ASSUME Head(lock) # c PROVE Head(r) = Head(lock)
    <3>1. 1 < p /\ Len(lock) >= 2
      BY <1>1, <2>1, <2>10
    <3>2. r[1] = lock[1] /\ r # <<>>
      BY <2>3, <3>1
    <3> QED
      BY <2>3, <3>1, <3>2
  <2> QED
    BY <2>2, <2>3, <2>8, <2>9, <2>10
<1> QED
  BY <1>2, <1>3

----------------------------------------------------------------------------
(* The inductive invariant.                                                *)

\* The cache says what the last searches came to.
Remembers ==
    /\ foundAt # None => baseUrl # None /\ baseTs = foundAt
    /\ notFoundTs = IF failedAt = None THEN 0 ELSE failedAt

\* A test that the device has passed all the while is still to come.
Ahead == \A c \in Call : pc[c] = "searching" => \A k \in steady : k >= test

\* The thread that holds the session lock is in the Digest request; a thread
\* that works is that of a call under way or cancelled.
Threads ==
    /\ \A c \in Call : thread[c] = "digest" <=> owner = c
    /\ \A c \in Call : pc[c] \notin {"request", "returned", "cancelled"} => thread[c] = "none"
    /\ \A c \in Call : pc[c] = "returned" => thread[c] \in {"none", "ended"}
    /\ closing = "blocked" => \A c \in Call : pc[c] \in {"idle", "returned", "cancelled"}

IInv == TypeOK /\ Remembers /\ Ahead /\ Threads

Stage     == {"none", "queued", "anonymous", "locking", "digest", "basic", "ended"}
Searching == {"searching", "leaving", "failed"}
HasPlace  == {"waiting"} \cup Searching
AnyPc     == {"idle", "request", "returned", "cancelled"} \cup HasPlace

\* A new client on a host that may have booted just now.
LEMMA InvInit == Init => IInv
<1> SUFFICES ASSUME Init PROVE IInv
  OBVIOUS
<1> USE DEF Init
<1>1. /\ now \in 0 .. MaxNow /\ changes \in 0 .. MaxChanges /\ baseTs \in 0 .. now /\ notFoundTs \in 0 .. now
      /\ test \in Test
  BY ClockAssumption, PathsAssumption DEF Test
<1>2. creds \in BOOLEAN /\ session \in BOOLEAN /\ (session => creds)
  OBVIOUS
<1>3. flags \in [Call -> [anonymous : BOOLEAN, basic : BOOLEAN]]
  OBVIOUS
<1>4. Types
  BY <1>1, <1>2, <1>3 DEF Types
<1>5. LockQueue
  BY DEF LockQueue, InLock, InSearch
<1>6. Remembers /\ Ahead
  BY DEF Remembers, Ahead
<1>7. Threads
  BY NoneAssumption DEF Threads
<1> QED
  BY <1>4, <1>5, <1>6, <1>7 DEF IInv, TypeOK

\* The types of what a step of the event loop for call c leaves alone.
LEMMA LoopTypes ==
    ASSUME Types, NEW c \in Call, NEW s \in AnyPc, pc' = [pc EXCEPT ![c] = s],
           UNCHANGED <<env, last, session, owner, creds, closing>>,
           flags' \in [Call -> [anonymous : BOOLEAN, basic : BOOLEAN]],
           thread' \in [Call -> Stage],
           baseUrl' \in Scheme \cup {None}, baseTs' \in 0 .. now, notFoundTs' \in 0 .. now,
           known' \in Scheme \cup {None}, test' \in Test, steady' \subseteq device,
           foundAt' \in 0 .. now \cup {None}, failedAt' \in 0 .. now \cup {None}
    PROVE  Types'
<1>1. pc' \in [Call -> AnyPc]
  BY DEF Types, AnyPc, HasPlace, Searching
<1>2. (creds \in BOOLEAN /\ session \in BOOLEAN /\ (session => creds))'
  BY DEF Types
<1>3. now' = now /\ device' = device /\ changes' = changes /\ last' = last /\ owner' = owner /\ closing' = closing
      /\ Test' = Test /\ Scheme' = Scheme
  BY DEF env, Test, Scheme
<1> QED
  BY <1>1, <1>2, <1>3 DEF Types, AnyPc, HasPlace, Searching, Stage

\* A call that keeps its place in the queue, or has none before and after.
LEMMA KeepsPlace ==
    ASSUME TypeOK, NEW c \in Call, NEW s \in AnyPc, pc' = [pc EXCEPT ![c] = s], lock' = lock,
           s \in HasPlace <=> pc[c] \in HasPlace,
           s \in Searching => Head(lock) = c
    PROVE  LockQueue'
<1>1. pc \in [Call -> AnyPc] /\ LockQueue
  BY DEF TypeOK, Types, AnyPc, HasPlace, Searching
<1>2. pc'[c] = s /\ \A d \in Call : d # c => pc'[d] = pc[d]
  BY <1>1
<1> QED
  BY <1>1, <1>2 DEF LockQueue, InLock, InSearch, HasPlace, Searching

\* A call that takes the last place; it searches if it is the first.
LEMMA TakesPlace ==
    ASSUME TypeOK, NEW c \in Call, NEW s \in HasPlace, pc' = [pc EXCEPT ![c] = s],
           lock' = Append(lock, c), pc[c] \notin HasPlace,
           s \in Searching => lock = <<>>
    PROVE  LockQueue'
<1>1. pc \in [Call -> AnyPc] /\ LockQueue
  BY DEF TypeOK, Types, AnyPc, HasPlace, Searching
<1>2. pc'[c] = s /\ \A d \in Call : d # c => pc'[d] = pc[d]
  BY <1>1
<1>3. InLock = Elems(lock) /\ InLock' = Elems(lock')
  BY DEF InLock, Elems
<1>4. c \notin Elems(lock) /\ Distinct(lock) /\ lock \in Seq(Call)
  BY <1>1, <1>3 DEF LockQueue, InSearch, HasPlace, Searching, Distinct
<1>5. /\ lock' \in Seq(Call) /\ Distinct(lock') /\ Elems(lock') = Elems(lock) \cup {c}
      /\ Head(lock') = IF lock = <<>> THEN c ELSE Head(lock)
  BY <1>4, Joins
<1>6. lock = <<>> => InLock = {}
  BY DEF InLock
<1>7. InLock' = {d \in Call : InSearch(d) \/ pc[d] = "waiting"}'
  BY <1>1, <1>2, <1>3, <1>5 DEF LockQueue, InSearch, HasPlace, Searching
<1>8. ASSUME NEW d \in Call, InSearch(d)' PROVE Head(lock') = d
  <2>1. CASE d = c
    BY <1>2, <1>5, <1>8, <2>1 DEF InSearch, Searching
  <2>2. CASE d # c
    <3>1. InSearch(d) /\ lock # <<>>
      BY <1>1, <1>2, <1>6, <1>8, <2>2 DEF InSearch, LockQueue
    <3> QED
      BY <1>1, <1>5, <3>1 DEF LockQueue
  <2> QED
    BY <2>1, <2>2
<1> QED
  BY <1>5, <1>7, <1>8 DEF LockQueue, Distinct

\* A call that gives its place up, if it has one.
LEMMA LeavesPlace ==
    ASSUME TypeOK, NEW c \in Call, NEW s \in AnyPc \ HasPlace, pc' = [pc EXCEPT ![c] = s],
           lock' = Unlocked(c)
    PROVE  LockQueue'
<1>1. pc \in [Call -> AnyPc] /\ LockQueue
  BY DEF TypeOK, Types, AnyPc, HasPlace, Searching
<1>2. pc'[c] = s /\ \A d \in Call : d # c => pc'[d] = pc[d]
  BY <1>1
<1>3. InLock = Elems(lock) /\ InLock' = Elems(lock')
  BY DEF InLock, Elems
<1>4. Distinct(lock) /\ lock \in Seq(Call) /\ lock' = Without(c)
  BY <1>1 DEF LockQueue, Distinct, Unlocked
<1>5. /\ lock' \in Seq(Call) /\ Distinct(lock') /\ Elems(lock') = Elems(lock) \ {c}
      /\ lock # <<>> /\ Head(lock) # c => Head(lock') = Head(lock)
  BY <1>4, Leaves
<1>6. lock = <<>> => InLock = {}
  BY DEF InLock
<1>7. InLock' = {d \in Call : InSearch(d) \/ pc[d] = "waiting"}'
  BY <1>1, <1>2, <1>3, <1>5 DEF LockQueue, InSearch, HasPlace, Searching
<1>8. ASSUME NEW d \in Call, InSearch(d)' PROVE Head(lock') = d
  <2>1. d # c
    BY <1>2, <1>8 DEF InSearch, HasPlace, Searching
  <2>2. InSearch(d) /\ lock # <<>> /\ Head(lock) = d
    BY <1>1, <1>2, <1>6, <1>8, <2>1 DEF InSearch, LockQueue
  <2> QED
    BY <1>5, <2>1, <2>2
<1> QED
  BY <1>5, <1>7, <1>8 DEF LockQueue, Distinct
\* The thread of a call as a step of the event loop leaves it.
LEMMA LoopThreads ==
    ASSUME Types, Threads, closing = "open", closing' = closing, owner' = owner,
           NEW c \in Call, NEW s \in AnyPc, pc' = [pc EXCEPT ![c] = s],
           NEW t \in Stage, thread' = [thread EXCEPT ![c] = t],
           t = "digest" <=> thread[c] = "digest",
           s \notin {"request", "returned", "cancelled"} => t = "none",
           s = "returned" => t \in {"none", "ended"}
    PROVE  Threads' /\ thread' \in [Call -> Stage]
<1>1. /\ pc'[c] = s /\ (\A d \in Call : d # c => pc'[d] = pc[d])
      /\ thread'[c] = t /\ (\A d \in Call : d # c => thread'[d] = thread[d])
      /\ thread' \in [Call -> Stage]
  BY DEF Types, Stage
<1> QED
  BY <1>1 DEF Threads

\* A call that needs nothing but the cache: what follows it.
LEMMA CacheOutcome ==
    ASSUME IInv, NEW c \in Call, closing = "open", pc[c] \in {"idle", "waiting"},
           \/ known # None /\ Request(c) /\ UNCHANGED known
           \/ Cached /\ FromCache(c)
    PROVE  \E s \in {"request", "returned"}, t \in {"none", "queued"} :
              /\ pc' = [pc EXCEPT ![c] = s] /\ thread' = [thread EXCEPT ![c] = t]
              /\ s = "returned" => t = "none" /\ ~FreshBase /\ FreshNo
              /\ thread[c] = "none" /\ known' \in Scheme \cup {None}
<1>1. thread[c] = "none" /\ thread \in [Call -> Stage] /\ known \in Scheme \cup {None}
      /\ baseUrl \in Scheme \cup {None}
  BY DEF IInv, TypeOK, Types, Threads, Stage
<1>2. CASE Request(c) /\ known' \in {known, baseUrl}
  BY <1>1, <1>2 DEF Request
<1>3. CASE /\ ~FreshBase /\ FreshNo /\ pc' = [pc EXCEPT ![c] = "returned"]
           /\ UNCHANGED <<thread, known>>
  <2>1. thread' = [thread EXCEPT ![c] = "none"]
    BY <1>1, <1>3
  <2> QED
    BY <1>1, <1>3, <2>1
<1> QED
  BY <1>2, <1>3 DEF FromCache

\* _get is called.
LEMMA AskInv ==
    ASSUME IInv, NEW c \in Call, NEW f \in Flags, Ask(c, f)
    PROVE  IInv'
<1>1. /\ TypeOK /\ Types /\ LockQueue /\ Remembers /\ Ahead /\ Threads /\ closing = "open"
      /\ pc[c] = "idle" /\ thread[c] = "none" /\ pc[c] \notin HasPlace
  BY DEF IInv, TypeOK, Threads, Ask, RunsLoop, HasPlace, Searching
<1>2. /\ flags' \in [Call -> [anonymous : BOOLEAN, basic : BOOLEAN]]
      /\ UNCHANGED <<env, last, session, owner, creds, closing>>
      /\ UNCHANGED <<cache, foundAt, failedAt>>
  BY <1>1, FlagsAssumption DEF Ask, Types
<1>3. UNCHANGED <<baseUrl, baseTs, notFoundTs, foundAt, failedAt, now>> /\ closing' = closing /\ owner' = owner
  BY <1>2 DEF cache, env
<1>4. Remembers'
  BY <1>1, <1>3 DEF Remembers
<1>5. ASSUME NEW s \in AnyPc, pc' = [pc EXCEPT ![c] = s], NEW t \in Stage,
             thread' = [thread EXCEPT ![c] = t], t # "digest",
             s \notin {"request", "returned", "cancelled"} => t = "none",
             s = "returned" => t \in {"none", "ended"},
             known' \in Scheme \cup {None}, test' \in Test, steady' \subseteq device
      PROVE  Types' /\ Threads'
  <2>1. Threads' /\ thread' \in [Call -> Stage]
    BY <1>1, <1>3, <1>5, LoopThreads
  <2>2. /\ baseUrl' \in Scheme \cup {None} /\ baseTs' \in 0 .. now /\ notFoundTs' \in 0 .. now
        /\ foundAt' \in 0 .. now \cup {None} /\ failedAt' \in 0 .. now \cup {None}
    BY <1>1, <1>3 DEF Types
  <2> QED
    BY <1>1, <1>2, <1>5, <2>1, <2>2, LoopTypes
<1>6. test \in Test /\ 1 \in Test /\ steady \subseteq device /\ device \subseteq Test
  BY <1>1, PathsAssumption DEF Types, Test
<1>7. CASE /\ (known # None /\ Request(c) /\ UNCHANGED known) \/ (Cached /\ FromCache(c))
           /\ UNCHANGED <<lock, test, steady>>
  <2>1. PICK s \in {"request", "returned"}, t \in {"none", "queued"} :
           /\ pc' = [pc EXCEPT ![c] = s] /\ thread' = [thread EXCEPT ![c] = t]
           /\ s = "returned" => t = "none"
           /\ known' \in Scheme \cup {None}
    BY <1>1, <1>7, CacheOutcome
  <2>2. s \in AnyPc /\ s \notin HasPlace /\ s # "searching" /\ t \in Stage
    BY DEF AnyPc, HasPlace, Searching, Stage
  <2>3. Types' /\ Threads'
    BY <1>5, <1>6, <1>7, <2>1, <2>2
  <2>4. LockQueue'
    BY <1>1, <1>7, <2>1, <2>2, KeepsPlace DEF HasPlace
  <2>5. Ahead'
    BY <1>1, <1>7, <2>1, <2>2 DEF Ahead, Types
  <2> QED
    BY <1>4, <2>3, <2>4, <2>5 DEF IInv, TypeOK
<1>8. CASE /\ lock' = Append(lock, c)
           /\ IF lock = <<>>
              THEN Search(c)
              ELSE pc' = [pc EXCEPT ![c] = "waiting"] /\ UNCHANGED <<test, steady>>
           /\ UNCHANGED <<known, thread>>
  <2>1. PICK s \in {"waiting", "searching"} :
           /\ pc' = [pc EXCEPT ![c] = s] /\ (s = "searching" => lock = <<>>)
           /\ s = "searching" => test' = 1 /\ steady' = device
           /\ s = "waiting" => test' = test /\ steady' = steady
    BY <1>8 DEF Search
  <2>2. s \in AnyPc /\ s \in HasPlace /\ (s \in Searching => s = "searching") /\ "none" \in Stage
    BY DEF AnyPc, HasPlace, Searching, Stage
  <2>3. thread' = [thread EXCEPT ![c] = "none"] /\ known' \in Scheme \cup {None}
        /\ test' \in Test /\ steady' \subseteq device
    BY <1>1, <1>6, <1>8, <2>1 DEF Types
  <2>4. Types' /\ Threads'
    BY <1>5, <2>1, <2>2, <2>3
  <2>5. LockQueue'
    BY <1>1, <1>8, <2>1, <2>2, TakesPlace
  <2>6. Ahead'
    <3>1. \A k \in device : k >= 1
      BY <1>6, PathsAssumption DEF Test
    <3> QED
      BY <1>1, <2>1, <3>1 DEF Ahead, Types
  <2> QED
    BY <1>4, <2>4, <2>5, <2>6 DEF IInv, TypeOK
<1> QED
  BY <1>7, <1>8 DEF Ask

\* A waiter gets the lock.
LEMMA LockedInv ==
    ASSUME IInv, NEW c \in Call, Locked(c)
    PROVE  IInv'
<1>1. /\ TypeOK /\ Types /\ LockQueue /\ Remembers /\ Ahead /\ Threads /\ closing = "open"
      /\ pc[c] = "waiting" /\ thread[c] = "none" /\ pc[c] \in HasPlace /\ Head(lock) = c
  BY DEF IInv, TypeOK, Threads, Locked, RunsLoop, HasPlace, Searching
<1>2. UNCHANGED <<env, last, session, owner, creds, closing>> /\ flags' = flags
      /\ UNCHANGED <<cache, foundAt, failedAt>>
  BY DEF Locked
<1>3. UNCHANGED <<baseUrl, baseTs, notFoundTs, foundAt, failedAt, now>> /\ closing' = closing /\ owner' = owner
  BY <1>2 DEF cache, env
<1>4. Remembers'
  BY <1>1, <1>3 DEF Remembers
<1>5. ASSUME NEW s \in AnyPc, pc' = [pc EXCEPT ![c] = s], NEW t \in Stage,
             thread' = [thread EXCEPT ![c] = t], t # "digest",
             s \notin {"request", "returned", "cancelled"} => t = "none",
             s = "returned" => t \in {"none", "ended"},
             known' \in Scheme \cup {None}, test' \in Test, steady' \subseteq device
      PROVE  Types' /\ Threads'
  <2>1. Threads' /\ thread' \in [Call -> Stage]
    BY <1>1, <1>3, <1>5, LoopThreads
  <2>2. /\ baseUrl' \in Scheme \cup {None} /\ baseTs' \in 0 .. now /\ notFoundTs' \in 0 .. now
        /\ foundAt' \in 0 .. now \cup {None} /\ failedAt' \in 0 .. now \cup {None}
        /\ flags' \in [Call -> [anonymous : BOOLEAN, basic : BOOLEAN]]
    BY <1>1, <1>2, <1>3 DEF Types
  <2> QED
    BY <1>1, <1>2, <1>5, <2>1, <2>2, LoopTypes
<1>6. test \in Test /\ 1 \in Test /\ steady \subseteq device /\ device \subseteq Test
  BY <1>1, PathsAssumption DEF Types, Test
<1>7. CASE Cached /\ FromCache(c) /\ lock' = Unlocked(c) /\ UNCHANGED <<test, steady>>
  <2>1. PICK s \in {"request", "returned"}, t \in {"none", "queued"} :
           /\ pc' = [pc EXCEPT ![c] = s] /\ thread' = [thread EXCEPT ![c] = t]
           /\ s = "returned" => t = "none"
           /\ known' \in Scheme \cup {None}
    BY <1>1, <1>7, CacheOutcome
  <2>2. s \in AnyPc \ HasPlace /\ s # "searching" /\ t \in Stage
    BY DEF AnyPc, HasPlace, Searching, Stage
  <2>3. Types' /\ Threads'
    BY <1>5, <1>6, <1>7, <2>1, <2>2
  <2>4. LockQueue'
    BY <1>1, <1>7, <2>1, <2>2, LeavesPlace
  <2>5. Ahead'
    BY <1>1, <1>7, <2>1, <2>2 DEF Ahead, Types
  <2> QED
    BY <1>4, <2>3, <2>4, <2>5 DEF IInv, TypeOK
<1>8. CASE ~Cached /\ Search(c) /\ UNCHANGED <<lock, known, thread>>
  <2>1. pc' = [pc EXCEPT ![c] = "searching"] /\ test' = 1 /\ steady' = device
    BY <1>8 DEF Search
  <2>2. "searching" \in AnyPc /\ "searching" \in HasPlace /\ "none" \in Stage
    BY DEF AnyPc, HasPlace, Searching, Stage
  <2>3. thread' = [thread EXCEPT ![c] = "none"] /\ known' \in Scheme \cup {None}
    BY <1>1, <1>8 DEF Types
  <2>4. Types' /\ Threads'
    BY <1>5, <1>6, <2>1, <2>2, <2>3
  <2>5. LockQueue'
    BY <1>1, <1>8, <2>1, <2>2, KeepsPlace
  <2>6. Ahead'
    BY <1>6, <2>1, PathsAssumption DEF Ahead, Test
  <2> QED
    BY <1>4, <2>4, <2>5, <2>6 DEF IInv, TypeOK
<1> QED
  BY <1>7, <1>8 DEF Locked

\* The device answers the test in flight, or does not.
LEMMA TestedInv ==
    ASSUME IInv, NEW c \in Call, Tested(c)
    PROVE  IInv'
<1>1. /\ TypeOK /\ Types /\ LockQueue /\ Remembers /\ Ahead /\ Threads /\ closing = "open"
      /\ pc[c] = "searching" /\ thread[c] = "none" /\ Head(lock) = c
      /\ pc[c] \in HasPlace
  BY DEF IInv, TypeOK, Threads, Tested, RunsLoop, HasPlace, Searching, LockQueue, InSearch
<1>2. /\ UNCHANGED <<env, last, session, owner, creds, closing>> /\ thread' = thread
      /\ UNCHANGED <<notFoundTs, lock, known, flags, steady, failedAt>> /\ now' = now
  BY DEF Tested, threads, env
<1>3. PICK s \in Searching :
         /\ pc' = [pc EXCEPT ![c] = s]
         /\ \/ /\ s = "leaving" /\ test' = test /\ baseUrl' = BaseOf(test) /\ baseTs' = now /\ foundAt' = now
            \/ /\ s = "failed" /\ test' = test /\ UNCHANGED <<baseUrl, baseTs, foundAt>>
            \/ /\ s = "searching" /\ test \notin device /\ test # 4 * Paths /\ test' = test + 1
               /\ UNCHANGED <<baseUrl, baseTs, foundAt>>
  <2>1. pc = [pc EXCEPT ![c] = "searching"]
    BY <1>1 DEF Types
  <2> QED
    BY <2>1 DEF Tested, Passes, IsLast, Searching
<1>4. /\ baseUrl' \in Scheme \cup {None} /\ baseTs' \in 0 .. now /\ now \in 0 .. now
      /\ foundAt' \in 0 .. now \cup {None}
  BY <1>1, <1>3, ClockAssumption DEF Types, Scheme, BaseOf
<1>5. test' \in Test
  BY <1>1, <1>3, PathsAssumption DEF Types, Test
<1>6. s \in AnyPc /\ s \in HasPlace /\ "none" \in Stage /\ s \notin {"request", "returned", "cancelled"}
  BY <1>3 DEF AnyPc, HasPlace, Searching, Stage
<1>7. thread' = [thread EXCEPT ![c] = "none"] /\ thread \in [Call -> Stage]
  BY <1>1, <1>2 DEF Types, Stage
<1>8. Threads'
  BY <1>1, <1>2, <1>3, <1>6, <1>7, LoopThreads
<1>9. Types'
  <2>1. /\ flags' \in [Call -> [anonymous : BOOLEAN, basic : BOOLEAN]] /\ known' \in Scheme \cup {None}
        /\ notFoundTs' \in 0 .. now /\ failedAt' \in 0 .. now \cup {None} /\ steady' \subseteq device
    BY <1>1, <1>2 DEF Types
  <2> QED
    BY <1>1, <1>2, <1>3, <1>4, <1>5, <1>6, <1>7, <2>1, LoopTypes
<1>10. LockQueue'
  BY <1>1, <1>2, <1>3, <1>6, KeepsPlace
<1>11. Remembers'
  <2>1. BaseOf(test) # None /\ now # None
    BY <1>1, NoneAssumption DEF BaseOf, Types
  <2> QED
    BY <1>1, <1>2, <1>3, <2>1 DEF Remembers
<1>12. Ahead'
  <2>1. \A k \in steady : k \in Int /\ k >= test
    BY <1>1, PathsAssumption DEF Ahead, Types, Test
  <2>2. test \in Int /\ (test \notin device => test \notin steady)
    BY <1>1, PathsAssumption DEF Types, Test
  <2>3. ASSUME NEW k \in steady PROVE k >= test'
    <3>1. k \in Int /\ k >= test /\ (test \notin device => k # test)
      BY <2>1, <2>2
    <3>2. test' = test \/ (test \notin device /\ test' = test + 1)
      BY <1>3
    <3> QED
      BY <2>2, <3>1, <3>2
  <2> QED
    BY <1>2, <2>3 DEF Ahead
<1> QED
  BY <1>8, <1>9, <1>10, <1>11, <1>12 DEF IInv, TypeOK

\* A call that leaves its search, or a cancelled one: the lock is released.
LEMMA StopInv ==
    ASSUME IInv, NEW c \in Call, closing = "open",
           NEW s \in AnyPc \ HasPlace, pc' = [pc EXCEPT ![c] = s],
           NEW t \in Stage, thread' = [thread EXCEPT ![c] = t],
           t = "digest" <=> thread[c] = "digest",
           s \notin {"request", "returned", "cancelled"} => t = "none",
           s = "returned" => t \in {"none", "ended"},
           Stop(c), lock' = Unlocked(c),
           UNCHANGED <<env, flags, last, session, owner, creds, closing, baseUrl, baseTs, foundAt>>,
           \/ UNCHANGED <<notFoundTs, failedAt>>
           \/ notFoundTs' = now /\ failedAt' = now,
           known' \in Scheme \cup {None}
    PROVE  IInv'
<1>1. TypeOK /\ Types /\ LockQueue /\ Remembers /\ Ahead /\ Threads
  BY DEF IInv, TypeOK
<1>2. now' = now /\ s # "searching"
  BY DEF env, HasPlace, Searching
<1>3. Threads' /\ thread' \in [Call -> Stage]
  BY <1>1, LoopThreads
<1>4. test' \in Test /\ steady' \subseteq device /\ ((test' = test /\ steady' = steady) \/ steady' = {})
  <2>1. 1 \in Test /\ test \in Test /\ steady \subseteq device
    BY <1>1, PathsAssumption DEF Types, Test
  <2>2. (test' = 1 /\ steady' = {}) \/ (test' = test /\ steady' = steady)
    BY DEF Stop
  <2> QED
    BY <2>1, <2>2
<1>5. Types'
  <2>1. /\ flags' \in [Call -> [anonymous : BOOLEAN, basic : BOOLEAN]]
        /\ baseUrl' \in Scheme \cup {None} /\ baseTs' \in 0 .. now
        /\ foundAt' \in 0 .. now \cup {None}
    BY <1>1 DEF Types
  <2>2. notFoundTs' \in 0 .. now /\ failedAt' \in 0 .. now \cup {None}
    BY <1>1, ClockAssumption DEF Types
  <2> QED
    BY <1>1, <1>3, <1>4, <2>1, <2>2, LoopTypes
<1>6. LockQueue'
  BY <1>1, LeavesPlace
<1>7. Remembers'
  <2>1. now # None
    BY <1>1, NoneAssumption DEF Types
  <2> QED
    BY <1>1, <2>1 DEF Remembers
<1>8. Ahead'
  BY <1>1, <1>2, <1>4 DEF Ahead, Types
<1> QED
  BY <1>3, <1>5, <1>6, <1>7, <1>8 DEF IInv, TypeOK

\* The search ends, or the call is cancelled.
LEMMA EndsSearchInv ==
    ASSUME IInv, NEW c \in Call, Found(c) \/ NotFound(c) \/ Cancel(c)
    PROVE  IInv'
<1>1. Types /\ Threads /\ thread \in [Call -> Stage]
  BY DEF IInv, TypeOK, Types, Stage
<1>2. CASE Found(c)
  <2>1. /\ closing = "open" /\ pc' = [pc EXCEPT ![c] = "request"]
        /\ thread' = [thread EXCEPT ![c] = "queued"] /\ pc[c] = "leaving"
        /\ Stop(c) /\ lock' = Unlocked(c) /\ known' \in Scheme
        /\ UNCHANGED <<env, flags, last, session, owner, creds, closing, baseUrl, baseTs, foundAt>>
        /\ UNCHANGED <<notFoundTs, failedAt>>
    BY <1>2 DEF Found, RunsLoop, Request, BaseOf, Scheme, cache
  <2>2. thread[c] = "none"
    BY <1>1, <2>1 DEF Threads
  <2>3. "request" \in AnyPc \ HasPlace /\ "queued" \in Stage
    BY DEF AnyPc, HasPlace, Searching, Stage
  <2> QED
    BY <2>1, <2>2, <2>3, StopInv
<1>3. CASE NotFound(c)
  <2>1. /\ closing = "open" /\ pc' = [pc EXCEPT ![c] = "returned"]
        /\ thread' = thread /\ pc[c] = "failed"
        /\ Stop(c) /\ lock' = Unlocked(c) /\ known' = known
        /\ UNCHANGED <<env, flags, last, session, owner, creds, closing, baseUrl, baseTs, foundAt>>
        /\ notFoundTs' = now /\ failedAt' = now
    BY <1>3 DEF NotFound, RunsLoop, threads
  <2>2. thread[c] = "none" /\ thread' = [thread EXCEPT ![c] = "none"] /\ known' \in Scheme \cup {None}
    BY <1>1, <2>1 DEF Threads, Types
  <2>3. "returned" \in AnyPc \ HasPlace /\ "none" \in Stage
    BY DEF AnyPc, HasPlace, Searching, Stage
  <2> QED
    BY <2>1, <2>2, <2>3, StopInv
<1>4. CASE Cancel(c)
  <2> DEFINE t == IF thread[c] = "queued" THEN "ended" ELSE thread[c]
  <2>1. /\ closing = "open" /\ pc' = [pc EXCEPT ![c] = "cancelled"]
        /\ thread' = [thread EXCEPT ![c] = t]
        /\ Stop(c) /\ lock' = Unlocked(c) /\ known' = known
        /\ UNCHANGED <<env, flags, last, session, owner, creds, closing, baseUrl, baseTs, foundAt>>
        /\ UNCHANGED <<notFoundTs, failedAt>>
    BY <1>4 DEF Cancel, RunsLoop, CacheOnCancel, cache
  <2>2. t \in Stage /\ known' \in Scheme \cup {None} /\ (t = "digest" <=> thread[c] = "digest")
    BY <1>1, <2>1 DEF Types, Stage
  <2>3. "cancelled" \in AnyPc \ HasPlace
    BY DEF AnyPc, HasPlace, Searching
  <2> HIDE DEF t
  <2> QED
    BY <2>1, <2>2, <2>3, StopInv
<1> QED
  BY <1>2, <1>3, <1>4

\* The caller goes on with what its thread has.
LEMMA ReturnedInv ==
    ASSUME IInv, NEW c \in Call, Returned(c)
    PROVE  IInv'
<1>1. TypeOK /\ Types /\ LockQueue /\ Remembers /\ Ahead /\ Threads
  BY DEF IInv, TypeOK
<1>2. /\ closing = "open" /\ pc[c] = "request" /\ thread[c] = "ended"
      /\ pc' = [pc EXCEPT ![c] = "returned"]
      /\ UNCHANGED <<env, last, session, owner, creds, closing>> /\ thread' = thread
      /\ UNCHANGED <<baseUrl, baseTs, notFoundTs, lock, known, test, flags, steady, foundAt, failedAt>>
      /\ now' = now
  BY DEF Returned, RunsLoop, threads, cache, history, env
<1>3. thread' = [thread EXCEPT ![c] = "ended"]
  BY <1>1, <1>2 DEF Types
<1>4. "returned" \in AnyPc /\ "returned" \notin HasPlace /\ "returned" \notin Searching /\ pc[c] \notin HasPlace
      /\ "ended" \in Stage
  BY <1>2 DEF AnyPc, HasPlace, Searching, Stage
<1>5. Threads' /\ thread' \in [Call -> Stage]
  BY <1>1, <1>2, <1>3, <1>4, LoopThreads
<1>6. Types'
  <2>1. /\ flags' \in [Call -> [anonymous : BOOLEAN, basic : BOOLEAN]]
        /\ baseUrl' \in Scheme \cup {None} /\ baseTs' \in 0 .. now /\ known' \in Scheme \cup {None}
        /\ notFoundTs' \in 0 .. now /\ failedAt' \in 0 .. now \cup {None}
        /\ foundAt' \in 0 .. now \cup {None} /\ test' \in Test /\ steady' \subseteq device
    BY <1>1, <1>2 DEF Types
  <2> QED
    BY <1>1, <1>2, <1>4, <1>5, <2>1, LoopTypes
<1>7. LockQueue'
  BY <1>1, <1>2, <1>4, KeepsPlace
<1>8. Remembers' /\ Ahead'
  BY <1>1, <1>2 DEF Remembers, Ahead, Types
<1> QED
  BY <1>5, <1>6, <1>7, <1>8 DEF IInv, TypeOK

\* The request of a call goes on in its thread.
LEMMA ThreadInv ==
    ASSUME IInv, NEW c \in Call, thread[c] \notin {"none", "ended"}, NEW t \in Stage \ {"none", "queued"},
           thread' = [thread EXCEPT ![c] = t], last' \in [Call -> Status \cup {None}],
           UNCHANGED <<env, cache, lock, known, pc, test, flags, session, creds, closing, history>>,
           \/ owner' = owner /\ t # "digest" /\ thread[c] # "digest"
           \/ owner' = None /\ t # "digest" /\ thread[c] = "digest"
           \/ owner = None /\ owner' = c /\ t = "digest"
    PROVE  IInv'
<1>1. TypeOK /\ Types /\ LockQueue /\ Remembers /\ Ahead /\ Threads
  BY DEF IInv, TypeOK
<1>2. /\ thread' \in [Call -> Stage] /\ thread'[c] = t /\ t \notin {"none", "queued"}
      /\ \A d \in Call : d # c => thread'[d] = thread[d]
  BY <1>1 DEF Types, Stage
<1>3. UNCHANGED <<now, device, changes, baseUrl, baseTs, notFoundTs, steady, foundAt, failedAt>>
      /\ UNCHANGED <<lock, known, pc, test, flags, closing>>
  BY DEF env, cache, history
<1>4. (creds \in BOOLEAN /\ session \in BOOLEAN /\ (session => creds))'
  BY <1>1 DEF Types
<1>5. Types'
  <2>1. owner' \in Call \cup {None}
    BY <1>1 DEF Types
  <2>2. Test' = Test /\ Scheme' = Scheme /\ Status' = Status
    BY DEF Test, Scheme, Status
  <2> QED
    BY <1>1, <1>2, <1>3, <1>4, <2>1, <2>2 DEF Types, Stage
<1>6. LockQueue' /\ Remembers' /\ Ahead'
  BY <1>1, <1>3 DEF LockQueue, InLock, InSearch, Remembers, Ahead
<1>7. Threads'
  <2>1. pc[c] = "request" \/ pc[c] = "cancelled"
    BY <1>1 DEF Threads
  <2>2. \A d \in Call : thread'[d] = "digest" <=> owner' = d
    BY <1>1, <1>2, NoneAssumption DEF Threads
  <2> QED
    BY <1>1, <1>2, <1>3, <2>1, <2>2 DEF Threads
<1> QED
  BY <1>5, <1>6, <1>7 DEF IInv, TypeOK

\* What each step of _request_sync does to the thread.
LEMMA RequestInv ==
    ASSUME IInv, NEW c \in Call, Request_sync(c)
    PROVE  IInv'
<1>1. /\ UNCHANGED <<env, cache, lock, known, pc, test, flags, session, creds, closing, history>>
      /\ thread[c] \in {"queued", "anonymous", "locking", "digest", "basic"}
  BY DEF Request_sync, Begin, Anonymous, TakeSession, Digest, Basic
<1>2. last \in [Call -> Status \cup {None}]
  BY DEF IInv, TypeOK, Types
<1>3. ASSUME NEW s \in Status \cup {None}, NEW n \in {"locking", "basic", "ended"}, Response(c, s, n)
      PROVE  \E t \in {"locking", "basic", "ended"} :
                thread' = [thread EXCEPT ![c] = t] /\ last' \in [Call -> Status \cup {None}]
  BY <1>2, <1>3 DEF Response, Goto
<1>4. \A s : AfterSession(c, s) \in {"locking", "basic", "ended"}
  BY DEF AfterSession
<1>5. \E t \in Stage \ {"none", "queued"} :
         /\ thread' = [thread EXCEPT ![c] = t] /\ last' \in [Call -> Status \cup {None}]
         /\ \/ owner' = owner /\ t # "digest" /\ thread[c] # "digest"
            \/ owner' = None /\ t # "digest" /\ thread[c] = "digest"
            \/ owner = None /\ owner' = c /\ t = "digest"
  <2>1. CASE Begin(c)
    <3> DEFINE t == IF flags[c].anonymous THEN "anonymous" ELSE "locking"
    <3>1. thread[c] = "queued" /\ thread' = [thread EXCEPT ![c] = t] /\ last' = last /\ owner' = owner
      BY <2>1 DEF Begin, Goto
    <3>2. t \in Stage \ {"none", "queued", "digest"}
      BY DEF Stage
    <3> HIDE DEF t
    <3> QED
      BY <1>2, <3>1, <3>2
  <2>2. CASE Anonymous(c)
    BY <1>3, <2>2 DEF Anonymous, Stage
  <2>3. CASE TakeSession(c)
    <3>1. thread[c] = "locking" /\ owner = None /\ last' = last
      BY <2>3 DEF TakeSession
    <3>2. CASE session
      <4>1. owner' = c /\ thread' = [thread EXCEPT ![c] = "digest"]
        BY <2>3, <3>2 DEF TakeSession, Goto
      <4> QED
        BY <1>2, <3>1, <4>1 DEF Stage
    <3>3. CASE ~session
      <4>1. owner' = owner /\ thread' = [thread EXCEPT ![c] = AfterSession(c, last[c])]
        BY <2>3, <3>3 DEF TakeSession, Goto
      <4> QED
        BY <1>2, <1>4, <3>1, <4>1 DEF Stage
    <3> QED
      BY <3>2, <3>3
  <2>4. CASE Digest(c)
    BY <1>3, <1>4, <2>4 DEF Digest, OwnerAfter, Stage
  <2>5. CASE Basic(c)
    BY <1>3, <2>5 DEF Basic, Stage
  <2> QED
    BY <2>1, <2>2, <2>3, <2>4, <2>5 DEF Request_sync
<1> QED
  BY <1>1, <1>5, ThreadInv

\* close() blocks only when no coroutine uses the client.
LEMMA CloseInv == ASSUME IInv, Close \/ Unblocked PROVE IInv'
<1>1. TypeOK /\ Types /\ LockQueue /\ Remembers /\ Ahead /\ Threads
  BY DEF IInv, TypeOK
<1>2. /\ UNCHANGED <<now, device, changes, baseUrl, baseTs, notFoundTs, steady, foundAt, failedAt>>
      /\ UNCHANGED <<lock, known, pc, test, flags, thread, last, owner>>
      /\ closing' \in {"blocked", "closed"}
      /\ closing' = "blocked" => \A c \in Call : pc[c] \in {"idle", "returned", "cancelled"}
  BY DEF Close, Unblocked, env, cache, history
<1>3. creds' = creds /\ (session' = session \/ session' = FALSE)
  BY DEF Close, Unblocked
<1>4. (creds \in BOOLEAN /\ session \in BOOLEAN /\ (session => creds))'
  <2>1. creds \in BOOLEAN /\ session \in BOOLEAN /\ (session => creds)
    BY <1>1 DEF Types
  <2>2. CASE creds' = creds /\ session' = session
    BY <2>1, <2>2
  <2>3. CASE creds' = creds /\ session' = FALSE
    BY <2>1, <2>3
  <2> QED
    BY <1>3, <2>2, <2>3
<1>5. Test' = Test /\ Scheme' = Scheme /\ Status' = Status
  BY DEF Test, Scheme, Status
<1>6. Types'
  BY <1>1, <1>2, <1>4, <1>5 DEF Types
<1>7. LockQueue' /\ Remembers' /\ Ahead' /\ Threads'
  BY <1>1, <1>2 DEF LockQueue, InLock, InSearch, Remembers, Ahead, Threads
<1> QED
  BY <1>6, <1>7 DEF IInv, TypeOK

\* Time passes, or the device changes.
LEMMA EnvInv ==
    ASSUME IInv, Tick \/ \E k \in Test : Change(k)
    PROVE  IInv'
<1>1. TypeOK /\ Types /\ LockQueue /\ Remembers /\ Ahead /\ Threads
  BY DEF IInv, TypeOK
<1>2. /\ UNCHANGED <<baseUrl, baseTs, notFoundTs, foundAt, failedAt, thread, last, owner>>
      /\ UNCHANGED <<lock, known, pc, test, flags, closing>>
  BY DEF Tick, Change, cache, threads, history
<1>3. creds' = creds /\ session' = session
  BY DEF Tick, Change, threads
<1>4. (creds \in BOOLEAN /\ session \in BOOLEAN /\ (session => creds))'
  BY <1>1, <1>3 DEF Types
<1>5. Test' = Test /\ Scheme' = Scheme /\ Status' = Status
  BY DEF Test, Scheme, Status
<1>6. /\ now \in Int /\ now' \in 0 .. MaxNow /\ changes' \in 0 .. MaxChanges /\ now <= now'
      /\ device' \subseteq Test /\ steady' \subseteq device' /\ steady' \subseteq steady
  <2>1. CASE Tick
    BY <1>1, <2>1, ClockAssumption DEF Tick, Types, history
  <2>2. ASSUME NEW k \in Test, Change(k)
        PROVE  /\ now \in Int /\ now' \in 0 .. MaxNow /\ changes' \in 0 .. MaxChanges /\ now <= now'
               /\ device' \subseteq Test /\ steady' \subseteq device' /\ steady' \subseteq steady
    BY <1>1, <2>2, ClockAssumption DEF Change, Types
  <2> QED
    BY <2>1, <2>2
<1>7. \A x : x \in 0 .. now => x \in 0 .. now'
  BY <1>6
<1>8. Types'
  BY <1>1, <1>2, <1>4, <1>5, <1>6, <1>7 DEF Types
<1>9. LockQueue' /\ Remembers' /\ Ahead' /\ Threads'
  BY <1>1, <1>2, <1>6 DEF LockQueue, InLock, InSearch, Remembers, Ahead, Threads
<1> QED
  BY <1>8, <1>9 DEF IInv, TypeOK

\* A step keeps the invariant.
LEMMA InvNext == IInv /\ [Next]_vars => IInv'
<1> SUFFICES ASSUME IInv, [Next]_vars PROVE IInv'
  OBVIOUS
<1>1. ASSUME NEW c \in Call, CallStep(c) PROVE IInv'
  BY <1>1, AskInv, LockedInv, TestedInv, EndsSearchInv, ReturnedInv, RequestInv DEF CallStep
<1>2. CASE Close \/ Unblocked
  BY <1>2, CloseInv
<1>3. CASE Tick \/ \E k \in Test : Change(k)
  BY <1>3, EnvInv
<1>4. CASE UNCHANGED vars
  <2>1. /\ UNCHANGED <<now, device, changes, baseUrl, baseTs, notFoundTs, steady, foundAt, failedAt>>
        /\ UNCHANGED <<lock, known, pc, test, flags, thread, last, owner, closing>>
    BY <1>4 DEF vars, env, cache, threads, history
  <2>2. creds' = creds /\ session' = session
    BY <1>4 DEF vars, threads
  <2>3. TypeOK /\ Types /\ LockQueue /\ Remembers /\ Ahead /\ Threads
    BY DEF IInv, TypeOK
  <2>4. (creds \in BOOLEAN /\ session \in BOOLEAN /\ (session => creds))'
    BY <2>2, <2>3 DEF Types
  <2>5. Test' = Test /\ Scheme' = Scheme /\ Status' = Status
    BY DEF Test, Scheme, Status
  <2>6. Types'
    BY <2>1, <2>3, <2>4, <2>5 DEF Types
  <2>7. LockQueue' /\ Remembers' /\ Ahead' /\ Threads'
    BY <2>1, <2>3 DEF LockQueue, InLock, InSearch, Remembers, Ahead, Threads
  <2> QED
    BY <2>6, <2>7 DEF IInv, TypeOK
<1> QED
  BY <1>1, <1>2, <1>3, <1>4 DEF Next

\* The cache, the queue for the lock and the threads, in every state.
THEOREM Invariant == Spec => []IInv
  BY InvInit, InvNext, PTL DEF Spec

\* The variables keep their types; one call searches, the others queue behind
\* it, each once.
THEOREM TypeCorrect == Spec => []TypeOK
<1>1. IInv => TypeOK
  BY DEF IInv
<1> QED
  BY <1>1, Invariant, PTL

\* Only the Digest request of a cancelled call can block close().
THEOREM OnlyOrphansBlockHolds == Spec => []OnlyOrphansBlock
<1>1. ASSUME IInv, closing = "blocked", owner # None PROVE pc[owner] = "cancelled" /\ thread[owner] = "digest"
  <2>1. owner \in Call /\ Threads
    BY <1>1 DEF IInv, TypeOK, Types
  <2>2. thread[owner] = "digest"
    BY <2>1 DEF Threads
  <2> QED
    BY <1>1, <2>1, <2>2 DEF Threads
<1>2. IInv => OnlyOrphansBlock
  BY <1>1 DEF OnlyOrphansBlock
<1> QED
  BY <1>2, Invariant, PTL

\* What a step does to a call that is about to search, or to answer.
LEMMA AskSteps ==
    ASSUME [Next]_vars, NEW c \in Call, pc'[c] # pc[c], pc \in [Call -> AnyPc]
    PROVE
        \/ \E f \in Flags : Ask(c, f)
        \/ Locked(c) \/ Tested(c) \/ Found(c) \/ NotFound(c) \/ Returned(c) \/ Cancel(c)
<1>1. CASE UNCHANGED vars
  BY <1>1 DEF vars
<1>2. CASE Close \/ Unblocked \/ Tick \/ \E k \in Test : Change(k)
  BY <1>2 DEF Close, Unblocked, Tick, Change
<1>3. ASSUME NEW d \in Call, CallStep(d), d # c PROVE FALSE
  <2>1. pc' = pc \/ \E s \in {"request", "returned", "searching", "waiting", "leaving", "failed", "cancelled"} :
           pc' = [pc EXCEPT ![d] = s]
    BY <1>3 DEF CallStep, Ask, Locked, Tested, Found, NotFound, Returned, Cancel, Request_sync, Begin,
                Anonymous, TakeSession, Digest, Basic, Request, Search, FromCache
  <2> QED
    BY <1>3, <2>1
<1>4. CASE Request_sync(c)
  BY <1>4 DEF Request_sync, Begin, Anonymous, TakeSession, Digest, Basic
<1> QED
  BY <1>1, <1>2, <1>3, <1>4 DEF Next, CallStep

\* Two searches are at least a TTL apart, and never side by side.
THEOREM NoNeedlessSearchHolds == Spec => NoNeedlessSearch
<1>1. ASSUME IInv, [Next]_vars, NEW c \in Call, ~InSearch(c), InSearch(c)'
      PROVE  /\ foundAt # None => now - foundAt >= TTL
             /\ failedAt # None => now - failedAt >= NotFoundTTL
             /\ \A d \in Call : ~InSearch(d)
  <2>1. TypeOK /\ Types /\ LockQueue /\ Remembers
    BY <1>1 DEF IInv, TypeOK
  <2>2. pc \in [Call -> AnyPc]
    BY <2>1 DEF Types, AnyPc, HasPlace, Searching
  <2>3. pc'[c] # pc[c]
    BY <1>1 DEF InSearch
  <2>4. \/ \E f \in Flags : Ask(c, f)
        \/ Locked(c) \/ Tested(c) \/ Found(c) \/ NotFound(c) \/ Returned(c) \/ Cancel(c)
    BY <1>1, <2>2, <2>3, AskSteps
  <2>5. ~Cached /\ ((pc[c] = "idle" /\ lock = <<>>) \/ (pc[c] = "waiting" /\ Head(lock) = c))
    <3>1. ASSUME NEW f \in Flags, Ask(c, f)
          PROVE  ~Cached /\ pc[c] = "idle" /\ lock = <<>>
      BY <1>1, <2>2, <3>1 DEF Ask, Request, FromCache, InSearch
    <3>2. CASE Locked(c)
      BY <1>1, <2>2, <3>2 DEF Locked, Request, FromCache, InSearch
    <3>3. CASE Tested(c) \/ Found(c) \/ NotFound(c) \/ Returned(c) \/ Cancel(c)
      BY <1>1, <2>2, <3>3 DEF Tested, Found, NotFound, Returned, Cancel, Request, InSearch
    <3> QED
      BY <2>4, <3>1, <3>2, <3>3
  <2>6. \A d \in Call : ~InSearch(d)
    <3>1. lock = <<>> => InLock = {}
      BY DEF InLock
    <3>2. ASSUME NEW d \in Call, InSearch(d) PROVE FALSE
      <4>1. d \in InLock /\ Head(lock) = d
        BY <2>1, <3>2 DEF LockQueue
      <4> QED
        BY <1>1, <2>5, <3>1, <3>2, <4>1
    <3> QED
      BY <3>2
  <2>7. now \in Int /\ TTL \in Int /\ NotFoundTTL \in Int
    BY <2>1, ClockAssumption DEF Types
  <2>8. foundAt # None => now - foundAt >= TTL
    <3>1. foundAt # None => foundAt \in Int
      BY <2>1 DEF Types
    <3> QED
      BY <2>1, <2>5, <2>7, <3>1 DEF Cached, FreshBase, Remembers
  <2>9. failedAt # None => now - failedAt >= NotFoundTTL
    <3>1. failedAt # None => failedAt \in Int
      BY <2>1 DEF Types
    <3> QED
      BY <2>1, <2>5, <2>7, <3>1 DEF Cached, FreshNo, Remembers
  <2> QED
    BY <2>6, <2>8, <2>9
<1>2. IInv /\ [Next]_vars =>
        [\A c \in Call : ~InSearch(c) /\ InSearch(c)' =>
          /\ foundAt # None => now - foundAt >= TTL
          /\ failedAt # None => now - failedAt >= NotFoundTTL
          /\ \A d \in Call : ~InSearch(d)]_vars
  BY <1>1
<1> QED
  BY <1>2, Invariant, PTL DEF Spec, NoNeedlessSearch

\* A search that fails has tried everything, one that finds takes the first.
THEOREM SearchIsExhaustiveHolds == Spec => SearchIsExhaustive
<1>1. ASSUME IInv, [Next]_vars, NEW c \in Call, pc[c] = "searching"
      PROVE  /\ pc'[c] = "failed" => steady = {}
             /\ pc'[c] = "leaving" => \A k \in steady : k >= test
  <2>1. TypeOK /\ Types /\ Ahead
    BY <1>1 DEF IInv, TypeOK
  <2>2. \A k \in steady : k >= test
    BY <1>1, <2>1 DEF Ahead
  <2>3. ASSUME pc'[c] = "failed" PROVE steady = {}
    <3>1. pc \in [Call -> AnyPc]
      BY <2>1 DEF Types, AnyPc, HasPlace, Searching
    <3>2. \/ \E f \in Flags : Ask(c, f)
          \/ Locked(c) \/ Tested(c) \/ Found(c) \/ NotFound(c) \/ Returned(c) \/ Cancel(c)
      BY <1>1, <2>3, <3>1, AskSteps
    <3>3. Tested(c)
      BY <1>1, <2>3, <3>1, <3>2 DEF Ask, Locked, Found, NotFound, Returned, Cancel
    <3>4. test \notin device /\ test = 4 * Paths
      BY <1>1, <2>3, <3>1, <3>3 DEF Tested, Passes, IsLast
    <3>5. \A k \in steady : k \in device /\ k \in 1 .. 4 * Paths
      BY <2>1 DEF Types, Test
    <3> QED
      BY <2>2, <3>4, <3>5, PathsAssumption
  <2> QED
    BY <2>2, <2>3
<1>2. IInv /\ [Next]_vars =>
        [\A c \in Call : pc[c] = "searching" =>
          /\ pc'[c] = "failed" => steady = {}
          /\ pc'[c] = "leaving" => \A k \in steady : k >= test]_vars
  BY <1>1
<1> QED
  BY <1>2, Invariant, PTL DEF Spec, SearchIsExhaustive

\* "Not found" is what a search found, unless the host has just booted.
THEOREM HonestNoHolds == Spec => HonestNo
<1>1. ASSUME IInv, [Next]_vars, NEW c \in Call, pc[c] \in {"idle", "waiting"}, pc'[c] = "returned"
      PROVE  \/ failedAt # None /\ now - failedAt < NotFoundTTL
             \/ now < NotFoundTTL
  <2>1. TypeOK /\ Types /\ Remembers
    BY <1>1 DEF IInv, TypeOK
  <2>2. pc \in [Call -> AnyPc]
    BY <2>1 DEF Types, AnyPc, HasPlace, Searching
  <2>3. \/ \E f \in Flags : Ask(c, f)
        \/ Locked(c) \/ Tested(c) \/ Found(c) \/ NotFound(c) \/ Returned(c) \/ Cancel(c)
    BY <1>1, <2>2, AskSteps
  <2>4. FreshNo
    <3>1. ASSUME NEW f \in Flags, Ask(c, f) PROVE FreshNo
      BY <1>1, <2>2, <3>1 DEF Ask, Request, FromCache, Search
    <3>2. CASE Locked(c)
      BY <1>1, <2>2, <3>2 DEF Locked, Request, FromCache, Search
    <3>3. CASE Tested(c) \/ Found(c) \/ NotFound(c) \/ Returned(c) \/ Cancel(c)
      BY <1>1, <2>2, <3>3 DEF Tested, Found, NotFound, Returned, Cancel
    <3> QED
      BY <2>3, <3>1, <3>2, <3>3
  <2>5. now \in Int
    BY <2>1 DEF Types
  <2> QED
    BY <2>1, <2>4, <2>5 DEF FreshNo, Remembers
<1>2. IInv /\ [Next]_vars =>
        [\A c \in Call : pc[c] \in {"idle", "waiting"} /\ pc'[c] = "returned" =>
          \/ failedAt # None /\ now - failedAt < NotFoundTTL
          \/ now < NotFoundTTL]_vars
  BY <1>1
<1> QED
  BY <1>2, Invariant, PTL DEF Spec, HonestNo
============================================================================
