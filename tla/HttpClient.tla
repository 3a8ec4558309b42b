----------------------------- MODULE HttpClient -----------------------------
(***************************************************************************)
(* One HttpClient of infrastructure/http/client.py as the vendor clients   *)
(* of clients/dahua/client.py and clients/hikvision/client.py use it.      *)
(*                                                                         *)
(* A call finds the base URL of the device and sends one request to it.    *)
(* The search runs in the event loop, one call at a time, under an         *)
(* asyncio.Lock that queues its waiters; the request runs in a thread of   *)
(* the default executor, which a cancelled caller cannot stop, and the     *)
(* part of it that uses the session holds a threading.RLock.  The adapter  *)
(* calls close() in the event loop when no coroutine uses the client any   *)
(* more; close() takes the same RLock.                                     *)
(***************************************************************************)
EXTENDS Integers, SequencesExt

CONSTANTS
    Call,          \* the calls of `_get` of one vendor client
    Paths,         \* how many test paths the vendor client has
    PreferHttps,   \* the parameter prefer_https
    Flags,         \* the parameters allow_anonymous and force_basic of the requests
    TTL,           \* BASE_TTL, in ticks of the clock
    NotFoundTTL,   \* BASE_NOT_FOUND_TTL
    MaxNow,        \* bound: the last tick
    MaxChanges,    \* bound: how often the device changes
    None

ASSUME PathsAssumption == Paths \in Nat \ {0} /\ PreferHttps \in BOOLEAN
ASSUME ClockAssumption == {TTL, NotFoundTTL, MaxNow, MaxChanges} \subseteq Nat /\ NotFoundTTL <= MaxNow
ASSUME FlagsAssumption == Flags \subseteq [anonymous : BOOLEAN, basic : BOOLEAN]
ASSUME NoneAssumption == None \notin Call \cup Int \cup {"http", "https"}

Scheme == {"http", "https"}
Status == {"200", "401", "other"}

\* The tests of get_base_url in their order: every scheme, path and method.
Test == 1 .. 4 * Paths
BaseOf(k) == IF (k <= 2 * Paths) = PreferHttps THEN "https" ELSE "http"

VARIABLES
    now,         \* time.monotonic()
    baseUrl, baseTs, notFoundTs,
    lock,        \* _base_lock: its holder and, behind it, the waiters in order
    known,       \* _base_url of the vendor client
    pc,          \* where each call stands
    test,        \* the test in flight
    flags,       \* its parameters
    thread,      \* where the request of a call stands in its thread
    last,        \* response.status_code in that thread
    creds,       \* set_auth was given a username and a password
    session,     \* _session # None
    owner,       \* the call whose thread holds _session_lock
    closing,     \* close()
    device,      \* the tests that the device would pass now
    changes,
    steady,      \* history: the tests it has passed since the search began
    foundAt, failedAt   \* history: the last search that found, that did not

cache   == <<baseUrl, baseTs, notFoundTs>>
threads == <<thread, last, session, owner>>
env     == <<now, device, changes>>
history == <<steady, foundAt, failedAt>>
vars == <<env, cache, lock, known, pc, test, flags, threads, creds, closing, history>>

-----------------------------------------------------------------------------
(* The base URL                                                            *)

FreshBase == baseUrl # None /\ now - baseTs < TTL
ForgetsTheNo == FALSE
FreshNo == now - notFoundTs < NotFoundTTL

\* get_base_url answers from its cache: with a base URL the request follows.
Cached == FreshBase \/ FreshNo
Request(c) == pc' = [pc EXCEPT ![c] = "request"] /\ thread' = [thread EXCEPT ![c] = "queued"]
FromCache(c) ==
    \/ /\ FreshBase
       /\ Request(c)
       /\ known' = baseUrl
    \/ /\ ~FreshBase /\ FreshNo
       /\ pc' = [pc EXCEPT ![c] = "returned"]
       /\ UNCHANGED <<thread, known>>

Search(c) ==
    /\ pc' = [pc EXCEPT ![c] = "searching"]
    /\ test' = 1
    /\ steady' = device

\* The loop variable is gone with the search.
Stop(c) == IF pc[c] \in {"searching", "leaving", "failed"}
           THEN test' = 1 /\ steady' = {}
           ELSE UNCHANGED <<test, steady>>

\* The call leaves the lock or its place in the queue; the next one holds it.
Queued(c)  == {i \in DOMAIN lock : lock[i] = c}
Without(c) == IF Queued(c) = {} THEN lock ELSE RemoveAt(lock, CHOOSE i \in Queued(c) : TRUE)
KeepsTheLock(c) == lock
Unlocked(c) == Without(c)

RunsLoop == closing = "open"

\* _get is called; it goes as far as its first await.
Ask(c, f) ==
    /\ RunsLoop /\ pc[c] = "idle"
    /\ flags' = [flags EXCEPT ![c] = f]
    /\ \/ known # None /\ Request(c) /\ UNCHANGED <<known, lock, test, steady>>
       \/ known = None /\ Cached /\ FromCache(c) /\ UNCHANGED <<lock, test, steady>>
       \/ /\ known = None /\ ~Cached
          /\ lock' = Append(lock, c)
          /\ IF lock = <<>>
             THEN Search(c)
             ELSE pc' = [pc EXCEPT ![c] = "waiting"] /\ UNCHANGED <<test, steady>>
          /\ UNCHANGED <<known, thread>>
    /\ UNCHANGED <<env, cache, last, session, owner, creds, closing, foundAt, failedAt>>

\* A waiter gets the lock and looks at the cache again.
Locked(c) ==
    /\ RunsLoop /\ pc[c] = "waiting" /\ Head(lock) = c
    /\ \/ Cached /\ FromCache(c) /\ lock' = Unlocked(c) /\ UNCHANGED <<test, steady>>
       \/ ~Cached /\ Search(c) /\ UNCHANGED <<lock, known, thread>>
    /\ UNCHANGED <<env, cache, flags, last, session, owner, creds, closing,
                   foundAt, failedAt>>

Passes == test \in device
StopsShort == test = 4 * Paths - 1
NeverLast  == FALSE
IsLast == test = 4 * Paths

\* The device answers the test in flight, or does not within the timeout.
Tested(c) ==
    /\ RunsLoop /\ pc[c] = "searching"
    /\ \/ /\ Passes
          /\ baseUrl' = BaseOf(test) /\ baseTs' = now /\ foundAt' = now
          /\ pc' = [pc EXCEPT ![c] = "leaving"]
          /\ UNCHANGED test
       \/ /\ ~Passes
          /\ IF IsLast
             THEN pc' = [pc EXCEPT ![c] = "failed"] /\ UNCHANGED test
             ELSE test' = test + 1 /\ UNCHANGED pc
          /\ UNCHANGED <<baseUrl, baseTs, foundAt>>
    /\ UNCHANGED <<env, notFoundTs, lock, known, flags, threads, creds, closing, steady, failedAt>>

\* The aiohttp session is closed, which may yield; then the lock is released.
Found(c) ==
    /\ RunsLoop /\ pc[c] = "leaving"
    /\ known' = BaseOf(test)
    /\ lock' = Unlocked(c)
    /\ Stop(c)
    /\ Request(c)
    /\ UNCHANGED <<env, cache, flags, last, session, owner, creds, closing, foundAt, failedAt>>

NotFound(c) ==
    /\ RunsLoop /\ pc[c] = "failed"
    /\ notFoundTs' = now /\ failedAt' = now
    /\ lock' = Unlocked(c)
    /\ Stop(c)
    /\ pc' = [pc EXCEPT ![c] = "returned"]
    /\ UNCHANGED <<env, baseUrl, baseTs, known, flags, threads, creds, closing, foundAt>>

\* CancelledError at any await.  A thread that has started goes on.
MarksNotFound == notFoundTs' = now /\ UNCHANGED <<baseUrl, baseTs>>
CacheOnCancel == UNCHANGED cache
Cancel(c) ==
    /\ RunsLoop /\ pc[c] \in {"waiting", "searching", "leaving", "failed", "request"}
    /\ pc' = [pc EXCEPT ![c] = "cancelled"]
    /\ lock' = Unlocked(c)
    /\ thread' = [thread EXCEPT ![c] = IF @ = "queued" THEN "ended" ELSE @]
    /\ Stop(c)
    /\ CacheOnCancel
    /\ UNCHANGED <<env, known, flags, last, session, owner, creds, closing, foundAt, failedAt>>

-----------------------------------------------------------------------------
(* The request: _request_sync in a thread                                  *)

Goto(c, stage) == thread' = [thread EXCEPT ![c] = stage]

Begin(c) ==
    /\ thread[c] = "queued"
    /\ Goto(c, IF flags[c].anonymous THEN "anonymous" ELSE "locking")
    /\ UNCHANGED <<env, cache, lock, known, pc, test, flags, last, session, owner,
                   creds, closing, history>>

\* The thread has a response s, or None for an exception: that and the text of
\* a 200 end it.
Response(c, s, next) ==
    LET stage == IF s \in {None, "200"} THEN "ended" ELSE next
    IN  /\ Goto(c, stage)
        /\ last' = [last EXCEPT ![c] = IF stage = "ended" THEN None ELSE s]

AfterSession(c, s) == IF creds /\ (flags[c].basic \/ s = "401") THEN "basic" ELSE "ended"

Anonymous(c) ==
    /\ thread[c] = "anonymous"
    /\ \E s \in Status \cup {None} : Response(c, s, "locking")
    /\ UNCHANGED <<env, cache, lock, known, pc, test, flags, session, owner, creds, closing, history>>

\* Without a session the lock is held for no time.
TakeSession(c) ==
    /\ thread[c] = "locking" /\ owner = None
    /\ IF session
       THEN owner' = c /\ Goto(c, "digest")
       ELSE Goto(c, AfterSession(c, last[c])) /\ UNCHANGED owner
    /\ UNCHANGED <<env, cache, lock, known, pc, test, flags, last, session, creds,
                   closing, history>>

\* The with block ends whatever the response is.
KeptOnError(c, s) == IF s = None THEN c ELSE None
OwnerAfter(c, s)  == None
Digest(c) ==
    /\ thread[c] = "digest"
    /\ \E s \in Status \cup {None} :
          /\ Response(c, s, AfterSession(c, s))
          /\ owner' = OwnerAfter(c, s)
    /\ UNCHANGED <<env, cache, lock, known, pc, test, flags, session, creds, closing, history>>

Basic(c) ==
    /\ thread[c] = "basic"
    /\ \E s \in Status \cup {None} : Response(c, s, "ended")
    /\ UNCHANGED <<env, cache, lock, known, pc, test, flags, session, owner, creds, closing, history>>

Request_sync(c) == Begin(c) \/ Anonymous(c) \/ TakeSession(c) \/ Digest(c) \/ Basic(c)

\* The caller goes on with the text of its thread, or None.
Returned(c) ==
    /\ RunsLoop /\ pc[c] = "request" /\ thread[c] = "ended"
    /\ pc' = [pc EXCEPT ![c] = "returned"]
    /\ UNCHANGED <<env, cache, lock, known, test, flags, threads, creds, closing, history>>

\* close(): the finally of the adapter.  It waits for _session_lock in the
\* event loop, so no coroutine runs until it has it.
Close ==
    /\ RunsLoop /\ \A c \in Call : pc[c] \in {"idle", "returned", "cancelled"}
    /\ IF owner = None
       THEN session' = FALSE /\ closing' = "closed"
       ELSE closing' = "blocked" /\ UNCHANGED session
    /\ UNCHANGED <<env, cache, lock, known, pc, test, flags, thread, last, owner, creds, history>>

Unblocked ==
    /\ closing = "blocked" /\ owner = None
    /\ session' = FALSE /\ closing' = "closed"
    /\ UNCHANGED <<env, cache, lock, known, pc, test, flags, thread, last, owner, creds, history>>

-----------------------------------------------------------------------------
(* The clock and the device                                                *)

Tick ==
    /\ now < MaxNow /\ now' = now + 1
    /\ UNCHANGED <<device, changes, cache, lock, known, pc, test, flags, threads, creds,
                   closing, history>>

Change(k) ==
    /\ changes < MaxChanges /\ changes' = changes + 1
    /\ device' = IF k \in device THEN device \ {k} ELSE device \cup {k}
    /\ steady' = steady \cap device'
    /\ UNCHANGED <<now, cache, lock, known, pc, test, flags, threads, creds, closing,
                   foundAt, failedAt>>

Init ==
    /\ now \in {0, NotFoundTTL}     \* the host has just booted, or has not
    /\ baseUrl = None /\ baseTs = 0 /\ notFoundTs = 0
    /\ lock = <<>> /\ known = None
    /\ pc = [c \in Call |-> "idle"] /\ test = 1
    /\ flags = [c \in Call |-> [anonymous |-> FALSE, basic |-> FALSE]]
    /\ thread = [c \in Call |-> "none"] /\ last = [c \in Call |-> None]
    /\ creds \in BOOLEAN /\ session = creds
    /\ owner = None /\ closing = "open"
    /\ device \in SUBSET Test /\ changes = 0
    /\ steady = {} /\ foundAt = None /\ failedAt = None

CallStep(c) ==
    \/ \E f \in Flags : Ask(c, f)
    \/ Locked(c) \/ Tested(c) \/ Found(c) \/ NotFound(c) \/ Returned(c)
    \/ Cancel(c)
    \/ Request_sync(c)

Next ==
    \/ \E c \in Call : CallStep(c)
    \/ Close \/ Unblocked
    \/ Tick
    \/ \E k \in Test : Change(k)

Spec == Init /\ [][Next]_vars

\* The event loop runs what is ready; a request ends, if only by its timeout.
FairSpec ==
    /\ Spec
    /\ \A c \in Call : WF_vars(Locked(c) \/ Tested(c) \/ Found(c) \/ NotFound(c) \/ Returned(c))
                       /\ WF_vars(Request_sync(c))
    /\ WF_vars(Unblocked)

-----------------------------------------------------------------------------
InSearch(c) == pc[c] \in {"searching", "leaving", "failed"}

Types ==
    /\ now \in 0 .. MaxNow /\ changes \in 0 .. MaxChanges
    /\ baseUrl \in Scheme \cup {None} /\ baseTs \in 0 .. now /\ notFoundTs \in 0 .. now
    /\ known \in Scheme \cup {None}
    /\ pc \in [Call -> {"idle", "waiting", "searching", "leaving", "failed", "request",
                        "returned", "cancelled"}]
    /\ test \in Test /\ device \subseteq Test /\ steady \subseteq device
    /\ flags \in [Call -> [anonymous : BOOLEAN, basic : BOOLEAN]]
    /\ thread \in [Call -> {"none", "queued", "anonymous", "locking", "digest", "basic", "ended"}]
    /\ last \in [Call -> Status \cup {None}]
    /\ creds \in BOOLEAN /\ session \in BOOLEAN /\ (session => creds)
    /\ owner \in Call \cup {None} /\ closing \in {"open", "blocked", "closed"}
    /\ foundAt \in 0 .. now \cup {None} /\ failedAt \in 0 .. now \cup {None}

InLock == {lock[i] : i \in DOMAIN lock}
LockQueue ==
    /\ lock \in Seq(Call)
    /\ \A i, j \in DOMAIN lock : lock[i] = lock[j] => i = j
    /\ InLock = {c \in Call : InSearch(c) \/ pc[c] = "waiting"}
    /\ \A c \in Call : InSearch(c) => Head(lock) = c

\* The types of the variables; the calls in the lock are those that wait or
\* search, each once, and its holder is the only one that searches.
TypeOK == Types /\ LockQueue

\* Concurrent callers share one search: none begins while the last one that
\* found something, or the last one that found nothing, is within its TTL
\* (get_base_url looks at the cache before the lock and again under it).
NoNeedlessSearch ==
    [][\A c \in Call : ~InSearch(c) /\ InSearch(c)' =>
          /\ foundAt # None => now - foundAt >= TTL
          /\ failedAt # None => now - failedAt >= NotFoundTTL
          /\ \A d \in Call : ~InSearch(d)]_vars

\* A search that ends without a base URL has tried everything: no test would
\* have passed all the while; one that finds a base URL takes the first in
\* the order of the schemes, with the preferred one in front.
SearchIsExhaustive ==
    [][\A c \in Call : pc[c] = "searching" =>
          /\ pc'[c] = "failed" => steady = {}
          /\ pc'[c] = "leaving" => \A k \in steady : k >= test]_vars

\* get_base_url says "not found" of a device only when a search within the
\* TTL has failed; what interrupts a search says nothing.  The one exception
\* is a host that booted less than the TTL ago: _base_not_found_ts starts at
\* 0.0, as if a search had failed at boot.
HonestNo ==
    [][\A c \in Call : pc[c] \in {"idle", "waiting"} /\ pc'[c] = "returned" =>
          \/ failedAt # None /\ now - failedAt < NotFoundTTL
          \/ now < NotFoundTTL]_vars

\* close() stops the event loop only for the request of a cancelled caller,
\* and only while that request is under the session lock.
OnlyOrphansBlock ==
    closing = "blocked" /\ owner # None => pc[owner] = "cancelled" /\ thread[owner] = "digest"

\* Every call returns or is cancelled, whoever is cancelled in the queue for
\* the lock or while it holds it; a close() that blocks the loop goes on.
CallsReturn ==
    /\ \A c \in Call : pc[c] # "idle" ~> pc[c] \in {"returned", "cancelled"}
    /\ closing = "blocked" ~> closing = "closed"
=============================================================================
