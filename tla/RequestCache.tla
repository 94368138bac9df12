---------------------------- MODULE RequestCache ----------------------------
(***************************************************************************)
(* The cache middleware of the proxy (groove/proxy/cache.go): the response *)
(* store, the per-URL request locks that should keep one outbound request  *)
(* per URL, the cache mode, and the way the tape recorder's mode and the   *)
(* control API interfere with them.  Every client request runs in a        *)
(* goroutine of its own: recorder handler, cache handler, round trip,      *)
(* response handlers.  A label of pc is a point between two steps where    *)
(* another goroutine can run.                                              *)
(*                                                                         *)
(* The store is abstract here: it may drop any entry at any time.  What it *)
(* really does is the business of module LRUCache.                         *)
(***************************************************************************)
EXTENDS Integers, FiniteSets

CONSTANTS
  Requests,       \* client connections, each carrying one request at a time
  Urls,           \* request.URL.String(), the name of a request lock
  Keys,           \* getCacheKey(request), the name of a store entry
  UrlOf, KeyOf,   \* what each request asks for
  GetRequests,    \* the requests whose method is GET
  Outcomes,       \* what a round trip may produce
  CacheModes,     \* the modes clients of the control API may choose
  RecorderModes   \* the recorder modes they may choose

AllOutcomes == {"cacheable", "nostore", "truncated", "error"}
AllCacheModes == {"off", "standard", "getAggressive", "aggressive"}
AllRecorderModes == {"off", "read", "write"}

ASSUME RequestAssumption ==
  /\ IsFiniteSet(Requests)
  /\ UrlOf \in [Requests -> Urls]
  /\ KeyOf \in [Requests -> Keys]
  /\ GetRequests \subseteq Requests
  /\ Outcomes \subseteq AllOutcomes
  /\ CacheModes \subseteq AllCacheModes
  /\ RecorderModes \subseteq AllRecorderModes

VARIABLES
  process,   \* "up", or how the process ended
  mode,      \* cache.mode
  tapeMode,  \* recorder.mode
  pc,        \* where each request's goroutine is
  reply,     \* the response each request has in hand
  store,     \* cacheDiskCache
  lockMap,   \* the URLs that have an entry in inflightRequests
  locked,    \* the URLs whose mutex is locked
  blocking,  \* blockingLocks
  holds,     \* history: the requests whose own Lock or TryLock succeeded
             \* and whose own Unlock has not run yet
  stray      \* history: the URLs whose mutex has been unlocked by a request
             \* that had not locked it

vars == <<process, mode, tapeMode, pc, reply, store, lockMap, locked,
          blocking, holds, stray>>
lockVars == <<lockMap, locked, blocking, holds, stray>>
modeVars == <<process, mode, tapeMode>>

-----------------------------------------------------------------------------
Labels == {"idle", "lookup", "acquire", "insert", "count", "wait", "granted",
           "outbound", "respond", "release", "unlock"}

(* An entry is expired once CacheInvalidation has passed.                  *)
Ages == {"fresh", "expired"}

(* kind "failure" is an entry without a Value: GetCacheContents makes a    *)
(* 502 of it.                                                              *)
Entry == [kind : {"none", "cacheable", "nostore", "failure"}, age : Ages]
NoEntry == [kind |-> "none", age |-> "expired"]

Reply == [kind : {"none"} \cup AllOutcomes, age : Ages]
NoReply == [kind |-> "none", age |-> "expired"]

(* A goroutine takes a step only while the process is up.                  *)
At(r, label) == process = "up" /\ pc[r] = label
Goto(r, label) == pc' = [pc EXCEPT ![r] = label]

IsModeAggressive(r) ==
  \/ mode = "aggressive"
  \/ mode = "getAggressive" /\ r \in GetRequests

CacheEntryValid(r) ==
  /\ store[KeyOf[r]].kind # "none"
  /\ IsModeAggressive(r) \/ store[KeyOf[r]].age # "expired"

-----------------------------------------------------------------------------
Init ==
  /\ process = "up"
  /\ mode = "standard"
  /\ tapeMode = "off"
  /\ pc = [r \in Requests |-> "idle"]
  /\ reply = [r \in Requests |-> NoReply]
  /\ store = [k \in Keys |-> NoEntry]
  /\ lockMap = {}
  /\ locked = {}
  /\ blocking = [u \in Urls |-> 0]
  /\ holds = {}
  /\ stray = {}

(* The recorder's request handler answers every request while a tape is    *)
(* loaded, from the tape or with its own "blocked" page.  The cache's      *)
(* request handler is skipped; the response handlers are not.              *)
ReplayTape(r) ==
  /\ At(r, "idle") /\ tapeMode = "read"
  /\ \E kind \in {"cacheable", "nostore"} :
       reply' = [reply EXCEPT ![r] = [kind |-> kind,
                   age |-> IF kind = "cacheable" THEN "fresh" ELSE "expired"]]
  /\ Goto(r, "respond")
  /\ UNCHANGED <<modeVars, store, lockVars>>

PassRecorder(r) ==
  /\ At(r, "idle") /\ tapeMode # "read"
  /\ Goto(r, "lookup")
  /\ UNCHANGED <<modeVars, reply, store, lockVars>>

(* The cache's request handler up to AcquireRequestLock.                   *)
SkipCache(r) ==
  /\ At(r, "lookup") /\ tapeMode = "read"
  /\ Goto(r, "outbound")
  /\ UNCHANGED <<modeVars, reply, store, lockVars>>

(* Mutant: an entry without a Value is handed to the client as it is.      *)
CannedReply_NilValue(entry) == entry

(* A canned response carries the stored headers, and the response handler  *)
(* computes its expiry from them again, counted from now: a hit makes the  *)
(* entry fresh.                                                            *)
CannedReply(entry) ==
  IF entry.kind \in {"failure", "nostore"}
    THEN [kind |-> "nostore", age |-> "expired"]
    ELSE [kind |-> "cacheable", age |-> "fresh"]

CacheHit(r) ==
  /\ At(r, "lookup") /\ tapeMode # "read"
  /\ mode # "off" /\ CacheEntryValid(r)
  /\ reply' = [reply EXCEPT ![r] = CannedReply(store[KeyOf[r]])]
  /\ Goto(r, "respond")
  /\ UNCHANGED <<modeVars, store, lockVars>>

CacheMiss(r) ==
  /\ At(r, "lookup") /\ tapeMode # "read"
  /\ mode = "off" \/ ~CacheEntryValid(r)
  /\ Goto(r, "acquire")
  /\ UNCHANGED <<modeVars, reply, store, lockVars>>

-----------------------------------------------------------------------------
(* AcquireRequestLock.  lockGeneration is held at label "insert" only.     *)
InsertingLock == \E q \in Requests : pc[q] = "insert"

NoLockNeeded(r) ==
  /\ At(r, "acquire") /\ mode = "off"
  /\ Goto(r, "outbound")
  /\ UNCHANGED <<modeVars, reply, store, lockVars>>

(* Mutant: the map is searched without taking lockGeneration.              *)
FindLock_Unguarded(r) ==
  /\ At(r, "acquire") /\ mode # "off"
  /\ Goto(r, IF UrlOf[r] \in lockMap THEN "count" ELSE "insert")
  /\ UNCHANGED <<modeVars, reply, store, lockVars>>

FindLock(r) ==
  /\ At(r, "acquire") /\ mode # "off" /\ ~InsertingLock
  /\ Goto(r, IF UrlOf[r] \in lockMap THEN "count" ELSE "insert")
  /\ UNCHANGED <<modeVars, reply, store, lockVars>>

(* The mutex put in the map is a new one, hence unlocked.                  *)
InsertLock(r) ==
  /\ At(r, "insert")
  /\ lockMap' = lockMap \cup {UrlOf[r]}
  /\ locked' = locked \ {UrlOf[r]}
  /\ Goto(r, "count")
  /\ UNCHANGED <<modeVars, reply, store, blocking, holds, stray>>

CountBlocked(r) ==
  /\ At(r, "count")
  /\ blocking' = [blocking EXCEPT ![UrlOf[r]] = @ + 1]
  /\ Goto(r, "wait")
  /\ UNCHANGED <<modeVars, reply, store, lockMap, locked, holds, stray>>

(* Mutant: a TryLock whose answer is ignored.                              *)
Lock_Try(r) ==
  /\ At(r, "wait")
  /\ locked' = locked \cup {UrlOf[r]}
  /\ holds' = IF UrlOf[r] \in locked THEN holds ELSE holds \cup {r}
  /\ Goto(r, "granted")
  /\ UNCHANGED <<modeVars, reply, store, lockMap, blocking, stray>>

Lock(r) ==
  /\ At(r, "wait") /\ UrlOf[r] \notin locked
  /\ locked' = locked \cup {UrlOf[r]}
  /\ holds' = holds \cup {r}
  /\ Goto(r, "granted")
  /\ UNCHANGED <<modeVars, reply, store, lockMap, blocking, stray>>

(* Mutant: the decrement is skipped where the mode has been turned off.    *)
UncountBlocked_ModeCheck(r) ==
  /\ At(r, "granted")
  /\ blocking' = [blocking EXCEPT ![UrlOf[r]] = IF mode = "off" THEN @ ELSE @ - 1]
  /\ Goto(r, "outbound")
  /\ UNCHANGED <<modeVars, reply, store, lockMap, locked, holds, stray>>

UncountBlocked(r) ==
  /\ At(r, "granted")
  /\ blocking' = [blocking EXCEPT ![UrlOf[r]] = @ - 1]
  /\ Goto(r, "outbound")
  /\ UNCHANGED <<modeVars, reply, store, lockMap, locked, holds, stray>>

-----------------------------------------------------------------------------
(* The round trip, whose inside is the business of the dialer.             *)
RoundTrip(r) ==
  /\ At(r, "outbound")
  /\ \E kind \in Outcomes :
       reply' = [reply EXCEPT ![r] = [kind |-> kind,
                   age |-> IF kind \in {"cacheable", "truncated"}
                             THEN "fresh" ELSE "expired"]]
  /\ Goto(r, "respond")
  /\ UNCHANGED <<modeVars, store, lockVars>>

-----------------------------------------------------------------------------
(* The cache's response handler.                                           *)
SetFailedCacheContents(r) ==
  store' = IF IsModeAggressive(r)
             THEN [store EXCEPT ![KeyOf[r]] =
                     [kind |-> "failure", age |-> "fresh"]]
             ELSE store

(* A body that cannot be read to its end archives to a nil Value.          *)
SetValidCacheContents(r) ==
  LET entry == [kind |-> IF reply[r].kind = "truncated" THEN "failure"
                                                        ELSE reply[r].kind,
                age |-> reply[r].age]
  IN store' = IF /\ mode # "off"
                 /\ \/ IsModeAggressive(r)
                    \/ reply[r].kind \in {"cacheable", "truncated"}
                THEN [store EXCEPT ![KeyOf[r]] = entry]
                ELSE store

(* Mutant: the handler returns on an error before it releases the lock.    *)
RespondError_NoRelease(r) ==
  /\ At(r, "respond") /\ reply[r].kind = "error"
  /\ SetFailedCacheContents(r)
  /\ reply' = [reply EXCEPT ![r] = NoReply]
  /\ Goto(r, "idle")
  /\ UNCHANGED <<modeVars, lockVars>>

RespondError(r) ==
  /\ At(r, "respond") /\ reply[r].kind = "error"
  /\ SetFailedCacheContents(r)
  /\ reply' = [reply EXCEPT ![r] = NoReply]
  /\ Goto(r, "release")
  /\ UNCHANGED <<modeVars, lockVars>>

(* While a tape is loaded the handler returns before the release.          *)
RespondWithoutRelease(r) ==
  /\ At(r, "respond") /\ reply[r].kind # "error" /\ tapeMode = "read"
  /\ reply' = [reply EXCEPT ![r] = NoReply]
  /\ holds' = holds \ {r}
  /\ Goto(r, "idle")
  /\ UNCHANGED <<modeVars, store, lockMap, locked, blocking, stray>>

(* Mutant: only a handler that finds the cache enabled releases the lock.  *)
RespondAndStore_ModeCheck(r) ==
  /\ At(r, "respond") /\ reply[r].kind # "error" /\ tapeMode # "read"
  /\ SetValidCacheContents(r)
  /\ reply' = [reply EXCEPT ![r] = NoReply]
  /\ Goto(r, IF mode = "off" THEN "idle" ELSE "release")
  /\ UNCHANGED <<modeVars, lockVars>>

RespondAndStore(r) ==
  /\ At(r, "respond") /\ reply[r].kind # "error" /\ tapeMode # "read"
  /\ SetValidCacheContents(r)
  /\ reply' = [reply EXCEPT ![r] = NoReply]
  /\ Goto(r, "release")
  /\ UNCHANGED <<modeVars, lockVars>>

-----------------------------------------------------------------------------
(* ReleaseRequestLock.  It reads inflightRequests without lockGeneration:  *)
(* Go's runtime may stop the process when it meets a write of the map.     *)
MapRace(r) ==
  /\ At(r, "release") /\ InsertingLock
  /\ process' = "maprace"
  /\ UNCHANGED <<mode, tapeMode, pc, reply, store, lockVars>>

NothingToRelease(r) ==
  /\ At(r, "release") /\ UrlOf[r] \notin lockMap
  /\ Goto(r, "idle")
  /\ UNCHANGED <<modeVars, reply, store, lockVars>>

TryLock(r) ==
  /\ At(r, "release") /\ UrlOf[r] \in lockMap
  /\ locked' = locked \cup {UrlOf[r]}
  /\ holds' = IF UrlOf[r] \in locked THEN holds ELSE holds \cup {r}
  /\ Goto(r, "unlock")
  /\ UNCHANGED <<modeVars, reply, store, lockMap, blocking, stray>>

(* Unlock of an unlocked sync.Mutex is a fatal error of the Go runtime.    *)
Unlock(r) ==
  /\ At(r, "unlock")
  /\ stray' = IF r \in holds THEN stray ELSE stray \cup {UrlOf[r]}
  /\ holds' = holds \ {r}
  /\ locked' = locked \ {UrlOf[r]}
  /\ process' = IF UrlOf[r] \in locked THEN process ELSE "unlock"
  /\ Goto(r, "idle")
  /\ UNCHANGED <<mode, tapeMode, reply, store, lockMap, blocking>>

-----------------------------------------------------------------------------
(* The control API.                                                        *)
SetCacheMode ==
  /\ process = "up"
  /\ \E m \in CacheModes : mode' = m
  /\ UNCHANGED <<process, tapeMode, pc, reply, store, lockVars>>

SetTapeMode(m) ==
  /\ process = "up" /\ m \in RecorderModes
  /\ tapeMode' = m
  /\ UNCHANGED <<process, mode, pc, reply, store, lockVars>>
TapeRecord == SetTapeMode("write")
TapeStop == SetTapeMode("off")
TapeLoad == SetTapeMode("read")

ClearCache ==
  /\ process = "up"
  /\ store' = [k \in Keys |-> NoEntry]
  /\ UNCHANGED <<modeVars, pc, reply, lockVars>>

(* The store and the clock.                                                *)
Evict(k) ==
  /\ process = "up"
  /\ store' = [store EXCEPT ![k] = NoEntry]
  /\ UNCHANGED <<modeVars, pc, reply, lockVars>>

Lapse(k) ==
  /\ process = "up"
  /\ store[k].kind # "none" /\ store[k].age # "expired"
  /\ store' = [store EXCEPT ![k].age = "expired"]
  /\ UNCHANGED <<modeVars, pc, reply, lockVars>>

(* main: an interrupt ends the process at once; a new one starts from the  *)
(* store that is on disk and from nothing else.                            *)
Interrupt ==
  /\ process = "up"
  /\ process' = "exited"
  /\ UNCHANGED <<mode, tapeMode, pc, reply, store, lockVars>>

Launch ==
  /\ process # "up"
  /\ process' = "up" /\ mode' = "standard" /\ tapeMode' = "off"
  /\ pc' = [r \in Requests |-> "idle"]
  /\ reply' = [r \in Requests |-> NoReply]
  /\ lockMap' = {} /\ locked' = {} /\ holds' = {} /\ stray' = {}
  /\ blocking' = [u \in Urls |-> 0]
  /\ UNCHANGED store

-----------------------------------------------------------------------------
RequestHandler(r) ==
  ReplayTape(r) \/ PassRecorder(r) \/ SkipCache(r) \/ CacheHit(r) \/ CacheMiss(r)

AcquireRequestLock(r) ==
  \/ NoLockNeeded(r) \/ FindLock(r) \/ InsertLock(r) \/ CountBlocked(r)
  \/ Lock(r) \/ UncountBlocked(r)

ResponseHandler(r) ==
  RespondError(r) \/ RespondWithoutRelease(r) \/ RespondAndStore(r)

ReleaseRequestLock(r) ==
  MapRace(r) \/ NothingToRelease(r) \/ TryLock(r) \/ Unlock(r)

Step(r) ==
  \/ RequestHandler(r) \/ AcquireRequestLock(r) \/ RoundTrip(r)
  \/ ResponseHandler(r) \/ ReleaseRequestLock(r)

Environment ==
  \/ SetCacheMode \/ TapeRecord \/ TapeStop \/ TapeLoad \/ ClearCache
  \/ \E k \in Keys : Evict(k) \/ Lapse(k)
  \/ Interrupt

Next ==
  \/ \E r \in Requests : Step(r)
  \/ Environment
  \/ Launch

Spec == Init /\ [][Next]_vars

(* The Go scheduler runs every goroutine that can run, a contended         *)
(* sync.Mutex is handed to each of its waiters in the end (its starvation  *)
(* mode), and the origin answers or fails.  A client need not send a       *)
(* request, and nothing makes the control API, the clock or the store act. *)
InFlight(r) == process = "up" /\ pc[r] # "idle"
Fairness == \A r \in Requests :
  /\ WF_vars(pc[r] # "idle" /\ Step(r))
  /\ SF_vars(Lock(r))
FairSpec == Spec /\ Fairness

-----------------------------------------------------------------------------
TypeOK ==
  /\ process \in {"up", "exited", "unlock", "maprace"}
  /\ mode \in AllCacheModes
  /\ tapeMode \in AllRecorderModes
  /\ pc \in [Requests -> Labels]
  /\ reply \in [Requests -> Reply]
  /\ store \in [Keys -> Entry]
  /\ lockMap \subseteq Urls
  /\ locked \subseteq Urls
  /\ blocking \in [Urls -> Int]
  /\ holds \subseteq Requests
  /\ stray \subseteq Urls

(* Each URL's lock has at most one holder, and the holder's mutex is       *)
(* locked, for as long as no request has unlocked that mutex without       *)
(* having locked it: the "liberal" release is the only thing that breaks   *)
(* the exclusion AcquireRequestLock is there for.                          *)
ExclusionUntilStrayUnlock ==
  \A r \in holds : UrlOf[r] \notin stray =>
    /\ UrlOf[r] \in locked
    /\ \A q \in holds : UrlOf[q] = UrlOf[r] => q = r

(* While no tape is loaded, a locked mutex always has a request on its way *)
(* that will unlock it, whatever happens to the cache mode meanwhile       *)
(* (the reason ReleaseRequestLock gives for not looking at the mode).      *)
NoAbandonedLock ==
  \A u \in locked : \E r \in holds : UrlOf[r] = u /\ pc[r] # "idle"

(* The requests between AcquireRequestLock's increment of blockingLocks    *)
(* and its decrement.                                                      *)
BlockedOn(u) == {r \in Requests : UrlOf[r] = u /\ pc[r] \in {"wait", "granted"}}

(* blockingLocks, which the proxy logs, counts exactly the requests blocked *)
(* on each URL, through every change of mode, every release and restart.   *)
BlockingCountExact == \A u \in Urls : blocking[u] = Cardinality(BlockedOn(u))

(* "Limit outbound requests of the same URL to 1 concurrent request"       *)
(* (README.md): the round trips, as flights of the abstract specification. *)
Outbound == {r \in Requests : At(r, "outbound")}
Promise == INSTANCE SingleFlight WITH flights <- Outbound
SingleFlightSpec == Promise!Spec

(* Every request that reaches the proxy gets its answer and releases what  *)
(* it holds, unless the process ends.                                      *)
RequestsComplete ==
  \A r \in Requests : InFlight(r) ~> ~InFlight(r)

(* "Calling Unlock by default will result in a runtime exception [...] The *)
(* combination of these two stages ensures that we can always successfully *)
(* unlock" (cache.go).                                                     *)
UnlockNeverFatal == process # "unlock"
=============================================================================
