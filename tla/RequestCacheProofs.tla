------------------------- MODULE RequestCacheProofs -------------------------
(***************************************************************************)
(* What RequestCache guarantees for every set of requests, URLs and keys.  *)
(***************************************************************************)
EXTENDS RequestCache, FiniteSetTheorems, TLAPS

(* What a canned response can be: a reply, and never a failure.            *)
LEMMA CannedReplyType ==
  ASSUME NEW entry \in Entry, entry.kind # "none"
  PROVE  CannedReply(entry) \in Reply
BY DEF Entry, CannedReply, Reply, AllOutcomes, Ages

(* Every step keeps the types.                                             *)
LEMMA TypeStep == TypeOK /\ [Next]_vars => TypeOK'
<1> USE DEF TypeOK, lockVars, modeVars, Goto, At
<1> SUFFICES ASSUME TypeOK, [Next]_vars PROVE TypeOK'
  OBVIOUS
<1> USE RequestAssumption DEF RequestAssumption
<1>1. ASSUME NEW r \in Requests, RequestHandler(r) PROVE TypeOK'
  <2>1. CASE ReplayTape(r)
    BY <2>1 DEF ReplayTape, Reply, AllOutcomes, Ages, Labels
  <2>2. CASE PassRecorder(r)
    BY <2>2 DEF PassRecorder, Labels
  <2>3. CASE SkipCache(r)
    BY <2>3 DEF SkipCache, Labels
  <2>4. CASE CacheHit(r)
    <3>1. CannedReply(store[KeyOf[r]]) \in Reply
      BY <2>4, CannedReplyType DEF CacheHit, CacheEntryValid
    <3>2. QED
      BY <2>4, <3>1 DEF CacheHit, Labels
  <2>5. CASE CacheMiss(r)
    BY <2>5 DEF CacheMiss, Labels
  <2>6. QED
    BY <1>1, <2>1, <2>2, <2>3, <2>4, <2>5 DEF RequestHandler
<1>2. ASSUME NEW r \in Requests, AcquireRequestLock(r) PROVE TypeOK'
  BY <1>2 DEF AcquireRequestLock, NoLockNeeded, FindLock, InsertLock,
              CountBlocked, Lock, UncountBlocked, Labels
<1>3. ASSUME NEW r \in Requests, RoundTrip(r) PROVE TypeOK'
  BY <1>3 DEF RoundTrip, Reply, AllOutcomes, Ages, Labels
<1>4. ASSUME NEW r \in Requests, ResponseHandler(r) PROVE TypeOK'
  <2>1. NoReply \in Reply
    BY DEF NoReply, Reply, Ages
  <2>2. CASE RespondError(r)
    <3>1. store' \in [Keys -> Entry]
      BY <2>2 DEF RespondError, SetFailedCacheContents, Entry, Ages
    <3>2. QED
      BY <2>1, <2>2, <3>1 DEF RespondError, Labels
  <2>3. CASE RespondWithoutRelease(r)
    BY <2>1, <2>3 DEF RespondWithoutRelease, Labels
  <2>4. CASE RespondAndStore(r)
    <3>1. store' \in [Keys -> Entry]
      BY <2>4 DEF RespondAndStore, SetValidCacheContents, Entry, Reply,
                  AllOutcomes, Ages
    <3>2. QED
      BY <2>1, <2>4, <3>1 DEF RespondAndStore, Labels
  <2>5. QED
    BY <1>4, <2>2, <2>3, <2>4 DEF ResponseHandler
<1>5. ASSUME NEW r \in Requests, ReleaseRequestLock(r) PROVE TypeOK'
  BY <1>5 DEF ReleaseRequestLock, MapRace, NothingToRelease, TryLock, Unlock, Labels
<1>6. CASE Environment
  <2>1. NoEntry \in Entry
    BY DEF NoEntry, Entry, Ages
  <2>2. CASE SetCacheMode
    BY <2>2 DEF SetCacheMode
  <2>3. CASE TapeRecord \/ TapeStop \/ TapeLoad
    BY <2>3 DEF TapeRecord, TapeStop, TapeLoad, SetTapeMode
  <2>4. CASE ClearCache
    BY <2>1, <2>4 DEF ClearCache
  <2>5. ASSUME NEW k \in Keys, Evict(k) PROVE TypeOK'
    BY <2>1, <2>5 DEF Evict
  <2>6. ASSUME NEW k \in Keys, Lapse(k) PROVE TypeOK'
    BY <2>6 DEF Lapse, Entry, Ages
  <2>7. CASE Interrupt
    BY <2>7 DEF Interrupt
  <2>8. QED
    BY <1>6, <2>2, <2>3, <2>4, <2>5, <2>6, <2>7 DEF Environment
<1>7. CASE Launch
  <2>1. NoReply \in Reply
    BY DEF NoReply, Reply, Ages
  <2>2. QED
    BY <1>7, <2>1 DEF Launch, Labels, AllCacheModes, AllRecorderModes
<1>8. CASE UNCHANGED vars
  BY <1>8 DEF vars
<1>9. QED
  BY <1>1, <1>2, <1>3, <1>4, <1>5, <1>6, <1>7, <1>8 DEF Next, Step

LEMMA TypeCorrectInit == Init => TypeOK
BY RequestAssumption DEF Init, RequestAssumption, TypeOK, Labels,
   AllCacheModes, AllRecorderModes, Reply, NoReply, Entry, NoEntry, Ages

(* Every variable keeps its type (TypeOK), whatever the requests, the      *)
(* origin, the clock, the control API and the process do.                  *)
THEOREM TypeCorrect == Spec => []TypeOK
BY TypeCorrectInit, TypeStep, PTL DEF Spec

-----------------------------------------------------------------------------
(* The locks.  A mutex is put in the map by the one goroutine that is      *)
(* inside lockGeneration, and only where there is none yet; from then on   *)
(* nothing takes it out, so a waiter and a holder find it there.           *)
OneInserting ==
  \A r, q \in Requests : pc[r] = "insert" /\ pc[q] = "insert" => q = r
InsertsNewLock ==
  \A r \in Requests : pc[r] = "insert" => UrlOf[r] \notin lockMap
LockStaysInMap ==
  /\ \A r \in Requests : pc[r] \in {"count", "wait", "granted", "unlock"} => UrlOf[r] \in lockMap
  /\ \A r \in holds : UrlOf[r] \in lockMap
  /\ locked \subseteq lockMap
LockInv ==
  /\ TypeOK
  /\ OneInserting
  /\ InsertsNewLock
  /\ LockStaysInMap
  /\ ExclusionUntilStrayUnlock

LEMMA LockStep == LockInv /\ [Next]_vars => LockInv'
<1> USE DEF LockInv, OneInserting, InsertsNewLock, LockStaysInMap,
            ExclusionUntilStrayUnlock, lockVars, modeVars, Goto, At
<1> SUFFICES ASSUME LockInv, [Next]_vars PROVE LockInv'
  OBVIOUS
<1>0. TypeOK /\ TypeOK'
  BY TypeStep
<1>t. /\ pc \in [Requests -> Labels]
      /\ UrlOf \in [Requests -> Urls]
  BY <1>0, RequestAssumption DEF TypeOK, RequestAssumption
<1>1. ASSUME NEW r \in Requests, RequestHandler(r) PROVE LockInv'
  BY <1>0, <1>t, <1>1 DEF RequestHandler, ReplayTape, PassRecorder, SkipCache,
     CacheHit, CacheMiss
<1>2. ASSUME NEW r \in Requests, AcquireRequestLock(r) PROVE LockInv'
  <2>1. CASE NoLockNeeded(r)
    BY <1>0, <1>t, <2>1 DEF NoLockNeeded
  <2>2. CASE FindLock(r)
    BY <1>0, <1>t, <2>2 DEF FindLock, InsertingLock
  <2>3. CASE InsertLock(r)
    <3>1. OneInserting' /\ InsertsNewLock'
      BY <1>t, <2>3 DEF InsertLock
    <3>2. LockStaysInMap'
      BY <1>t, <2>3 DEF InsertLock
    <3>3. \A q \in holds : UrlOf[q] # UrlOf[r]
      BY <2>3 DEF InsertLock
    <3>4. ExclusionUntilStrayUnlock'
      BY <1>t, <2>3, <3>3 DEF InsertLock
    <3>5. QED
      BY <1>0, <3>1, <3>2, <3>4
  <2>4. CASE CountBlocked(r)
    BY <1>0, <1>t, <2>4 DEF CountBlocked
  <2>5. CASE Lock(r)
    BY <1>0, <1>t, <2>5 DEF Lock
  <2>6. CASE UncountBlocked(r)
    BY <1>0, <1>t, <2>6 DEF UncountBlocked
  <2>7. QED
    BY <1>2, <2>1, <2>2, <2>3, <2>4, <2>5, <2>6 DEF AcquireRequestLock
<1>3. ASSUME NEW r \in Requests, RoundTrip(r) PROVE LockInv'
  BY <1>0, <1>t, <1>3 DEF RoundTrip
<1>4. ASSUME NEW r \in Requests, ResponseHandler(r) PROVE LockInv'
  BY <1>0, <1>t, <1>4 DEF ResponseHandler, RespondError, RespondWithoutRelease,
     RespondAndStore
<1>5. ASSUME NEW r \in Requests, ReleaseRequestLock(r) PROVE LockInv'
  <2>1. CASE MapRace(r) \/ NothingToRelease(r)
    BY <1>0, <1>t, <2>1 DEF MapRace, NothingToRelease
  <2>2. CASE TryLock(r)
    BY <1>0, <1>t, <2>2 DEF TryLock
  <2>3. CASE Unlock(r)
    BY <1>0, <1>t, <2>3 DEF Unlock
  <2>4. QED
    BY <1>5, <2>1, <2>2, <2>3 DEF ReleaseRequestLock
<1>6. CASE Environment
  BY <1>0, <1>t, <1>6 DEF Environment, SetCacheMode, TapeRecord, TapeStop,
     TapeLoad, SetTapeMode, ClearCache, Evict, Lapse, Interrupt
<1>7. CASE Launch
  BY <1>0, <1>7 DEF Launch
<1>8. CASE UNCHANGED vars
  BY <1>0, <1>8 DEF vars
<1>9. QED
  BY <1>1, <1>2, <1>3, <1>4, <1>5, <1>6, <1>7, <1>8 DEF Next, Step

LEMMA LockInit == Init => LockInv
<1>1. Init => TypeOK
  BY TypeCorrectInit
<1>2. QED
  BY <1>1 DEF Init, LockInv, OneInserting, InsertsNewLock, LockStaysInMap,
              ExclusionUntilStrayUnlock

(* Each URL's lock keeps to one holder until some request unlocks a mutex  *)
(* it has not locked (ExclusionUntilStrayUnlock), for all requests and     *)
(* URLs.                                                                   *)
THEOREM LockExclusion == Spec => []ExclusionUntilStrayUnlock
<1>1. LockInv => ExclusionUntilStrayUnlock
  BY DEF LockInv
<1>2. QED
  BY LockInit, LockStep, <1>1, PTL DEF Spec

-----------------------------------------------------------------------------
(* While no tape is ever loaded, a holder is on its way to its release.    *)
HoldingLabels == {"granted", "outbound", "respond", "release", "unlock"}
HolderOnItsWay == \A r \in holds : pc[r] \in HoldingLabels
ReleaseInv ==
  /\ LockInv
  /\ tapeMode # "read"
  /\ HolderOnItsWay
  /\ NoAbandonedLock

LEMMA ReleaseStep ==
  ASSUME "read" \notin RecorderModes
  PROVE  ReleaseInv /\ [Next]_vars => ReleaseInv'
<1> USE DEF ReleaseInv, HolderOnItsWay, HoldingLabels, NoAbandonedLock,
            lockVars, modeVars, Goto, At
<1> SUFFICES ASSUME ReleaseInv, [Next]_vars PROVE ReleaseInv'
  OBVIOUS
<1>0. LockInv /\ LockInv'
  BY LockStep
<1>t. /\ pc \in [Requests -> Labels]
      /\ UrlOf \in [Requests -> Urls]
      /\ holds \subseteq Requests
  BY <1>0, RequestAssumption DEF LockInv, TypeOK, RequestAssumption
<1>1. ASSUME NEW r \in Requests, RequestHandler(r) PROVE ReleaseInv'
  BY <1>0, <1>t, <1>1 DEF RequestHandler, ReplayTape, PassRecorder, SkipCache,
     CacheHit, CacheMiss
<1>2. ASSUME NEW r \in Requests, AcquireRequestLock(r) PROVE ReleaseInv'
  BY <1>0, <1>t, <1>2 DEF AcquireRequestLock, NoLockNeeded, FindLock, InsertLock,
     CountBlocked, Lock, UncountBlocked
<1>3. ASSUME NEW r \in Requests, RoundTrip(r) PROVE ReleaseInv'
  BY <1>0, <1>t, <1>3 DEF RoundTrip
<1>4. ASSUME NEW r \in Requests, ResponseHandler(r) PROVE ReleaseInv'
  BY <1>0, <1>t, <1>4 DEF ResponseHandler, RespondError, RespondWithoutRelease,
     RespondAndStore
<1>5. ASSUME NEW r \in Requests, ReleaseRequestLock(r) PROVE ReleaseInv'
  <2>1. CASE MapRace(r)
    BY <1>0, <1>t, <2>1 DEF MapRace
  <2>2. CASE NothingToRelease(r)
    <3>1. r \notin holds
      BY <1>0, <2>2 DEF NothingToRelease, LockInv, LockStaysInMap
    <3>2. QED
      BY <1>0, <1>t, <2>2, <3>1 DEF NothingToRelease
  <2>3. CASE TryLock(r)
    BY <1>0, <1>t, <2>3 DEF TryLock
  <2>4. CASE Unlock(r)
    BY <1>0, <1>t, <2>4 DEF Unlock
  <2>5. QED
    BY <1>5, <2>1, <2>2, <2>3, <2>4 DEF ReleaseRequestLock
<1>6. CASE Environment
  BY <1>0, <1>t, <1>6 DEF Environment, SetCacheMode, TapeRecord, TapeStop,
     TapeLoad, SetTapeMode, ClearCache, Evict, Lapse, Interrupt
<1>7. CASE Launch
  BY <1>0, <1>7 DEF Launch
<1>8. CASE UNCHANGED vars
  BY <1>0, <1>8 DEF vars
<1>9. QED
  BY <1>1, <1>2, <1>3, <1>4, <1>5, <1>6, <1>7, <1>8 DEF Next, Step

(* Where no tape is ever loaded, no mutex stays locked without a request   *)
(* on its way to unlock it (NoAbandonedLock), through every change of the  *)
(* cache mode.                                                             *)
THEOREM LocksReleased ==
  ASSUME "read" \notin RecorderModes
  PROVE  Spec => []NoAbandonedLock
<1>1. Init => ReleaseInv
  BY LockInit DEF Init, ReleaseInv, HolderOnItsWay, NoAbandonedLock
<1>2. ReleaseInv /\ [Next]_vars => ReleaseInv'
  BY ReleaseStep
<1>3. ReleaseInv => NoAbandonedLock
  BY DEF ReleaseInv
<1>4. QED
  BY <1>1, <1>2, <1>3, PTL DEF Spec

-----------------------------------------------------------------------------
(* blockingLocks counts the requests blocked on each URL exactly           *)
(* (BlockingCountExact), through changes of mode, releases and restarts.   *)
CountInv == TypeOK /\ BlockingCountExact

LEMMA CountStep == CountInv /\ [Next]_vars => CountInv'
<1> USE DEF CountInv, BlockingCountExact, BlockedOn, lockVars, modeVars, Goto, At
<1> SUFFICES ASSUME CountInv, [Next]_vars PROVE CountInv'
  OBVIOUS
<1>0. TypeOK /\ TypeOK'
  BY TypeStep
<1>t. /\ pc \in [Requests -> Labels]
      /\ UrlOf \in [Requests -> Urls]
      /\ blocking \in [Urls -> Int]
  BY <1>0, RequestAssumption DEF TypeOK, RequestAssumption
<1>f. \A u \in Urls : IsFiniteSet(BlockedOn(u))
  BY FS_Subset, RequestAssumption DEF RequestAssumption
<1>1. ASSUME \A u \in Urls : BlockedOn(u)' = BlockedOn(u), blocking' = blocking
      PROVE  CountInv'
  BY <1>0, <1>1
<1>2. ASSUME NEW r \in Requests, CountBlocked(r) PROVE CountInv'
  <2>1. BlockedOn(UrlOf[r])' = BlockedOn(UrlOf[r]) \cup {r}
    BY <1>t, <1>2 DEF CountBlocked
  <2>2. r \notin BlockedOn(UrlOf[r])
    BY <1>2 DEF CountBlocked
  <2>3. \A u \in Urls \ {UrlOf[r]} : BlockedOn(u)' = BlockedOn(u)
    BY <1>t, <1>2 DEF CountBlocked
  <2>4. Cardinality(BlockedOn(UrlOf[r])') = Cardinality(BlockedOn(UrlOf[r])) + 1
    <3>1. UrlOf[r] \in Urls /\ IsFiniteSet(BlockedOn(UrlOf[r]))
      BY <1>t, <1>f
    <3> HIDE DEF BlockedOn
    <3>2. QED
      BY <2>1, <2>2, <3>1, FS_AddElement
  <2>5. \A u \in Urls : blocking'[u] = IF u = UrlOf[r] THEN blocking[u] + 1 ELSE blocking[u]
    BY <1>t, <1>2 DEF CountBlocked
  <2>6. QED
    BY <1>0, <1>t, <2>3, <2>4, <2>5
<1>3. ASSUME NEW r \in Requests, UncountBlocked(r) PROVE CountInv'
  <2>1. BlockedOn(UrlOf[r])' = BlockedOn(UrlOf[r]) \ {r}
    BY <1>t, <1>3 DEF UncountBlocked
  <2>2. r \in BlockedOn(UrlOf[r])
    BY <1>3 DEF UncountBlocked
  <2>3. \A u \in Urls \ {UrlOf[r]} : BlockedOn(u)' = BlockedOn(u)
    BY <1>t, <1>3 DEF UncountBlocked
  <2>4. Cardinality(BlockedOn(UrlOf[r])') = Cardinality(BlockedOn(UrlOf[r])) - 1
    <3>1. UrlOf[r] \in Urls /\ IsFiniteSet(BlockedOn(UrlOf[r]))
      BY <1>t, <1>f
    <3> HIDE DEF BlockedOn
    <3>2. QED
      BY <2>1, <2>2, <3>1, FS_RemoveElement
  <2>5. \A u \in Urls : blocking'[u] = IF u = UrlOf[r] THEN blocking[u] - 1 ELSE blocking[u]
    BY <1>t, <1>3 DEF UncountBlocked
  <2>6. QED
    BY <1>0, <1>t, <2>3, <2>4, <2>5
<1>4. ASSUME NEW r \in Requests, Step(r), ~CountBlocked(r), ~UncountBlocked(r)
      PROVE  CountInv'
  <2>1. blocking' = blocking /\ \A u \in Urls : BlockedOn(u)' = BlockedOn(u)
    BY <1>t, <1>4 DEF Step, RequestHandler, ReplayTape, PassRecorder, SkipCache,
       CacheHit, CacheMiss, AcquireRequestLock, NoLockNeeded, FindLock,
       InsertLock, Lock, RoundTrip, ResponseHandler, RespondError,
       RespondWithoutRelease, RespondAndStore, ReleaseRequestLock, MapRace,
       NothingToRelease, TryLock, Unlock
  <2>2. QED
    BY <1>1, <2>1
<1>5. CASE Environment
  BY <1>1, <1>5 DEF Environment, SetCacheMode, TapeRecord, TapeStop, TapeLoad,
     SetTapeMode, ClearCache, Evict, Lapse, Interrupt
<1>6. CASE Launch
  <2>1. \A u \in Urls : BlockedOn(u)' = {}
    BY <1>6 DEF Launch
  <2>2. QED
    BY <1>0, <1>6, <2>1, FS_EmptySet DEF Launch
<1>7. CASE UNCHANGED vars
  BY <1>1, <1>7 DEF vars
<1>8. QED
  BY <1>2, <1>3, <1>4, <1>5, <1>6, <1>7 DEF Next

(* The numbers LogBlockingRequests reports are the requests that are       *)
(* blocked (BlockingCountExact), for all requests and URLs.                *)
THEOREM BlockedRequestsCounted == Spec => []BlockingCountExact
<1>1. Init => CountInv
  <2>1. Init => \A u \in Urls : BlockedOn(u) = {}
    BY DEF Init, BlockedOn
  <2>2. QED
    BY <2>1, TypeCorrectInit, FS_EmptySet DEF Init, CountInv, BlockingCountExact
<1>2. CountInv => BlockingCountExact
  BY DEF CountInv
<1>3. QED
  BY <1>1, <1>2, CountStep, PTL DEF Spec

-----------------------------------------------------------------------------
(* Traffic that standard mode never caches: whoever is past the lock holds *)
(* it, and no mutex is ever unlocked by anyone else.                       *)
UncacheableInv ==
  /\ LockInv
  /\ mode = "standard" /\ tapeMode # "read"
  /\ \A k \in Keys : store[k].kind = "none"
  /\ \A r \in Requests : pc[r] = "respond" => reply[r].kind \in {"nostore", "error"}
  /\ \A r \in Requests : pc[r] \in HoldingLabels <=> r \in holds
  /\ stray = {}
  /\ process # "unlock"

Uncacheable ==
  /\ Outcomes \subseteq {"nostore", "error"}
  /\ CacheModes \subseteq {"standard"}
  /\ "read" \notin RecorderModes

LEMMA UncacheableInit == Init => UncacheableInv
<1>1. Init => LockInv
  BY LockInit
<1>2. QED
  BY <1>1 DEF Init, UncacheableInv, HoldingLabels, NoEntry

LEMMA UncacheableStep ==
  ASSUME Uncacheable
  PROVE  UncacheableInv /\ [Next]_vars => UncacheableInv'
<1> USE DEF UncacheableInv, HoldingLabels, lockVars, modeVars, Goto, At
<1> SUFFICES ASSUME UncacheableInv, [Next]_vars PROVE UncacheableInv'
  OBVIOUS
<1>0. LockInv /\ LockInv'
  BY LockStep
<1>t. /\ pc \in [Requests -> Labels]
      /\ reply \in [Requests -> Reply]
      /\ UrlOf \in [Requests -> Urls]
      /\ KeyOf \in [Requests -> Keys]
      /\ holds \subseteq Requests
  BY <1>0, RequestAssumption DEF LockInv, TypeOK, RequestAssumption
<1>1. ASSUME NEW r \in Requests, RequestHandler(r) PROVE UncacheableInv'
  BY <1>0, <1>t, <1>1 DEF RequestHandler, ReplayTape, PassRecorder, SkipCache,
     CacheHit, CacheMiss, CacheEntryValid
<1>2. ASSUME NEW r \in Requests, AcquireRequestLock(r) PROVE UncacheableInv'
  BY <1>0, <1>t, <1>2 DEF AcquireRequestLock, NoLockNeeded, FindLock, InsertLock,
     CountBlocked, Lock, UncountBlocked
<1>3. ASSUME NEW r \in Requests, RoundTrip(r) PROVE UncacheableInv'
  <2>1. reply'[r].kind \in {"nostore", "error"}
    <3>1. PICK kind \in Outcomes : \E age \in Ages :
            reply' = [reply EXCEPT ![r] =
                        [kind |-> kind, age |-> age]]
      BY <1>3 DEF RoundTrip, Ages
    <3>2. kind \in {"nostore", "error"}
      BY DEF Uncacheable
    <3>3. reply'[r].kind = kind
      BY <1>t, <3>1
    <3>4. QED
      BY <3>2, <3>3
  <2>2. \A q \in Requests \ {r} : reply'[q] = reply[q]
    BY <1>t, <1>3 DEF RoundTrip
  <2>3. QED
    BY <1>0, <1>t, <1>3, <2>1, <2>2 DEF RoundTrip
<1>4. ASSUME NEW r \in Requests, ResponseHandler(r) PROVE UncacheableInv'
  <2>1. store' = store
    BY <1>4 DEF ResponseHandler, RespondError, RespondWithoutRelease,
       RespondAndStore, SetFailedCacheContents, SetValidCacheContents,
       IsModeAggressive
  <2>2. QED
    BY <1>0, <1>t, <1>4, <2>1 DEF ResponseHandler, RespondError,
       RespondWithoutRelease, RespondAndStore
<1>5. ASSUME NEW r \in Requests, ReleaseRequestLock(r) PROVE UncacheableInv'
  <2>1. /\ r \in holds => UrlOf[r] \in locked /\ UrlOf[r] \in lockMap
        /\ pc[r] \in {"release", "unlock"} => r \in holds
    BY <1>0 DEF LockInv, LockStaysInMap, ExclusionUntilStrayUnlock
  <2>2. QED
    BY <1>0, <1>t, <1>5, <2>1 DEF ReleaseRequestLock, MapRace,
       NothingToRelease, TryLock, Unlock
<1>6. CASE Environment
  <2>1. store \in [Keys -> Entry]
    BY <1>0 DEF LockInv, TypeOK
  <2>2. \A k \in Keys : ~Lapse(k)
    BY DEF Lapse
  <2>3. \A k \in Keys : store'[k].kind = "none"
    BY <1>6, <2>1, <2>2 DEF Environment, SetCacheMode, TapeRecord, TapeStop,
       TapeLoad, SetTapeMode, ClearCache, Evict, Interrupt, NoEntry
  <2>4. QED
    BY <1>0, <1>t, <1>6, <2>2, <2>3 DEF Uncacheable, Environment, SetCacheMode,
       TapeRecord, TapeStop, TapeLoad, SetTapeMode, ClearCache, Evict, Interrupt
<1>7. CASE Launch
  BY <1>0, <1>7 DEF Launch
<1>8. CASE UNCHANGED vars
  BY <1>0, <1>8 DEF vars
<1>9. QED
  BY <1>1, <1>2, <1>3, <1>4, <1>5, <1>6, <1>7, <1>8 DEF Next, Step

(* Traffic that is never cached never makes the release unlock an unlocked *)
(* mutex (UnlockNeverFatal): there ReleaseRequestLock's comment is right.  *)
THEOREM UncacheableUnlocks ==
  ASSUME Uncacheable
  PROVE  Spec => []UnlockNeverFatal
<1>1. UncacheableInv /\ [Next]_vars => UncacheableInv'
  BY UncacheableStep
<1>2. UncacheableInv => UnlockNeverFatal
  BY DEF UncacheableInv, UnlockNeverFatal
<1>3. QED
  BY UncacheableInit, <1>1, <1>2, PTL DEF Spec

(* With traffic that is never cached, the proxy implements the promise of  *)
(* one outbound request per URL (SingleFlightSpec): the first and the last *)
(* step of a round trip are a flight's, the end of the process ends every  *)
(* flight, and every other step leaves the flights alone.                  *)
THEOREM UncacheableSingleFlight ==
  ASSUME Uncacheable
  PROVE  Spec => SingleFlightSpec
<1>1. Init => Promise!Init
  BY DEF Init, Promise!Init, Outbound, At
<1>2. UncacheableInv /\ [Next]_vars => UncacheableInv'
  BY UncacheableStep
<1>3. UncacheableInv /\ [Next]_vars => [Promise!Next]_Outbound
  <2> SUFFICES ASSUME UncacheableInv, [Next]_vars, Outbound' # Outbound
               PROVE  Promise!Next
    OBVIOUS
  <2> USE DEF Outbound, At, Goto, lockVars, modeVars
  <2>t. pc \in [Requests -> Labels]
    BY DEF UncacheableInv, LockInv, TypeOK
  <2>f. /\ \A r, q \in holds : UrlOf[q] = UrlOf[r] => q = r
        /\ \A r \in Requests : pc[r] \in HoldingLabels <=> r \in holds
    BY DEF UncacheableInv, LockInv, ExclusionUntilStrayUnlock
  <2> USE DEF Promise!Next, Promise!TakeOff, Promise!Arrive, Promise!Abort
  <2>1. ASSUME NEW r \in Requests, Step(r) PROVE Promise!Next
    <3>1. CASE UncountBlocked(r)
      <4>1. Outbound' = Outbound \cup {r}
        BY <2>t, <3>1 DEF UncountBlocked
      <4>2. \A q \in Outbound : UrlOf[q] # UrlOf[r]
        BY <2>t, <2>f, <3>1 DEF UncountBlocked, HoldingLabels
      <4>3. QED
        BY <4>1, <4>2
    <3>2. CASE RoundTrip(r)
      <4>1. r \in Outbound /\ Outbound' = Outbound \ {r}
        BY <2>t, <3>2 DEF RoundTrip
      <4>2. QED
        BY <4>1
    <3>3. CASE ReleaseRequestLock(r)
      BY <2>t, <3>3 DEF ReleaseRequestLock, MapRace, NothingToRelease, TryLock, Unlock
    <3>4. CASE RequestHandler(r) \/ ResponseHandler(r)
      BY <2>t, <3>4 DEF RequestHandler, ReplayTape, PassRecorder, SkipCache,
         CacheHit, CacheMiss, ResponseHandler, RespondError,
         RespondWithoutRelease, RespondAndStore, UncacheableInv
    <3>5. CASE AcquireRequestLock(r) /\ ~UncountBlocked(r)
      BY <2>t, <3>5 DEF AcquireRequestLock, NoLockNeeded, FindLock, InsertLock,
         CountBlocked, Lock, UncacheableInv
    <3>6. QED
      BY <2>1, <3>1, <3>2, <3>3, <3>4, <3>5 DEF Step
  <2>2. CASE Environment
    BY <2>t, <2>2 DEF Environment, SetCacheMode, TapeRecord, TapeStop,
       TapeLoad, SetTapeMode, ClearCache, Evict, Lapse, Interrupt
  <2>3. CASE Launch
    BY <2>t, <2>3 DEF Launch
  <2>4. CASE UNCHANGED vars
    BY <2>4 DEF vars
  <2>5. QED
    BY <2>1, <2>2, <2>3, <2>4 DEF Next
<1>4. QED
  BY UncacheableInit, <1>1, <1>2, <1>3, PTL DEF Spec, SingleFlightSpec, Promise!Spec
=============================================================================
