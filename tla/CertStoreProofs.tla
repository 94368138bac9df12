--------------------------- MODULE CertStoreProofs ---------------------------
(***************************************************************************)
(* Theorems about CertStore, for any number of connections and hosts: the  *)
(* host mutexes exclude, so that a certificate is generated once and what  *)
(* was returned is what is stored.                                         *)
(***************************************************************************)
EXTENDS CertStore, TLAPS

(* The labels at which a fetch has its host's mutex in hand, and those at  *)
(* which it holds it.                                                      *)
Holding == {"read", "generate", "lock", "write", "unlock"}
HasMutex == Holding \cup {"wait"}

(* A fetch under way has its host; one about to insert or past the insert, *)
(* its mutex.                                                              *)
VariablesSet ==
  \A f \in Fetches :
    /\ pc[f] # "idle" => host[f] \in Hosts
    /\ pc[f] \in HasMutex \cup {"insert"} => mutex[f] \in Mutexes

(* The store's own mutex is held at "find" and "insert" and nowhere else,  *)
(* so that the mutex a fetch inserts is the first one for its host.        *)
StoreLockHeld ==
  \A f \in Fetches :
    /\ pc[f] \in {"find", "insert"} => storeLock = f
    /\ pc[f] = "insert" => locks[host[f]] = None

(* From then on every fetch for the host has that same mutex in hand.      *)
HostLockHeld ==
  \A f \in Fetches :
    /\ pc[f] \in HasMutex => mutex[f] = locks[host[f]]
    /\ pc[f] \in Holding => holder[mutex[f]] = f

(* What the holder of a host's mutex knows of its certificate.             *)
CertKnown ==
  \A f \in Fetches :
    /\ pc[f] \in {"generate", "lock", "write"} => certs[host[f]] = None
    /\ pc[f] = "generate" => cert[f] = None
    /\ pc[f] = "unlock" /\ cert[f] # None => certs[host[f]] = cert[f]

MutexInv == TypeOK /\ VariablesSet /\ StoreLockHeld /\ HostLockHeld
Inv == MutexInv /\ CertKnown

-----------------------------------------------------------------------------
(* Two fetches for one host that both hold its mutex are one fetch.        *)
LEMMA HoldersAreOne ==
  ASSUME MutexInv, NEW f \in Fetches, NEW g \in Fetches,
         pc[f] \in Holding, pc[g] \in Holding, host[f] = host[g]
  PROVE  f = g
BY DEF MutexInv, HostLockHeld, HasMutex

LEMMA NoneIsNoMutex == \A m \in Mutexes : m # None
BY CertAssumption

LEMMA InitInv == Init => Inv
BY DEF Init, Inv, MutexInv, TypeOK, VariablesSet, StoreLockHeld, HostLockHeld,
   CertKnown, Labels, HasMutex, Holding

LEMMA TypeStep == Inv /\ [Next]_vars => TypeOK' /\ VariablesSet'
<1> SUFFICES ASSUME Inv, [Next]_vars PROVE TypeOK' /\ VariablesSet'
  OBVIOUS
<1>t. TypeOK /\ VariablesSet /\ CertKnown
  BY DEF Inv, MutexInv
<1>1. CASE UNCHANGED vars
  BY <1>t, <1>1 DEF vars, TypeOK, VariablesSet
<1>2. ASSUME NEW f \in Fetches, Fetch(f) PROVE TypeOK' /\ VariablesSet'
  BY <1>t, <1>2 DEF Fetch, Goto, TypeOK, VariablesSet, Labels, HasMutex, Holding
<1>3. ASSUME NEW f \in Fetches, LockStore(f) \/ FindLock(f) \/ NoLock(f)
      PROVE  TypeOK' /\ VariablesSet'
  <2>1. [by |-> f, host |-> host[f]] \in Mutexes \/ ~NoLock(f)
    BY <1>t DEF NoLock, VariablesSet, Mutexes
  <2>2. CASE LockStore(f)
    BY <1>t, <2>2 DEF LockStore, Goto, TypeOK, VariablesSet, Labels, HasMutex, Holding
  <2>3. CASE FindLock(f)
    BY <1>t, <2>3 DEF FindLock, Goto, TypeOK, VariablesSet, Labels, HasMutex, Holding
  <2>4. CASE NoLock(f)
    BY <1>t, <2>1, <2>4 DEF NoLock, Goto, TypeOK, VariablesSet, Labels, HasMutex, Holding
  <2> QED BY <1>3, <2>2, <2>3, <2>4
<1>4. ASSUME NEW f \in Fetches, InsertLock(f) \/ LockHost(f) \/ ReadCert(f)
      PROVE  TypeOK' /\ VariablesSet'
  <2>1. CASE InsertLock(f)
    BY <1>t, <2>1 DEF InsertLock, Goto, TypeOK, VariablesSet, Labels, HasMutex, Holding
  <2>2. CASE LockHost(f)
    BY <1>t, <2>2 DEF LockHost, Goto, TypeOK, VariablesSet, Labels, HasMutex, Holding
  <2>3. CASE ReadCert(f)
    BY <1>t, <2>3 DEF ReadCert, Goto, TypeOK, VariablesSet, Labels, HasMutex, Holding
  <2> QED BY <1>4, <2>1, <2>2, <2>3
<1>5. ASSUME NEW f \in Fetches, GenCert(f) \/ GenCertFails(f) \/ LockCerts(f)
      PROVE  TypeOK' /\ VariablesSet'
  <2>1. CASE GenCert(f)
    <3>1. [by |-> f, host |-> host[f]] \in Mutexes
      BY <1>t, <2>1 DEF GenCert, VariablesSet, Mutexes
    <3>2. [by |-> f, host |-> host[f]] \in Certs /\ [by |-> f, host |-> host[f]] # None
      BY <3>1, NoneIsNoMutex DEF Certs, Mutexes
    <3> QED BY <1>t, <2>1, <3>2 DEF GenCert, Goto, TypeOK, VariablesSet, Labels, HasMutex, Holding
  <2>2. CASE GenCertFails(f)
    BY <1>t, <2>2 DEF GenCertFails, Goto, TypeOK, VariablesSet, Labels, HasMutex, Holding
  <2>3. CASE LockCerts(f)
    BY <1>t, <2>3 DEF LockCerts, Goto, TypeOK, VariablesSet, Labels, HasMutex, Holding
  <2> QED BY <1>5, <2>1, <2>2, <2>3
<1>6. ASSUME NEW f \in Fetches, StoreCert(f) \/ UnlockHost(f)
      PROVE  TypeOK' /\ VariablesSet'
  <2>1. CASE StoreCert(f)
    BY <1>t, <2>1 DEF StoreCert, Goto, TypeOK, VariablesSet, Labels, HasMutex, Holding
  <2>2. CASE UnlockHost(f)
    BY <1>t, <2>2 DEF UnlockHost, Goto, TypeOK, VariablesSet, Labels, HasMutex, Holding
  <2> QED BY <1>6, <2>1, <2>2
<1> QED BY <1>1, <1>2, <1>3, <1>4, <1>5, <1>6 DEF Next, Continue

LEMMA StoreLockStep == Inv /\ [Next]_vars => StoreLockHeld'
<1> SUFFICES ASSUME Inv, [Next]_vars PROVE StoreLockHeld'
  OBVIOUS
<1>t. TypeOK /\ VariablesSet /\ StoreLockHeld
  BY DEF Inv, MutexInv
<1>n. None \notin Fetches
  BY CertAssumption
<1>1. CASE UNCHANGED vars
  BY <1>t, <1>1 DEF vars, StoreLockHeld
<1>2. ASSUME NEW f \in Fetches, LockStore(f) \/ FindLock(f) \/ NoLock(f)
      PROVE  StoreLockHeld'
  BY <1>t, <1>n, <1>2 DEF LockStore, FindLock, NoLock, Goto, TypeOK, StoreLockHeld
<1>3. ASSUME NEW f \in Fetches, InsertLock(f) PROVE StoreLockHeld'
  <2>1. \A g \in Fetches : pc[g] \in {"find", "insert"} => g = f
    BY <1>t, <1>3 DEF InsertLock, StoreLockHeld
  <2> QED BY <1>t, <1>3, <2>1 DEF InsertLock, Goto, TypeOK, StoreLockHeld
<1>4. ASSUME NEW f \in Fetches, Fetch(f) \/ UnlockHost(f) PROVE StoreLockHeld'
  BY <1>t, <1>4 DEF Fetch, UnlockHost, Goto, TypeOK, StoreLockHeld
<1>5. ASSUME NEW f \in Fetches,
             \/ LockHost(f) \/ ReadCert(f) \/ LockCerts(f)
             \/ StoreCert(f) \/ GenCert(f) \/ GenCertFails(f)
      PROVE  StoreLockHeld'
  BY <1>t, <1>5 DEF LockHost, ReadCert, LockCerts, StoreCert, GenCert,
     GenCertFails, Goto, TypeOK, StoreLockHeld
<1> QED BY <1>1, <1>2, <1>3, <1>4, <1>5 DEF Next, Continue

LEMMA HostLockStep == Inv /\ [Next]_vars => HostLockHeld'
<1> SUFFICES ASSUME Inv, [Next]_vars PROVE HostLockHeld'
  OBVIOUS
<1>t. TypeOK /\ VariablesSet /\ StoreLockHeld /\ HostLockHeld
  BY DEF Inv, MutexInv
<1>n. None \notin Fetches /\ \A m \in Mutexes : m # None
  BY CertAssumption
<1>1. CASE UNCHANGED vars
  BY <1>t, <1>1 DEF vars, HostLockHeld
<1>2. ASSUME NEW f \in Fetches, Fetch(f) \/ LockStore(f) \/ FindLock(f) \/ NoLock(f)
      PROVE  HostLockHeld'
  BY <1>t, <1>2 DEF Fetch, LockStore, FindLock, NoLock, Goto, TypeOK, HostLockHeld,
     HasMutex, Holding
<1>3. ASSUME NEW f \in Fetches, InsertLock(f) PROVE HostLockHeld'
  <2>1. \A g \in Fetches : pc[g] \in HasMutex => host[g] # host[f]
    BY <1>t, <1>n, <1>3 DEF InsertLock, VariablesSet, StoreLockHeld, HostLockHeld
  <2>2. host[f] \in Hosts
    BY <1>t, <1>3 DEF InsertLock, VariablesSet
  <2> QED BY <1>t, <1>3, <2>1, <2>2 DEF InsertLock, Goto, TypeOK, HostLockHeld,
             HasMutex, Holding
<1>4. ASSUME NEW f \in Fetches, LockHost(f) PROVE HostLockHeld'
  <2>1. mutex[f] \in Mutexes
    BY <1>t, <1>4 DEF LockHost, VariablesSet, HasMutex
  <2>2. \A g \in Fetches : pc[g] \in Holding => mutex[g] # mutex[f]
    BY <1>t, <1>n, <1>4 DEF LockHost, HostLockHeld
  <2> QED BY <1>t, <1>4, <2>1, <2>2 DEF LockHost, Goto, TypeOK, HostLockHeld,
             HasMutex, Holding
<1>5. ASSUME NEW f \in Fetches,
             \/ ReadCert(f) \/ LockCerts(f)
             \/ StoreCert(f) \/ GenCert(f) \/ GenCertFails(f)
      PROVE  HostLockHeld'
  BY <1>t, <1>5 DEF ReadCert, LockCerts, StoreCert, GenCert,
     GenCertFails, Goto, TypeOK, HostLockHeld, HasMutex, Holding
<1>6. ASSUME NEW f \in Fetches, UnlockHost(f) PROVE HostLockHeld'
  <2>1. \A g \in Fetches : pc[g] \in Holding /\ g # f => mutex[g] # mutex[f]
    BY <1>t, <1>6 DEF UnlockHost, HostLockHeld, Holding
  <2>2. mutex[f] \in Mutexes
    BY <1>t, <1>6 DEF UnlockHost, VariablesSet, HasMutex, Holding
  <2> QED BY <1>t, <1>6, <2>1, <2>2 DEF UnlockHost, Goto, TypeOK, HostLockHeld,
             HasMutex, Holding
<1> QED BY <1>1, <1>2, <1>3, <1>4, <1>5, <1>6 DEF Next, Continue

LEMMA CertKnownStep == Inv /\ [Next]_vars => CertKnown'
<1> SUFFICES ASSUME Inv, [Next]_vars PROVE CertKnown'
  OBVIOUS
<1>t. TypeOK /\ VariablesSet /\ CertKnown
  BY DEF Inv, MutexInv
<1>1. CASE UNCHANGED vars
  BY <1>t, <1>1 DEF vars, CertKnown
<1>2. ASSUME NEW f \in Fetches,
             \/ Fetch(f) \/ LockStore(f) \/ FindLock(f) \/ NoLock(f) \/ InsertLock(f)
             \/ LockHost(f) \/ LockCerts(f) \/ UnlockHost(f)
      PROVE  CertKnown'
  BY <1>t, <1>2 DEF Fetch, LockStore, FindLock, NoLock, InsertLock, LockHost,
     LockCerts, UnlockHost, Goto, TypeOK, CertKnown
<1>3. ASSUME NEW f \in Fetches, ReadCert(f) \/ GenCert(f) \/ GenCertFails(f)
      PROVE  CertKnown'
  BY <1>t, <1>3 DEF ReadCert, GenCert, GenCertFails, Goto, TypeOK, CertKnown
<1>4. ASSUME NEW f \in Fetches, StoreCert(f) PROVE CertKnown'
  <2>1. \A g \in Fetches : pc[g] \in Holding /\ g # f => host[g] # host[f]
    BY <1>4, HoldersAreOne DEF StoreCert, Holding, Inv
  <2>2. host[f] \in Hosts
    BY <1>t, <1>4 DEF StoreCert, VariablesSet
  <2> QED BY <1>t, <1>4, <2>1, <2>2 DEF StoreCert, Goto, TypeOK, CertKnown, Holding
<1> QED BY <1>1, <1>2, <1>3, <1>4 DEF Next, Continue

THEOREM Invariance == Spec => []Inv
<1>1. Inv /\ [Next]_vars => Inv'
  BY TypeStep, StoreLockStep, HostLockStep, CertKnownStep DEF Inv, MutexInv
<1> QED BY InitInv, <1>1, PTL DEF Spec

(* The store keeps its types: TypeOK for every number of fetches.          *)
THEOREM TypeCorrect == Spec => []TypeOK
<1>1. Inv => TypeOK
  BY DEF Inv, MutexInv
<1> QED BY Invariance, <1>1, PTL

(* No two connections generate one host's certificate together, and none   *)
(* generates it again.                                                     *)
THEOREM CertificateGeneratedOnce == Spec => []GeneratedOnce
<1>1. Inv => GeneratedOnce
  <2> SUFFICES ASSUME Inv, NEW h \in Hosts
               PROVE  /\ \A f, g \in Generating(h) : f = g
                      /\ certs[h] # None => Generating(h) = {}
    BY DEF GeneratedOnce
  <2>1. \A f \in Generating(h) : f \in Fetches /\ pc[f] \in Holding /\ host[f] = h
    BY DEF Generating, Holding
  <2>2. \A f, g \in Generating(h) : f = g
    BY <2>1, HoldersAreOne DEF Inv
  <2>3. \A f \in Generating(h) : certs[h] = None
    BY DEF Generating, Inv, CertKnown
  <2> QED BY <2>2, <2>3
<1> QED BY Invariance, <1>1, PTL

(* A certificate that Fetch returns is the one the store has for the host. *)
THEOREM FetchReturnsStored == Spec => []ReturnedIsStored
<1>1. Inv => ReturnedIsStored
  BY DEF Inv, CertKnown, ReturnedIsStored
<1> QED BY Invariance, <1>1, PTL
=============================================================================
