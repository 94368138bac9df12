----------------------------- MODULE CertStore -----------------------------
(***************************************************************************)
(* The store of the certificates the proxy shows its clients               *)
(* (groove/proxy/optimized_storage.go).  Every intercepted connection      *)
(* calls Fetch in a goroutine of its own; the store's own mutex guards the *)
(* map of per-host mutexes, a host's mutex the search for its certificate, *)
(* and certLock the map of certificates.                                   *)
(***************************************************************************)
EXTENDS FiniteSets

CONSTANTS
  Fetches,   \* goroutines that call Fetch, one call at a time
  Hosts,
  MayFail,   \* whether genCert can return an error
  None

Mutexes == [by : Fetches, host : Hosts]   \* the *sync.Mutex a call creates
Certs == [by : Fetches, host : Hosts]     \* the certificate a call generates

ASSUME CertAssumption ==
  /\ MayFail \in BOOLEAN
  /\ None \notin Fetches \cup Hosts \cup Mutexes

VARIABLES
  certs,      \* the certificate of each host, or None
  locks,      \* the mutex of each host, or None
  storeLock,  \* the fetch that holds the store's own mutex, or None
  holder,     \* the fetch that holds each host mutex, or None
  pc, host, mutex, cert   \* of each fetch: where it is, and its variables

vars == <<certs, locks, storeLock, holder, pc, host, mutex, cert>>

-----------------------------------------------------------------------------
Labels == {"idle", "enter", "find", "insert", "wait", "read", "generate",
           "lock", "write", "unlock"}
Goto(f, label) == pc' = [pc EXCEPT ![f] = label]

(* certLock: its read side is held for one read of the map.                *)
Writers == {f \in Fetches : pc[f] = "write"}

Init ==
  /\ certs = [h \in Hosts |-> None]
  /\ locks = [h \in Hosts |-> None]
  /\ storeLock = None
  /\ holder = [m \in Mutexes |-> None]
  /\ pc = [f \in Fetches |-> "idle"]
  /\ host = [f \in Fetches |-> None]
  /\ mutex = [f \in Fetches |-> None]
  /\ cert = [f \in Fetches |-> None]

Fetch(f) ==
  /\ pc[f] = "idle"
  /\ \E h \in Hosts : host' = [host EXCEPT ![f] = h]
  /\ Goto(f, "enter")
  /\ UNCHANGED <<certs, locks, storeLock, holder, mutex, cert>>

(* hostLock: "Only one host lock should be generated at one time".         *)
(* Mutant: the store's own mutex is not taken.                             *)
LockStore_Unguarded(f) ==
  /\ pc[f] = "enter"
  /\ storeLock' = f
  /\ Goto(f, "find")
  /\ UNCHANGED <<certs, locks, holder, host, mutex, cert>>

LockStore(f) ==
  /\ pc[f] = "enter" /\ storeLock = None
  /\ storeLock' = f
  /\ Goto(f, "find")
  /\ UNCHANGED <<certs, locks, holder, host, mutex, cert>>

FindLock(f) ==
  /\ pc[f] = "find" /\ locks[host[f]] # None
  /\ mutex' = [mutex EXCEPT ![f] = locks[host[f]]]
  /\ storeLock' = None
  /\ Goto(f, "wait")
  /\ UNCHANGED <<certs, locks, holder, host, cert>>

NoLock(f) ==
  /\ pc[f] = "find" /\ locks[host[f]] = None
  /\ mutex' = [mutex EXCEPT ![f] = [by |-> f, host |-> host[f]]]
  /\ Goto(f, "insert")
  /\ UNCHANGED <<certs, locks, storeLock, holder, host, cert>>

InsertLock(f) ==
  /\ pc[f] = "insert"
  /\ locks' = [locks EXCEPT ![host[f]] = mutex[f]]
  /\ storeLock' = None
  /\ Goto(f, "wait")
  /\ UNCHANGED <<certs, holder, host, mutex, cert>>

-----------------------------------------------------------------------------
LockHost(f) ==
  /\ pc[f] = "wait" /\ holder[mutex[f]] = None
  /\ holder' = [holder EXCEPT ![mutex[f]] = f]
  /\ Goto(f, "read")
  /\ UNCHANGED <<certs, locks, storeLock, host, mutex, cert>>

ReadCert(f) ==
  /\ pc[f] = "read" /\ Writers = {}
  /\ cert' = [cert EXCEPT ![f] = certs[host[f]]]
  /\ Goto(f, IF certs[host[f]] = None THEN "generate" ELSE "unlock")
  /\ UNCHANGED <<certs, locks, storeLock, holder, host, mutex>>

(* genCert signs a certificate for the host with the proxy's CA.           *)
GenCert(f) ==
  /\ pc[f] = "generate"
  /\ cert' = [cert EXCEPT ![f] = [by |-> f, host |-> host[f]]]
  /\ Goto(f, "lock")
  /\ UNCHANGED <<certs, locks, storeLock, holder, host, mutex>>

(* Mutant: the error is not looked at.                                     *)
GenCertFails_Ignored(f) ==
  /\ pc[f] = "generate" /\ MayFail
  /\ Goto(f, "lock")
  /\ UNCHANGED <<certs, locks, storeLock, holder, host, mutex, cert>>

GenCertFails(f) ==
  /\ pc[f] = "generate" /\ MayFail
  /\ Goto(f, "unlock")
  /\ UNCHANGED <<certs, locks, storeLock, holder, host, mutex, cert>>

LockCerts(f) ==
  /\ pc[f] = "lock" /\ Writers = {}
  /\ Goto(f, "write")
  /\ UNCHANGED <<certs, locks, storeLock, holder, host, mutex, cert>>

(* Mutant: the certificate is returned and not kept.                       *)
StoreCert_Dropped(f) ==
  /\ pc[f] = "write"
  /\ Goto(f, "unlock")
  /\ UNCHANGED <<certs, locks, storeLock, holder, host, mutex, cert>>

StoreCert(f) ==
  /\ pc[f] = "write"
  /\ certs' = [certs EXCEPT ![host[f]] = cert[f]]
  /\ Goto(f, "unlock")
  /\ UNCHANGED <<locks, storeLock, holder, host, mutex, cert>>

(* Mutant: a call that failed returns with its host's mutex locked.        *)
UnlockHost_NotOnError(f) ==
  /\ pc[f] = "unlock"
  /\ holder' = IF cert[f] = None THEN holder
                                 ELSE [holder EXCEPT ![mutex[f]] = None]
  /\ host' = [host EXCEPT ![f] = None]
  /\ mutex' = [mutex EXCEPT ![f] = None]
  /\ cert' = [cert EXCEPT ![f] = None]
  /\ Goto(f, "idle")
  /\ UNCHANGED <<certs, locks, storeLock>>

(* The deferred unlock, on every way out of Fetch.                         *)
UnlockHost(f) ==
  /\ pc[f] = "unlock"
  /\ holder' = [holder EXCEPT ![mutex[f]] = None]
  /\ host' = [host EXCEPT ![f] = None]
  /\ mutex' = [mutex EXCEPT ![f] = None]
  /\ cert' = [cert EXCEPT ![f] = None]
  /\ Goto(f, "idle")
  /\ UNCHANGED <<certs, locks, storeLock>>

-----------------------------------------------------------------------------
Continue(f) ==
  \/ LockStore(f) \/ FindLock(f) \/ NoLock(f) \/ InsertLock(f) \/ LockHost(f)
  \/ ReadCert(f) \/ LockCerts(f) \/ StoreCert(f) \/ UnlockHost(f)

Next == \E f \in Fetches :
  Fetch(f) \/ Continue(f) \/ GenCert(f) \/ GenCertFails(f)

Spec == Init /\ [][Next]_vars

(* The scheduler runs what can run, and Go's mutexes are handed to each of *)
(* their waiters in the end.  genCert may take for ever.                   *)
FairSpec == Spec /\ \A f \in Fetches : SF_vars(Continue(f))

-----------------------------------------------------------------------------
TypeOK ==
  /\ certs \in [Hosts -> Certs \cup {None}]
  /\ locks \in [Hosts -> Mutexes \cup {None}]
  /\ storeLock \in Fetches \cup {None}
  /\ holder \in [Mutexes -> Fetches \cup {None}]
  /\ pc \in [Fetches -> Labels]
  /\ host \in [Fetches -> Hosts \cup {None}]
  /\ mutex \in [Fetches -> Mutexes \cup {None}]
  /\ cert \in [Fetches -> Certs \cup {None}]
  /\ \A f \in Fetches : pc[f] \in {"lock", "write"} => cert[f] # None

(* "Has per-host locks to avoid situation, when multiple concurrent        *)
(* requests to a host without ready to use certificate will generate the   *)
(* same certificate multiple times" (optimized_storage.go): at most one    *)
(* fetch is generating a host's certificate, and none once there is one.   *)
Generating(h) == {f \in Fetches : host[f] = h /\ pc[f] \in {"generate", "lock", "write"}}
GeneratedOnce ==
  \A h \in Hosts :
    /\ \A f, g \in Generating(h) : f = g
    /\ certs[h] # None => Generating(h) = {}

(* What Fetch returns without an error is what every later Fetch for the   *)
(* host will return.                                                       *)
ReturnedIsStored ==
  \A f \in Fetches : pc[f] = "unlock" /\ cert[f] # None => certs[host[f]] = cert[f]

(* A fetch waits for the generation of its own host's certificate and for  *)
(* nothing else that can last: a generation that never ends holds up no    *)
(* fetch for another host.                                                 *)
OnlyOwnHostBlocks ==
  \A f \in Fetches :
    pc[f] # "idle" ~> \/ pc[f] = "idle"
                      \/ \E g \in Fetches : pc[g] = "generate" /\ host[g] = host[f]
=============================================================================
