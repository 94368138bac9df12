------------------------------ MODULE Dialers ------------------------------
(***************************************************************************)
(* How a request leaves the proxy: the dialer definitions the control API  *)
(* loads (groove/proxy/controller.go), the choice of the next one          *)
(* (dialers.go) and the round trip that tries one after the other and      *)
(* remembers each host's protocol and each dialer's transport              *)
(* (transport.go).  Requests run in goroutines of their own, and nothing   *)
(* keeps them from reading the definitions while they are being loaded.    *)
(***************************************************************************)
EXTENDS Integers, SequencesExt

CONSTANTS
  Requests,
  HostOf,       \* getDialerAddress(request.URL)
  TypeOf,       \* the request's Resource-Type header
  MatchesOf,    \* the regular expressions that match the request's URL
  Loads,        \* the lists of definitions clients may load
  TotalTries,   \* DialerSession.TotalTries; 0 stands for as many as there are
  Protocols,    \* what the hosts may turn out to speak
  MaxId,        \* bound: definitions created in a process's life
  None

NoRequirement == [regex |-> "none", types |-> {}]
Requirement == {NoRequirement} \cup [regex : STRING, types : SUBSET STRING]
LoadEntry == [priority : Int, requires : Requirement]
BadRegex == "("
EmptyRegex == ""

ASSUME DialerAssumption ==
  /\ TotalTries \in Nat /\ MaxId \in Nat \ {0}
  /\ Loads \subseteq Seq(LoadEntry)

VARIABLES
  process,       \* "up" or "crashed"
  definitions,   \* DialerSession.DialerDefinitions
  created,       \* how many identifiers NewDialerDefinition has given out
  todo,          \* what dialer/load has still to append, or None
  pc,
  dialer,        \* the definition each request is trying, or None
  remaining, attempted,   \* its DialerContext
  protocol, handler,      \* what it has solved, or None
  began,         \* history: the definitions when its context was made
  protocolMap,   \* the protocol of each host, or None
  handlerMap     \* the transports, by identifier and protocol

loadVars == <<definitions, created, todo>>
tryVars == <<dialer, remaining, attempted, began>>
mapVars == <<protocolMap, handlerMap>>
vars == <<process, loadVars, pc, tryVars, protocol, handler, mapVars>>

-----------------------------------------------------------------------------
Hosts == {HostOf[r] : r \in Requests}
Ended == {"idle", "answered", "failed"}
Labels == Ended \cup {"next", "protocol", "dial", "putProtocol", "transport",
                      "putTransport", "send"}

At(r, label) == process = "up" /\ pc[r] = label
Goto(r, label) == pc' = [pc EXCEPT ![r] = label]

(* The variables of one turn of the loop.                                  *)
ForgetTurn(r) ==
  /\ protocol' = [protocol EXCEPT ![r] = None]
  /\ handler' = [handler EXCEPT ![r] = None]

NewDefinition(spec) ==
  [id |-> created + 1, priority |-> spec.priority, requires |-> spec.requires]
Passthrough == [priority |-> 0, requires |-> NoRequirement]

(* regexp.MatchString: the empty expression matches every URL.             *)
UrlMatches(r, regex) == regex = EmptyRegex \/ regex \in MatchesOf[r]

IsRequestValid(r, requires) ==
  UrlMatches(r, requires.regex) \/ TypeOf[r] \in requires.types

(* Mutant: every requirement must be met instead of one.                   *)
CandidateDialers_AllRequired(r) ==
  {d \in ToSet(definitions) :
     /\ \/ d.requires = NoRequirement
        \/ UrlMatches(r, d.requires.regex) /\ TypeOf[r] \in d.requires.types
     /\ d.id \notin attempted[r]}

CandidateDialers(r) ==
  {d \in ToSet(definitions) :
     /\ d.requires = NoRequirement \/ IsRequestValid(r, d.requires)
     /\ d.id \notin attempted[r]}

(* NextDialer's search starts from maxPriority := 0.                       *)
MaxPriority(r) ==
  LET priorities == {0} \cup {d.priority : d \in CandidateDialers(r)}
  IN CHOOSE p \in priorities : \A q \in priorities : q <= p

(* Mutant: any candidate will do.                                          *)
MaxPriorityDialers_Any(r) == CandidateDialers(r)

MaxPriorityDialers(r) == {d \in CandidateDialers(r) : d.priority = MaxPriority(r)}

-----------------------------------------------------------------------------
Init ==
  /\ process = "up"
  /\ created = 1
  /\ definitions = <<[id |-> 1, priority |-> 0, requires |-> NoRequirement]>>
  /\ todo = None
  /\ pc = [r \in Requests |-> "idle"]
  /\ dialer = [r \in Requests |-> None]
  /\ remaining = [r \in Requests |-> 0]
  /\ attempted = [r \in Requests |-> {}]
  /\ protocol = [r \in Requests |-> None]
  /\ handler = [r \in Requests |-> None]
  /\ began = [r \in Requests |-> << >>]
  /\ protocolMap = [h \in Hosts |-> None]
  /\ handlerMap = << >>

(* RoundTrip: a fresh context, with as many tries as there are definitions *)
(* at this moment.                                                         *)
RoundTrip(r) ==
  /\ process = "up" /\ pc[r] \in Ended
  /\ remaining' = [remaining EXCEPT ![r] =
                     IF TotalTries = 0 THEN Len(definitions) ELSE TotalTries]
  /\ attempted' = [attempted EXCEPT ![r] = {}]
  /\ began' = [began EXCEPT ![r] = definitions]
  /\ Goto(r, "next")
  /\ UNCHANGED <<process, loadVars, dialer, protocol, handler, mapVars>>

NextDialer(r) ==
  /\ At(r, "next") /\ remaining[r] > 0
  /\ \E d \in MaxPriorityDialers(r) :
       /\ dialer' = [dialer EXCEPT ![r] = d]
       /\ attempted' = [attempted EXCEPT ![r] = @ \cup {d.id}]
  /\ remaining' = [remaining EXCEPT ![r] = @ - 1]
  /\ Goto(r, "protocol")
  /\ UNCHANGED <<process, loadVars, protocol, handler, began, mapVars>>

(* Mutant: the missing dialer is taken for one more failure.               *)
ExhaustedDialers_Continue(r) ==
  /\ At(r, "next") /\ (remaining[r] <= 0 \/ MaxPriorityDialers(r) = {})
  /\ Goto(r, "next")
  /\ UNCHANGED <<process, loadVars, tryVars, protocol, handler, mapVars>>

ExhaustedDialers(r) ==
  /\ At(r, "next") /\ (remaining[r] <= 0 \/ MaxPriorityDialers(r) = {})
  /\ dialer' = [dialer EXCEPT ![r] = None]
  /\ Goto(r, "failed")
  /\ UNCHANGED <<process, loadVars, remaining, attempted, began, protocol,
                 handler, mapVars>>

-----------------------------------------------------------------------------
(* solveProtocol: the map first, then a connection of the dialer's.        *)
KnownProtocol(r) ==
  /\ At(r, "protocol") /\ protocolMap[HostOf[r]] # None
  /\ protocol' = [protocol EXCEPT ![r] = protocolMap[HostOf[r]]]
  /\ Goto(r, "transport")
  /\ UNCHANGED <<process, loadVars, tryVars, handler, mapVars>>

UnknownProtocol(r) ==
  /\ At(r, "protocol") /\ protocolMap[HostOf[r]] = None
  /\ Goto(r, "dial")
  /\ UNCHANGED <<process, loadVars, tryVars, protocol, handler, mapVars>>

SolveProtocolNew(r) ==
  /\ At(r, "dial")
  /\ \E p \in Protocols : protocol' = [protocol EXCEPT ![r] = p]
  /\ Goto(r, "putProtocol")
  /\ UNCHANGED <<process, loadVars, tryVars, handler, mapVars>>

DialFails(r) ==
  /\ At(r, "dial")
  /\ Goto(r, "next") /\ ForgetTurn(r)
  /\ UNCHANGED <<process, loadVars, tryVars, mapVars>>

PutProtocol(r) ==
  /\ At(r, "putProtocol")
  /\ protocolMap' = [protocolMap EXCEPT ![HostOf[r]] = protocol[r]]
  /\ Goto(r, "transport")
  /\ UNCHANGED <<process, loadVars, tryVars, protocol, handler, handlerMap>>

(* solveTransport: the map first, then a new one around the dialer's Dial. *)
TransportKey(r) == <<dialer[r].id, protocol[r]>>

KnownTransport(r) ==
  /\ At(r, "transport") /\ TransportKey(r) \in DOMAIN handlerMap
  /\ handler' = [handler EXCEPT ![r] = handlerMap[TransportKey(r)]]
  /\ Goto(r, "send")
  /\ UNCHANGED <<process, loadVars, tryVars, protocol, mapVars>>

SolveTransportNew(r) ==
  /\ At(r, "transport") /\ TransportKey(r) \notin DOMAIN handlerMap
  /\ handler' = [handler EXCEPT ![r] = TransportKey(r)]
  /\ Goto(r, "putTransport")
  /\ UNCHANGED <<process, loadVars, tryVars, protocol, mapVars>>

Put(map, key, value) ==
  [k \in DOMAIN map \cup {key} |-> IF k = key THEN value ELSE map[k]]

(* Mutant: one transport per protocol, whatever the dialer.                *)
PutTransport_ByProtocol(r) ==
  /\ At(r, "putTransport")
  /\ handlerMap' = [k \in DOMAIN handlerMap \cup ((1..created) \X {protocol[r]}) |->
                      IF k[2] = protocol[r] THEN handler[r] ELSE handlerMap[k]]
  /\ Goto(r, "send")
  /\ UNCHANGED <<process, loadVars, tryVars, protocol, handler, protocolMap>>

PutTransport(r) ==
  /\ At(r, "putTransport")
  /\ handlerMap' = Put(handlerMap, TransportKey(r), handler[r])
  /\ Goto(r, "send")
  /\ UNCHANGED <<process, loadVars, tryVars, protocol, handler, protocolMap>>

(* The origin answers with 2xx or 3xx; on any other answer, and on an      *)
(* error, the next dialer is tried.                                        *)
ValidResponse(r) ==
  /\ At(r, "send")
  /\ dialer' = [dialer EXCEPT ![r] = None]
  /\ Goto(r, "answered") /\ ForgetTurn(r)
  /\ UNCHANGED <<process, loadVars, remaining, attempted, began, mapVars>>

InvalidResponse(r) ==
  /\ At(r, "send")
  /\ Goto(r, "next") /\ ForgetTurn(r)
  /\ UNCHANGED <<process, loadVars, tryVars, mapVars>>

-----------------------------------------------------------------------------
(* /api/dialer/load: the definitions are dropped and then appended one by  *)
(* one; a bad expression ends the call with those appended so far.         *)
(* Clients load one list at a time.                                        *)
DialerLoad ==
  /\ process = "up" /\ todo = None
  /\ \E load \in Loads :
       /\ created + Len(load) < MaxId
       /\ todo' = IF load = << >> THEN <<Passthrough>> ELSE load
  /\ definitions' = << >>
  /\ UNCHANGED <<process, created, pc, tryVars, protocol, handler, mapVars>>

(* Mutant: the new definition takes the identifier of the last one.        *)
AppendDefinition_SameId ==
  /\ process = "up" /\ todo # None /\ Head(todo).requires.regex # BadRegex
  /\ definitions' = Append(definitions, [NewDefinition(Head(todo)) EXCEPT !.id = created])
  /\ created' = created
  /\ todo' = IF Len(todo) = 1 THEN None ELSE Tail(todo)
  /\ UNCHANGED <<process, pc, tryVars, protocol, handler, mapVars>>

AppendDefinition ==
  /\ process = "up" /\ todo # None /\ Head(todo).requires.regex # BadRegex
  /\ definitions' = Append(definitions, NewDefinition(Head(todo)))
  /\ created' = created + 1
  /\ todo' = IF Len(todo) = 1 THEN None ELSE Tail(todo)
  /\ UNCHANGED <<process, pc, tryVars, protocol, handler, mapVars>>

RejectRegex ==
  /\ process = "up" /\ todo # None /\ Head(todo).requires.regex = BadRegex
  /\ todo' = None
  /\ UNCHANGED <<process, definitions, created, pc, tryVars, protocol,
                 handler, mapVars>>

(* NextDialer reads the slice while it is being written: its length can be *)
(* the new one and its elements the old ones, which panics, and in a       *)
(* goroutine that serves an intercepted connection ends the process.       *)
DefinitionsRace(r) ==
  /\ At(r, "next") /\ remaining[r] > 0 /\ todo # None
  /\ process' = "crashed"
  /\ UNCHANGED <<loadVars, pc, tryVars, protocol, handler, mapVars>>

Launch ==
  /\ process = "crashed"
  /\ process' = "up" /\ created' = 1 /\ todo' = None
  /\ definitions' = <<[id |-> 1, priority |-> 0, requires |-> NoRequirement]>>
  /\ pc' = [r \in Requests |-> "idle"]
  /\ dialer' = [r \in Requests |-> None]
  /\ remaining' = [r \in Requests |-> 0]
  /\ attempted' = [r \in Requests |-> {}]
  /\ protocol' = [r \in Requests |-> None]
  /\ handler' = [r \in Requests |-> None]
  /\ began' = [r \in Requests |-> << >>]
  /\ protocolMap' = [h \in Hosts |-> None]
  /\ handlerMap' = << >>

-----------------------------------------------------------------------------
Continue(r) ==
  \/ NextDialer(r) \/ ExhaustedDialers(r)
  \/ KnownProtocol(r) \/ UnknownProtocol(r) \/ SolveProtocolNew(r) \/ DialFails(r)
  \/ PutProtocol(r) \/ KnownTransport(r) \/ SolveTransportNew(r) \/ PutTransport(r)
  \/ ValidResponse(r) \/ InvalidResponse(r)

Load == DialerLoad \/ AppendDefinition \/ RejectRegex

Next ==
  \/ \E r \in Requests : RoundTrip(r) \/ Continue(r) \/ DefinitionsRace(r)
  \/ Load \/ Launch

Spec == Init /\ [][Next]_vars

(* A round trip under way goes on; dialing and the origin come to an end.  *)
FairSpec == Spec /\ \A r \in Requests : WF_vars(Continue(r))

-----------------------------------------------------------------------------
TypeOK ==
  /\ process \in {"up", "crashed"}
  /\ created \in Nat \ {0}
  /\ definitions \in Seq([id : 1..created, priority : Int, requires : Requirement])
  /\ todo = None \/ todo \in Seq(LoadEntry) \ {<< >>}
  /\ IsInjective([i \in DOMAIN definitions |-> definitions[i].id])
  /\ pc \in [Requests -> Labels]
  /\ remaining \in [Requests -> Nat]
  /\ attempted \in [Requests -> SUBSET (1..created)]
  /\ protocol \in [Requests -> Protocols \cup {None}]
  /\ protocolMap \in [Hosts -> Protocols \cup {None}]

(* No load has disturbed a request since its context was made (identifiers *)
(* are never used again).                                                  *)
Undisturbed(r) == began[r] = definitions
ValidFor(r, d) == d.requires = NoRequirement \/ IsRequestValid(r, d.requires)

(* "If zero, will try all available dialers" (dialers.go): a request fails *)
(* only when every definition it may use has been tried.                   *)
FailsOnlyExhausted ==
  \A r \in Requests : pc[r] = "failed" /\ Undisturbed(r) =>
    \A i \in DOMAIN definitions :
      ValidFor(r, definitions[i]) => definitions[i].id \in attempted[r]

(* "The highest priority dialer is the one that will be used first"        *)
(* (dialers.go): when a request goes out, every definition of a higher     *)
(* priority that it may use has already failed it.                         *)
HighestPriorityFirst ==
  \A r \in Requests : pc[r] = "send" /\ Undisturbed(r) =>
    /\ ValidFor(r, dialer[r])
    /\ \A i \in DOMAIN definitions :
         ValidFor(r, definitions[i]) /\ definitions[i].priority > dialer[r].priority
           => definitions[i].id \in attempted[r]

(* The transport a request is sent through dials with the dialer that was  *)
(* chosen for it, in the protocol that was solved for it, whatever the     *)
(* other requests have put into the maps.                                  *)
TransportOfDialer ==
  \A r \in Requests : pc[r] = "send" => handler[r] = TransportKey(r)

(* Every round trip ends, answered or out of dialers, whatever is loaded   *)
(* meanwhile.                                                              *)
RoundTripsEnd ==
  \A r \in Requests : process = "up" /\ pc[r] \notin Ended
    ~> process # "up" \/ pc[r] \in Ended
=============================================================================
