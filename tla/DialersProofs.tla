---------------------------- MODULE DialersProofs ----------------------------
(***************************************************************************)
(* Theorems about Dialers, for any number of requests, hosts, definitions  *)
(* and loads: which dialer a request goes out with, when it may fail, and  *)
(* that the shared map of transports never sends it through another dialer *)
(* than the one chosen for it.                                             *)
(***************************************************************************)
EXTENDS Dialers, FunctionTheorems, SharedLemmas

Shape ==
  /\ pc = [r \in Requests |-> pc[r]]
  /\ dialer = [r \in Requests |-> dialer[r]]
  /\ protocol = [r \in Requests |-> protocol[r]]
  /\ handler = [r \in Requests |-> handler[r]]

(* Every transport in the map is the one its key names.                    *)
MapAgrees == \A k \in DOMAIN handlerMap : handlerMap[k] = k

(* A request has the transport of its dialer and protocol from the moment  *)
(* it is found or made, and keeps its dialer and protocol until it is sent. *)
TransportSolved ==
  \A r \in Requests :
    pc[r] \in {"putTransport", "send"} => handler[r] = TransportKey(r)

Inv == Shape /\ MapAgrees /\ TransportSolved

LEMMA InitInv == Init => Inv
BY DEF Init, Inv, Shape, MapAgrees, TransportSolved

(* The steps of a request up to the transport, and those that end a turn.  *)
LEMMA RequestStep ==
  ASSUME Inv, NEW r \in Requests, RoundTrip(r) \/ Continue(r)
  PROVE  Inv'
<1>i. Shape /\ MapAgrees /\ TransportSolved
  BY DEF Inv
<1>1. CASE RoundTrip(r)
  BY <1>i, <1>1 DEF RoundTrip, Goto, Inv, Shape, MapAgrees, TransportSolved,
     TransportKey, mapVars, loadVars, tryVars
<1>2. CASE NextDialer(r)
  <2>1. PICK d \in MaxPriorityDialers(r) : dialer' = [dialer EXCEPT ![r] = d]
    BY <1>2 DEF NextDialer
  <2> QED BY <1>i, <1>2, <2>1 DEF NextDialer, Goto, At, Inv, Shape, MapAgrees,
             TransportSolved, TransportKey, mapVars, loadVars
<1>3. CASE ExhaustedDialers(r)
  BY <1>i, <1>3 DEF ExhaustedDialers, Goto, At, Inv, Shape, MapAgrees,
     TransportSolved, TransportKey, mapVars, loadVars
<1>4. CASE KnownProtocol(r) \/ UnknownProtocol(r)
  BY <1>i, <1>4 DEF KnownProtocol, UnknownProtocol, Goto, At, Inv, Shape,
     MapAgrees, TransportSolved, TransportKey, mapVars, loadVars, tryVars
<1>5. CASE SolveProtocolNew(r)
  BY <1>i, <1>5 DEF SolveProtocolNew, Goto, At, Inv, Shape, MapAgrees,
     TransportSolved, TransportKey, mapVars, loadVars, tryVars
<1>6. CASE DialFails(r) \/ PutProtocol(r)
  BY <1>i, <1>6 DEF DialFails, PutProtocol, ForgetTurn, Goto, At, Inv, Shape,
     MapAgrees, TransportSolved, TransportKey, mapVars, loadVars, tryVars
<1>7. CASE KnownTransport(r)
  BY <1>i, <1>7 DEF KnownTransport, Goto, At, Inv, Shape, MapAgrees,
     TransportSolved, TransportKey, mapVars, loadVars, tryVars
<1>8. CASE SolveTransportNew(r)
  BY <1>i, <1>8 DEF SolveTransportNew, Goto, At, Inv, Shape, MapAgrees,
     TransportSolved, TransportKey, mapVars, loadVars, tryVars
<1>9. CASE PutTransport(r)
  <2>1. MapAgrees'
    BY <1>i, <1>9 DEF PutTransport, At, Put, MapAgrees, TransportSolved
  <2>2. Shape' /\ TransportSolved'
    BY <1>i, <1>9 DEF PutTransport, Goto, At, Shape, TransportSolved,
       TransportKey, tryVars
  <2> QED BY <2>1, <2>2 DEF Inv
<1>10. CASE ValidResponse(r) \/ InvalidResponse(r)
  BY <1>i, <1>10 DEF ValidResponse, InvalidResponse, ForgetTurn, Goto, At, Inv,
     Shape, MapAgrees, TransportSolved, TransportKey, mapVars, loadVars, tryVars
<1> QED BY <1>1, <1>2, <1>3, <1>4, <1>5, <1>6, <1>7, <1>8, <1>9, <1>10 DEF Continue

LEMMA InvStep == Inv /\ [Next]_vars => Inv'
<1> SUFFICES ASSUME Inv, [Next]_vars PROVE Inv'
  OBVIOUS
<1>1. CASE UNCHANGED vars
  BY <1>1 DEF vars, tryVars, mapVars, Inv, Shape, MapAgrees, TransportSolved,
     TransportKey
<1>2. ASSUME NEW r \in Requests, RoundTrip(r) \/ Continue(r) PROVE Inv'
  BY <1>2, RequestStep
<1>3. CASE Load \/ \E r \in Requests : DefinitionsRace(r)
  <2>1. UNCHANGED <<pc, dialer, protocol, handler, handlerMap>>
    BY <1>3 DEF Load, DialerLoad, AppendDefinition, RejectRegex, DefinitionsRace,
       tryVars, mapVars
  <2> QED BY <2>1 DEF Inv, Shape, MapAgrees, TransportSolved, TransportKey
<1>4. CASE Launch
  BY <1>4 DEF Launch, Inv, Shape, MapAgrees, TransportSolved
<1> QED BY <1>1, <1>2, <1>3, <1>4 DEF Next

(* A request is sent through the transport of the dialer and the protocol  *)
(* that were solved for it, whatever other requests and loads do meanwhile. *)
THEOREM RightTransport == Spec => []TransportOfDialer
<1>1. Inv => TransportOfDialer
  BY DEF Inv, TransportSolved, TransportOfDialer
<1> QED BY InitInv, InvStep, <1>1, PTL DEF Spec

-----------------------------------------------------------------------------
(* Types.                                                                  *)
Definition == [id : 1..created, priority : Int, requires : Requirement]

LEMMA RequirementType == NoRequirement \in Requirement
BY DEF Requirement

LEMMA DefinitionType ==
  ASSUME TypeOK
  PROVE  /\ definitions \in Seq(Definition)
         /\ Len(definitions) \in Nat /\ DOMAIN definitions = 1..Len(definitions)
         /\ \A i \in DOMAIN definitions :
              definitions[i] \in Definition /\ definitions[i].id \in 1..created
         /\ ToSet(definitions) \subseteq Definition
<1>1. definitions \in Seq(Definition)
  BY DEF TypeOK, Definition
<1>2. /\ Len(definitions) \in Nat /\ DOMAIN definitions = 1..Len(definitions)
      /\ \A i \in DOMAIN definitions : definitions[i] \in Definition
  BY <1>1, ElementOfSeq, LenProperties
<1>3. \A d \in Definition : d.id \in 1..created
  BY DEF Definition
<1> QED BY <1>1, <1>2, <1>3 DEF ToSet

LEMMA InitType == Init => TypeOK
<1> SUFFICES ASSUME Init PROVE TypeOK
  OBVIOUS
<1>1. definitions \in Seq(Definition)
  BY RequirementType DEF Init, Definition
<1>2. QED
  BY <1>1 DEF Init, TypeOK, Labels, Ended, Hosts, IsInjective, Definition

LEMMA MoreCreated ==
  ASSUME TypeOK, created' \in Nat, created <= created'
  PROVE  /\ definitions \in Seq(Definition')
         /\ attempted \in [Requests -> SUBSET (1..created')]
<1>1. 1..created \subseteq 1..created' /\ attempted \in [Requests -> SUBSET (1..created)]
  BY DEF TypeOK
<1>2. Definition \subseteq Definition'
  BY <1>1 DEF Definition
<1>3. definitions \in Seq(Definition')
  BY <1>2, DefinitionType, SeqMonotonic
<1> QED BY <1>1, <1>3

LEMMA RequestType ==
  ASSUME TypeOK, NEW r \in Requests,
         RoundTrip(r) \/ Continue(r) \/ DefinitionsRace(r)
  PROVE  TypeOK'
<1>u. CASE UNCHANGED <<definitions, created, todo>>
  <2>0. /\ definitions' \in Seq([id : 1..created', priority : Int, requires : Requirement])
        /\ todo' = None \/ todo' \in Seq(LoadEntry) \ {<< >>}
        /\ IsInjective([i \in DOMAIN definitions' |-> definitions'[i].id])
        /\ created' \in Nat \ {0}
    BY <1>u DEF TypeOK
  <2>1. CASE RoundTrip(r)
    <3>1. Len(definitions) \in Nat
      BY DEF TypeOK
    <3> QED BY <1>u, <2>0, <2>1, <3>1, DialerAssumption
            DEF RoundTrip, TypeOK, Goto, Labels, mapVars
  <2>2. CASE NextDialer(r)
    <3>1. PICK d \in MaxPriorityDialers(r) : attempted' = [attempted EXCEPT ![r] = @ \cup {d.id}]
      BY <2>2 DEF NextDialer
    <3>2. d.id \in 1..created
      BY <3>1, DefinitionType DEF MaxPriorityDialers, CandidateDialers, Definition
    <3> QED BY <1>u, <2>0, <2>2, <3>1, <3>2
            DEF NextDialer, TypeOK, Goto, At, Labels, mapVars
  <2>3. CASE ExhaustedDialers(r) \/ KnownProtocol(r) \/ UnknownProtocol(r) \/ SolveProtocolNew(r)
    BY <1>u, <2>0, <2>3 DEF ExhaustedDialers, KnownProtocol, UnknownProtocol,
       SolveProtocolNew, TypeOK, Goto, At, Labels, Ended, Hosts, mapVars, tryVars
  <2>4. CASE DialFails(r) \/ PutProtocol(r) \/ KnownTransport(r) \/ SolveTransportNew(r)
    BY <1>u, <2>0, <2>4 DEF DialFails, PutProtocol, KnownTransport, SolveTransportNew,
       ForgetTurn, TypeOK, Goto, At, Labels, Ended, Hosts, mapVars, tryVars
  <2>5. CASE PutTransport(r) \/ ValidResponse(r) \/ InvalidResponse(r) \/ DefinitionsRace(r)
    BY <1>u, <2>0, <2>5 DEF PutTransport, ValidResponse, InvalidResponse, DefinitionsRace,
       ForgetTurn, TypeOK, Goto, At, Labels, Ended, mapVars, tryVars
  <2> QED BY <2>1, <2>2, <2>3, <2>4, <2>5 DEF Continue
<1>1. UNCHANGED loadVars
  BY DEF RoundTrip, Continue, DefinitionsRace, NextDialer, ExhaustedDialers,
     KnownProtocol, UnknownProtocol, SolveProtocolNew, DialFails, PutProtocol,
     KnownTransport, SolveTransportNew, PutTransport, ValidResponse, InvalidResponse
<1> QED BY <1>u, <1>1 DEF loadVars

(* What a new definition is appended to, and with which identifier.        *)
LEMMA AppendType ==
  ASSUME TypeOK, AppendDefinition
  PROVE  /\ created' = created + 1
         /\ definitions' = Append(definitions, NewDefinition(Head(todo)))
         /\ NewDefinition(Head(todo)) \in Definition'
         /\ NewDefinition(Head(todo)).id = created + 1
         /\ NewDefinition(Head(todo)).priority = Head(todo).priority
         /\ todo \in Seq(LoadEntry) /\ todo # << >>
<1>1. todo \in Seq(LoadEntry) /\ todo # << >>
  BY DEF AppendDefinition, TypeOK
<1>2. Head(todo) \in LoadEntry
  BY <1>1
<1>3. QED
  BY <1>1, <1>2 DEF AppendDefinition, NewDefinition, Definition, LoadEntry, TypeOK

LEMMA LoadType == ASSUME TypeOK, Load PROVE TypeOK'
<1>u. UNCHANGED <<process, pc, remaining, attempted, protocol, protocolMap>>
  BY DEF Load, DialerLoad, AppendDefinition, RejectRegex, tryVars, mapVars
<1>1. CASE DialerLoad
  <2>1. created' = created /\ definitions' = << >>
    BY <1>1 DEF DialerLoad
  <2>2. todo' \in Seq(LoadEntry) \ {<< >>}
    <3>1. <<Passthrough>> \in Seq(LoadEntry)
      BY RequirementType DEF Passthrough, LoadEntry
    <3>2. PICK load \in Loads : todo' = IF load = << >> THEN <<Passthrough>> ELSE load
      BY <1>1 DEF DialerLoad
    <3>3. load \in Seq(LoadEntry)
      BY DialerAssumption
    <3> QED BY <3>1, <3>2, <3>3
  <2> QED BY <1>u, <2>1, <2>2 DEF TypeOK, IsInjective
<1>2. CASE AppendDefinition
  <2> DEFINE d == NewDefinition(Head(todo))
  <2>1. /\ created' = created + 1 /\ definitions' = Append(definitions, d)
        /\ d \in Definition' /\ d.id = created + 1
        /\ todo \in Seq(LoadEntry) /\ todo # << >>
    BY <1>2, AppendType
  <2> HIDE DEF d
  <2>2. created' \in Nat \ {0} /\ created <= created'
    BY <2>1 DEF TypeOK
  <2>3. definitions \in Seq(Definition') /\ attempted' \in [Requests -> SUBSET (1..created')]
    BY <1>u, <2>2, MoreCreated
  <2>4. definitions' \in Seq(Definition')
    BY <2>1, <2>3
  <2>5. IsInjective([i \in DOMAIN definitions' |-> definitions'[i].id])
    <3>1. /\ DOMAIN definitions = 1..Len(definitions)
          /\ DOMAIN definitions' = 1..(Len(definitions) + 1)
          /\ Len(definitions) \in Nat
          /\ definitions'[Len(definitions) + 1].id = created + 1
          /\ \A i \in DOMAIN definitions : definitions'[i] = definitions[i]
      BY <2>1, <2>3
    <3>2. \A i \in DOMAIN definitions : definitions[i].id # created + 1
      <4>1. \A x \in 1..created : x # created + 1
        BY DEF TypeOK
      <4> QED BY <4>1, DefinitionType
    <3>3. \A i, j \in DOMAIN definitions :
            definitions[i].id = definitions[j].id => i = j
      BY DEF TypeOK, IsInjective
    <3>4. ASSUME NEW i \in DOMAIN definitions', NEW j \in DOMAIN definitions',
                 definitions'[i].id = definitions'[j].id
          PROVE  i = j
      BY <3>1, <3>2, <3>3, <3>4
    <3> QED BY <3>4 DEF IsInjective
  <2>6. todo' = None \/ todo' \in Seq(LoadEntry) \ {<< >>}
    <3>1. todo' = IF Len(todo) = 1 THEN None ELSE Tail(todo)
      BY <1>2 DEF AppendDefinition
    <3>2. ASSUME Len(todo) # 1
          PROVE  Tail(todo) \in Seq(LoadEntry) /\ Tail(todo) # << >>
      <4>1. Tail(todo) \in Seq(LoadEntry) /\ Len(Tail(todo)) = Len(todo) - 1
        BY <2>1, HeadTailProperties
      <4>2. Len(todo) \in Nat /\ Len(todo) # 0
        BY <2>1, EmptySeq, LenProperties
      <4>3. Len(Tail(todo)) # 0
        BY <3>2, <4>1, <4>2
      <4> QED BY <4>1, <4>3, EmptySeq
    <3> QED BY <3>1, <3>2
  <2> QED BY <1>u, <2>2, <2>3, <2>4, <2>5, <2>6 DEF TypeOK, Definition
<1>3. CASE RejectRegex
  BY <1>u, <1>3 DEF RejectRegex, TypeOK
<1> QED BY <1>1, <1>2, <1>3 DEF Load

LEMMA LaunchType == Launch => TypeOK'
<1> SUFFICES ASSUME Launch PROVE TypeOK'
  OBVIOUS
<1>1. definitions' \in Seq(Definition')
  BY RequirementType DEF Launch, Definition
<1>2. QED
  BY <1>1 DEF Launch, TypeOK, Labels, Ended, Hosts, IsInjective, Definition

LEMMA TypeStep == TypeOK /\ [Next]_vars => TypeOK'
<1> SUFFICES ASSUME TypeOK, [Next]_vars PROVE TypeOK'
  OBVIOUS
<1>1. CASE UNCHANGED vars
  BY <1>1 DEF vars, loadVars, tryVars, mapVars, TypeOK
<1> QED BY <1>1, RequestType, LoadType, LaunchType DEF Next

(* The definitions are a list of well-formed definitions with identifiers  *)
(* that were given out once each, whatever is loaded and restarted.        *)
THEOREM TypeCorrect == Spec => []TypeOK
BY InitType, TypeStep, PTL DEF Spec

-----------------------------------------------------------------------------
(* Which dialer is chosen.                                                 *)

(* NextDialer's search finds the highest priority there is.                *)
LEMMA MaxPriorityIsHighest ==
  ASSUME TypeOK, NEW r \in Requests
  PROVE  /\ MaxPriority(r) \in {0} \cup {d.priority : d \in CandidateDialers(r)}
         /\ \A d \in CandidateDialers(r) : d.priority \in Int /\ d.priority <= MaxPriority(r)
<1> DEFINE priorities == {0} \cup {d.priority : d \in CandidateDialers(r)}
           n == Len(definitions)
           f == [i \in 1..n |-> definitions[i].priority]
<1>1. n \in Nat /\ DOMAIN definitions = 1..n /\ f \in [1..n -> Int]
  <2>1. \A d \in Definition : d.priority \in Int
    BY DEF Definition
  <2> QED BY <2>1, DefinitionType
<1>2. PICK b \in Nat : \A i \in 1..n : f[i] <= b
  <2> HIDE DEF n, f
  <2> QED BY <1>1, SequenceBounded
<1>3. \A d \in CandidateDialers(r) : d.priority \in Int /\ d.priority <= b
  <2>1. ASSUME NEW d \in CandidateDialers(r) PROVE \E i \in 1..n : d = definitions[i]
    BY <1>1 DEF CandidateDialers, ToSet
  <2>2. \A i \in 1..n : f[i] = definitions[i].priority /\ f[i] \in Int
    BY <1>1
  <2> QED BY <1>2, <2>1, <2>2
<1>4. priorities \in SUBSET Int /\ priorities # {} /\ \A x \in priorities : x <= b
  BY <1>2, <1>3
<1>5. PICK m \in priorities : \A x \in priorities : x <= m
  <2> HIDE DEF priorities
  <2>1. b \in Int
    BY <1>2
  <2> QED BY <1>4, <2>1, GreatestInteger
<1>6. /\ MaxPriority(r) \in priorities
      /\ \A x \in priorities : x <= MaxPriority(r)
  BY <1>5 DEF MaxPriority
<1> QED BY <1>3, <1>6

Trying == {"protocol", "dial", "putProtocol", "transport", "putTransport", "send"}

(* The identifiers a request has seen were given out before now, so that   *)
(* what is appended after its context was made is none of its definitions. *)
ContextIsOld == began \in [Requests -> Seq(Definition)]

(* The dialer a request tries is one it may use, and as long as no load    *)
(* disturbs it, whatever comes before that dialer has been tried.          *)
Outranked(r, d) ==
  ValidFor(r, d) /\ d.priority > dialer[r].priority => d.id \in attempted[r]

WellChosen ==
  \A r \in Requests : pc[r] \in Trying =>
    /\ ValidFor(r, dialer[r])
    /\ Undisturbed(r) => \A i \in DOMAIN definitions : Outranked(r, definitions[i])

ChoiceInv == TypeOK /\ Shape /\ ContextIsOld /\ WellChosen

(* A load leaves only those requests undisturbed that started without any  *)
(* definition, or it only gives up.                                        *)
LEMMA LoadDisturbs ==
  ASSUME TypeOK, ContextIsOld, Load, NEW r \in Requests, Undisturbed(r)'
  PROVE  definitions' = << >> \/ (definitions' = definitions /\ Undisturbed(r))
<1>1. UNCHANGED began
  BY DEF Load, DialerLoad, AppendDefinition, RejectRegex, tryVars
<1>2. CASE DialerLoad
  BY <1>2 DEF DialerLoad
<1>3. CASE AppendDefinition
  <2> DEFINE d == NewDefinition(Head(todo))
             n == Len(definitions) + 1
  <2>1. d.id = created + 1 /\ d \in Definition' /\ definitions' = Append(definitions, d)
    BY <1>3, AppendType
  <2>2. definitions \in Seq(Definition) /\ Len(definitions) \in Nat
    BY DefinitionType
  <2>3. n \in DOMAIN definitions' /\ definitions'[n] = d
    <3> HIDE DEF d
    <3> QED BY <2>1, <2>2
  <2>4. began[r] \in Seq(Definition) /\ n \in DOMAIN began[r] /\ began[r][n].id = created + 1
    BY <1>1, <2>1, <2>3 DEF Undisturbed, ContextIsOld
  <2>5. began[r][n] \in Definition
    BY <2>4, ElementOfSeq, LenProperties
  <2>6. created + 1 \in 1..created
    BY <2>4, <2>5 DEF Definition
  <2> QED BY <2>6 DEF TypeOK
<1>4. CASE RejectRegex
  BY <1>1, <1>4 DEF RejectRegex, Undisturbed
<1> QED BY <1>2, <1>3, <1>4 DEF Load

LEMMA ContextStep ==
  ASSUME TypeOK, ContextIsOld, [Next]_vars
  PROVE  ContextIsOld'
<1>1. ASSUME UNCHANGED <<began, created>> PROVE ContextIsOld'
  BY <1>1 DEF ContextIsOld, Definition
<1>2. ASSUME NEW r \in Requests, RoundTrip(r) PROVE ContextIsOld'
  <2>1. Definition' = Definition
    BY <1>2 DEF RoundTrip, loadVars, Definition
  <2>2. began' = [began EXCEPT ![r] = definitions]
    BY <1>2 DEF RoundTrip
  <2> QED BY <2>1, <2>2, DefinitionType DEF ContextIsOld
<1>3. ASSUME NEW r \in Requests, Continue(r) \/ DefinitionsRace(r) PROVE ContextIsOld'
  <2>1. UNCHANGED <<began, created>>
    BY <1>3 DEF Continue, DefinitionsRace, NextDialer, ExhaustedDialers,
       KnownProtocol, UnknownProtocol, SolveProtocolNew, DialFails, PutProtocol,
       KnownTransport, SolveTransportNew, PutTransport, ValidResponse,
       InvalidResponse, loadVars, tryVars
  <2> QED BY <1>1, <2>1
<1>4. CASE DialerLoad \/ RejectRegex
  BY <1>1, <1>4 DEF DialerLoad, RejectRegex, tryVars
<1>5. CASE AppendDefinition
  <2>1. created' = created + 1 /\ began' = began
    BY <1>5 DEF AppendDefinition, tryVars
  <2>2. 1..created \subseteq 1..created'
    BY <2>1 DEF TypeOK
  <2>3. Definition \subseteq Definition'
    BY <2>2 DEF Definition
  <2>4. Seq(Definition) \subseteq Seq(Definition')
    BY <2>3, SeqMonotonic
  <2> QED BY <2>1, <2>4 DEF ContextIsOld
<1>6. CASE Launch
  BY <1>6 DEF Launch, ContextIsOld
<1>7. CASE UNCHANGED vars
  BY <1>1, <1>7 DEF vars, loadVars, tryVars
<1> QED BY <1>2, <1>3, <1>4, <1>5, <1>6, <1>7 DEF Next, Load

(* A request's steps leave the others and the definitions alone.           *)
LEMMA RequestFrame ==
  ASSUME TypeOK, Shape, ContextIsOld, NEW r \in Requests,
         RoundTrip(r) \/ Continue(r) \/ DefinitionsRace(r)
  PROVE  /\ UNCHANGED definitions
         /\ \A x \in Requests \ {r} :
              /\ pc'[x] = pc[x] /\ dialer'[x] = dialer[x]
              /\ attempted'[x] = attempted[x] /\ remaining'[x] = remaining[x]
              /\ began'[x] = began[x]
<1> USE DEF Goto, loadVars, tryVars, Shape, TypeOK, ContextIsOld
<1>1. CASE RoundTrip(r)
  BY <1>1 DEF RoundTrip
<1>2. CASE NextDialer(r)
  BY <1>2 DEF NextDialer
<1>3. CASE ExhaustedDialers(r) \/ ValidResponse(r)
  BY <1>3 DEF ExhaustedDialers, ValidResponse
<1>4. CASE \/ KnownProtocol(r) \/ UnknownProtocol(r) \/ SolveProtocolNew(r)
           \/ DialFails(r) \/ PutProtocol(r) \/ KnownTransport(r)
  BY <1>4 DEF KnownProtocol, UnknownProtocol, SolveProtocolNew, DialFails,
     PutProtocol, KnownTransport
<1>5. CASE \/ SolveTransportNew(r) \/ PutTransport(r) \/ InvalidResponse(r)
           \/ DefinitionsRace(r)
  BY <1>5 DEF SolveTransportNew, PutTransport, InvalidResponse, DefinitionsRace
<1> QED BY <1>1, <1>2, <1>3, <1>4, <1>5 DEF Continue

(* Where a step of its own leaves a request.                               *)
LEMMA RequestOutcome ==
  ASSUME TypeOK, Shape, ContextIsOld, NEW r \in Requests,
         RoundTrip(r) \/ Continue(r) \/ DefinitionsRace(r)
  PROVE  \/ pc'[r] = "next" /\ RoundTrip(r)
         \/ NextDialer(r)
         \/ ExhaustedDialers(r)
         \/ /\ pc[r] \in Trying /\ pc'[r] \in Trying \cup {"next", "answered"}
            /\ pc'[r] \in Trying => dialer'[r] = dialer[r]
            /\ UNCHANGED <<attempted, remaining, began>>
         \/ UNCHANGED <<pc, dialer, attempted, remaining, began>>
<1> USE DEF Goto, At, loadVars, tryVars, Shape, TypeOK, ContextIsOld, Trying
<1>1. CASE RoundTrip(r)
  BY <1>1 DEF RoundTrip
<1>2. CASE ValidResponse(r)
  BY <1>2 DEF ValidResponse
<1>3. CASE \/ KnownProtocol(r) \/ UnknownProtocol(r) \/ SolveProtocolNew(r)
           \/ DialFails(r) \/ PutProtocol(r) \/ KnownTransport(r)
  BY <1>3 DEF KnownProtocol, UnknownProtocol, SolveProtocolNew, DialFails,
     PutProtocol, KnownTransport
<1>4. CASE \/ SolveTransportNew(r) \/ PutTransport(r) \/ InvalidResponse(r)
           \/ DefinitionsRace(r)
  BY <1>4 DEF SolveTransportNew, PutTransport, InvalidResponse, DefinitionsRace
<1> QED BY <1>1, <1>2, <1>3, <1>4 DEF Continue

LEMMA NextDialerChooses ==
  ASSUME TypeOK, Shape, ContextIsOld, NEW r \in Requests, NextDialer(r)
  PROVE  /\ ValidFor(r, dialer'[r])
         /\ dialer'[r] \in ToSet(definitions)
         /\ dialer'[r].id \notin attempted[r]
         /\ attempted'[r] = attempted[r] \cup {dialer'[r].id}
         /\ remaining[r] > 0 /\ remaining'[r] = remaining[r] - 1
         /\ pc'[r] = "protocol" /\ began'[r] = began[r]
         /\ \A i \in DOMAIN definitions : Outranked(r, definitions[i])'
<1>1. PICK d \in MaxPriorityDialers(r) :
        /\ dialer' = [dialer EXCEPT ![r] = d]
        /\ attempted' = [attempted EXCEPT ![r] = @ \cup {d.id}]
  BY DEF NextDialer
<1>2. d \in CandidateDialers(r) /\ d.priority = MaxPriority(r)
  BY DEF MaxPriorityDialers
<1>3. /\ dialer'[r] = d /\ attempted'[r] = attempted[r] \cup {d.id}
      /\ remaining[r] > 0 /\ remaining'[r] = remaining[r] - 1
      /\ pc'[r] = "protocol" /\ began'[r] = began[r]
      /\ definitions' = definitions
  BY <1>1 DEF NextDialer, Goto, Shape, TypeOK, loadVars
<1>4. ASSUME NEW i \in DOMAIN definitions, ValidFor(r, definitions[i]),
             definitions[i].priority > d.priority
      PROVE  definitions[i].id \in attempted[r]
  <2>1. definitions[i] \in ToSet(definitions)
    BY DEF ToSet
  <2>2. definitions[i].id \notin attempted[r] => definitions[i] \in CandidateDialers(r)
    BY <1>4, <2>1 DEF CandidateDialers, ValidFor
  <2>3. \A c \in CandidateDialers(r) : c.priority \in Int /\ c.priority <= MaxPriority(r)
    BY MaxPriorityIsHighest
  <2>4. MaxPriority(r) \in Int
    BY <1>2, <2>3
  <2> QED BY <1>2, <1>4, <2>2, <2>3, <2>4
<1>5. ValidFor(r, d) /\ d \in ToSet(definitions) /\ d.id \notin attempted[r]
  BY <1>2 DEF CandidateDialers, ValidFor
<1>6. \A i \in DOMAIN definitions : Outranked(r, definitions[i])'
  BY <1>3, <1>4 DEF Outranked, ValidFor, IsRequestValid, UrlMatches
<1> QED BY <1>3, <1>5, <1>6

LEMMA WellChosenStep ==
  ASSUME ChoiceInv, [Next]_vars
  PROVE  WellChosen'
<1> USE DEF ChoiceInv
<1>1. ASSUME NEW r \in Requests, RoundTrip(r) \/ Continue(r) \/ DefinitionsRace(r)
      PROVE  WellChosen'
  <2>1. UNCHANGED definitions
    BY <1>1, RequestFrame
  <2>2. ASSUME NEW x \in Requests \ {r}, pc'[x] \in Trying
        PROVE  /\ ValidFor(x, dialer'[x])
               /\ Undisturbed(x)' => \A i \in DOMAIN definitions : Outranked(x, definitions[i])'
    <3>1. /\ pc'[x] = pc[x] /\ dialer'[x] = dialer[x]
          /\ attempted'[x] = attempted[x] /\ began'[x] = began[x]
      BY <1>1, RequestFrame
    <3> QED BY <2>1, <2>2, <3>1 DEF WellChosen, Undisturbed, Outranked
  <2>3. ASSUME pc'[r] \in Trying
        PROVE  /\ ValidFor(r, dialer'[r])
               /\ Undisturbed(r)' => \A i \in DOMAIN definitions : Outranked(r, definitions[i])'
    <3>1. CASE NextDialer(r)
      BY <3>1, NextDialerChooses
    <3>2. CASE /\ pc[r] \in Trying /\ dialer'[r] = dialer[r]
               /\ UNCHANGED <<attempted, began>>
      BY <2>1, <3>2 DEF WellChosen, Undisturbed, Outranked
    <3>3. CASE UNCHANGED <<pc, dialer, attempted, began>>
      BY <2>1, <2>3, <3>3 DEF WellChosen, Undisturbed, Outranked
    <3>4. ~ExhaustedDialers(r) /\ pc'[r] # "next"
      BY <2>3 DEF ExhaustedDialers, Goto, Trying, TypeOK
    <3> QED BY <1>1, <2>3, <3>1, <3>2, <3>3, <3>4, RequestOutcome
  <2> QED BY <2>1, <2>2, <2>3 DEF WellChosen, ValidFor, IsRequestValid, UrlMatches
<1>2. CASE Load
  <2>1. UNCHANGED <<pc, dialer, attempted, began>>
    BY <1>2 DEF Load, DialerLoad, AppendDefinition, RejectRegex, tryVars
  <2>2. ASSUME NEW r \in Requests, Undisturbed(r)', NEW i \in DOMAIN definitions',
               pc[r] \in Trying
        PROVE  Outranked(r, definitions[i])'
    <3>1. CASE definitions' = << >>
      BY <2>2, <3>1
    <3>2. CASE definitions' = definitions /\ Undisturbed(r)
      BY <2>1, <2>2, <3>2 DEF WellChosen, Outranked
    <3> QED BY <1>2, <2>2, <3>1, <3>2, LoadDisturbs
  <2> QED BY <2>1, <2>2 DEF WellChosen, ValidFor, IsRequestValid, UrlMatches
<1>3. CASE Launch
  BY <1>3 DEF Launch, WellChosen, Trying
<1>4. CASE UNCHANGED vars
  BY <1>4 DEF vars, loadVars, tryVars, WellChosen, Undisturbed, Outranked,
     ValidFor, IsRequestValid, UrlMatches
<1> QED BY <1>1, <1>2, <1>3, <1>4 DEF Next

LEMMA InvShape == Inv => Shape
BY DEF Inv

(* "The highest priority dialer is the one that will be used first": a     *)
(* request that no load has disturbed goes out with a dialer it may use,   *)
(* and every one it may use of a higher priority has already failed it.    *)
THEOREM HighestFirst == Spec => []HighestPriorityFirst
<1>1. Init => ContextIsOld /\ WellChosen
  BY DEF Init, ContextIsOld, WellChosen, Trying
<1>2. ChoiceInv /\ Shape' /\ TypeOK' /\ [Next]_vars => ChoiceInv'
  BY WellChosenStep, ContextStep DEF ChoiceInv
<1>3. ChoiceInv => HighestPriorityFirst
  BY DEF ChoiceInv, WellChosen, Outranked, HighestPriorityFirst, Trying
<1> QED BY <1>1, <1>2, <1>3, InitInv, InvStep, InvShape, TypeCorrect, InitType, PTL
        DEF Spec, ChoiceInv

-----------------------------------------------------------------------------
(* When a request may fail.                                                *)
Ids == {definitions[i].id : i \in DOMAIN definitions}

LEMMA CountIds ==
  ASSUME TypeOK
  PROVE  IsFiniteSet(Ids) /\ Cardinality(Ids) = Len(definitions)
<1> DEFINE n == Len(definitions)
           f == [i \in DOMAIN definitions |-> definitions[i].id]
<1>1. n \in Nat /\ DOMAIN definitions = 1..n
  BY DefinitionType
<1>2. f \in Bijection(1..n, Ids)
  <2>1. f \in [1..n -> Ids] /\ \A x \in Ids : \E i \in 1..n : f[i] = x
    BY <1>1 DEF Ids
  <2>2. \A i, j \in 1..n : f[i] = f[j] => i = j
    BY <1>1 DEF TypeOK, IsInjective
  <2> HIDE DEF f, n
  <2> QED BY <2>1, <2>2, Fun_IsBij
<1>3. IsFiniteSet(1..n) /\ Cardinality(1..n) = n
  <2> HIDE DEF n
  <2>1. 1 \in Int /\ n \in Int
    BY <1>1
  <2> QED BY <1>1, <2>1, FS_Interval
<1>4. ExistsBijection(1..n, Ids)
  <2> HIDE DEF f, n
  <2> QED BY <1>2 DEF ExistsBijection
<1> HIDE DEF n
<1>5. IsFiniteSet(Ids) /\ Cardinality(Ids) = n
  BY <1>3, <1>4, FS_Bijection
<1> QED BY <1>5 DEF n

(* No client loads a definition of negative priority.                      *)
NonNegative(list) == \A i \in DOMAIN list : list[i].priority >= 0
NoneNegative == NonNegative(definitions) /\ (todo # None => NonNegative(todo))

(* An undisturbed request has one try left for every definition it has not *)
(* tried yet.                                                              *)
Counted(r) ==
  /\ attempted[r] \subseteq Ids
  /\ Cardinality(attempted[r]) + remaining[r] = Len(definitions)
TriesLeft ==
  \A r \in Requests :
    pc[r] # "idle" /\ Undisturbed(r) /\ definitions # << >> => Counted(r)

FailInv ==
  TypeOK /\ Shape /\ ContextIsOld /\ NoneNegative /\ TriesLeft /\ FailsOnlyExhausted

LEMMA NoneNegativeStep ==
  ASSUME \A load \in Loads : NonNegative(load), TypeOK, NoneNegative, [Next]_vars
  PROVE  NoneNegative'
<1>1. ASSUME UNCHANGED <<definitions, todo>> PROVE NoneNegative'
  BY <1>1 DEF NoneNegative, NonNegative
<1>2. CASE UNCHANGED vars
  BY <1>1, <1>2 DEF vars, loadVars
<1>3. ASSUME NEW r \in Requests, RoundTrip(r) \/ Continue(r) \/ DefinitionsRace(r)
      PROVE  NoneNegative'
  <2>1. UNCHANGED <<definitions, todo>>
    BY <1>3 DEF RoundTrip, Continue, DefinitionsRace, NextDialer, ExhaustedDialers,
       KnownProtocol, UnknownProtocol, SolveProtocolNew, DialFails, PutProtocol,
       KnownTransport, SolveTransportNew, PutTransport, ValidResponse,
       InvalidResponse, loadVars
  <2> QED BY <1>1, <2>1
<1>4. CASE DialerLoad
  <2>1. NonNegative(<<Passthrough>>)
    BY DEF NonNegative, Passthrough
  <2>2. definitions' = << >> /\ (todo' = <<Passthrough>> \/ todo' \in Loads)
    BY <1>4 DEF DialerLoad
  <2>3. NonNegative(definitions') /\ NonNegative(todo')
    BY <2>1, <2>2 DEF NonNegative
  <2> QED BY <2>3 DEF NoneNegative
<1>5. CASE AppendDefinition
  <2> DEFINE d == NewDefinition(Head(todo))
  <2>1. /\ definitions' = Append(definitions, d) /\ d.priority = Head(todo).priority
        /\ todo \in Seq(LoadEntry) /\ todo # << >>
        /\ todo' = IF Len(todo) = 1 THEN None ELSE Tail(todo)
    BY <1>5, AppendType DEF AppendDefinition
  <2>2. NonNegative(todo)
    BY <1>5 DEF AppendDefinition, NoneNegative
  <2>3. d.priority >= 0
    <3>1. 1 \in DOMAIN todo /\ Head(todo) = todo[1]
      BY <2>1
    <3> QED BY <2>1, <2>2, <3>1 DEF NonNegative
  <2>4. NonNegative(definitions')
    <3> HIDE DEF d
    <3>1. \A i \in DOMAIN definitions' : definitions'[i] = d \/
            (i \in DOMAIN definitions /\ definitions'[i] = definitions[i])
      BY <2>1, DefinitionType
    <3> QED BY <2>3, <3>1 DEF NoneNegative, NonNegative
  <2>5. Len(todo) # 1 => NonNegative(Tail(todo))
    <3>1. /\ \A i \in DOMAIN Tail(todo) : i + 1 \in DOMAIN todo
          /\ \A i \in DOMAIN Tail(todo) : Tail(todo)[i] = todo[i + 1]
      BY <2>1
    <3> QED BY <2>2, <3>1 DEF NonNegative
  <2>6. todo' # None => NonNegative(todo')
    BY <2>1, <2>5
  <2> QED BY <2>4, <2>6 DEF NoneNegative
<1>6. CASE RejectRegex \/ Launch
  <2>1. todo' = None
    BY <1>6 DEF RejectRegex, Launch
  <2>2. NonNegative(definitions')
    BY <1>6 DEF RejectRegex, Launch, NoneNegative, NonNegative
  <2> QED BY <2>1, <2>2 DEF NoneNegative
<1> QED BY <1>2, <1>3, <1>4, <1>5, <1>6 DEF Next, Load

(* When the search finds none, none that the request may use is left.      *)
LEMMA NoneLeft ==
  ASSUME TypeOK, NoneNegative, NEW r \in Requests, MaxPriorityDialers(r) = {}
  PROVE  \A i \in DOMAIN definitions :
           ValidFor(r, definitions[i]) => definitions[i].id \in attempted[r]
<1>1. ASSUME NEW d \in CandidateDialers(r) PROVE d.priority \in Int /\ d.priority >= 0
  BY <1>1, MaxPriorityIsHighest DEF CandidateDialers, ToSet, NoneNegative, NonNegative
<1>2. \A d \in CandidateDialers(r) : d.priority # MaxPriority(r)
  BY DEF MaxPriorityDialers
<1>3. MaxPriority(r) = 0
  BY <1>2, MaxPriorityIsHighest
<1>4. CandidateDialers(r) = {}
  BY <1>1, <1>2, <1>3, MaxPriorityIsHighest
<1> QED BY <1>4 DEF CandidateDialers, ToSet, ValidFor

LEMMA NoTriesLeft ==
  ASSUME TypeOK, NEW r \in Requests, Counted(r), remaining[r] <= 0
  PROVE  attempted[r] = Ids
<1>1. remaining[r] = 0 /\ Len(definitions) \in Nat
  BY DefinitionType DEF TypeOK
<1>2. IsFiniteSet(Ids) /\ Cardinality(Ids) = Len(definitions)
  BY CountIds
<1>3. IsFiniteSet(attempted[r]) /\ Cardinality(attempted[r]) \in Nat
  BY <1>2, FS_Subset, FS_CardinalityType DEF Counted
<1>4. Cardinality(attempted[r]) = Cardinality(Ids)
  BY <1>1, <1>2, <1>3 DEF Counted
<1> QED BY <1>2, <1>4, FS_Subset DEF Counted

LEMMA CountedStep ==
  ASSUME TotalTries = 0, FailInv, NEW r \in Requests,
         RoundTrip(r) \/ Continue(r) \/ DefinitionsRace(r),
         pc'[r] # "idle", Undisturbed(r)', definitions # << >>
  PROVE  Counted(r)'
<1> USE DEF FailInv
<1>u. UNCHANGED <<definitions, Ids>>
  BY RequestFrame DEF Ids
<1>1. CASE RoundTrip(r)
  <2>1. attempted'[r] = {} /\ remaining'[r] = Len(definitions)
    BY <1>1 DEF RoundTrip, TypeOK
  <2>2. Cardinality({}) = 0 /\ Len(definitions) \in Nat
    BY FS_EmptySet, DefinitionType
  <2> QED BY <1>u, <2>1, <2>2 DEF Counted
<1>2. CASE NextDialer(r)
  <2>1. /\ dialer'[r] \in ToSet(definitions) /\ dialer'[r].id \notin attempted[r]
        /\ attempted'[r] = attempted[r] \cup {dialer'[r].id}
        /\ remaining'[r] = remaining[r] - 1 /\ began'[r] = began[r]
    BY <1>2, NextDialerChooses
  <2>2. Counted(r)
    <3>1. pc[r] = "next" /\ Undisturbed(r)
      BY <1>2, <1>u, <2>1 DEF NextDialer, At, Undisturbed
    <3> QED BY <3>1 DEF TriesLeft
  <2>3. dialer'[r].id \in Ids
    BY <2>1 DEF ToSet, Ids
  <2>4. IsFiniteSet(attempted[r]) /\ Cardinality(attempted[r]) \in Nat
    BY <2>2, CountIds, FS_Subset, FS_CardinalityType DEF Counted
  <2>5. Cardinality(attempted'[r]) = Cardinality(attempted[r]) + 1
    BY <2>1, <2>4, FS_AddElement
  <2>6. remaining[r] \in Nat /\ Len(definitions) \in Nat
    BY DefinitionType DEF TypeOK
  <2> QED BY <1>u, <2>1, <2>2, <2>3, <2>4, <2>5, <2>6 DEF Counted
<1>3. CASE ExhaustedDialers(r)
  <2>1. UNCHANGED <<remaining, attempted, began>> /\ pc[r] = "next"
    BY <1>3 DEF ExhaustedDialers, At
  <2> QED BY <1>u, <2>1 DEF TriesLeft, Counted, Undisturbed
<1>4. CASE pc[r] \in Trying /\ UNCHANGED <<attempted, remaining, began>>
  BY <1>u, <1>4 DEF TriesLeft, Counted, Undisturbed, Trying
<1>5. CASE UNCHANGED <<pc, dialer, attempted, remaining, began>>
  BY <1>u, <1>5 DEF TriesLeft, Counted, Undisturbed
<1> QED BY <1>1, <1>2, <1>3, <1>4, <1>5, RequestOutcome

LEMMA FailsStep ==
  ASSUME FailInv, NEW r \in Requests,
         RoundTrip(r) \/ Continue(r) \/ DefinitionsRace(r),
         pc'[r] = "failed", Undisturbed(r)', NEW i \in DOMAIN definitions,
         ValidFor(r, definitions[i])
  PROVE  definitions[i].id \in attempted'[r]
<1> USE DEF FailInv
<1>u. UNCHANGED <<definitions, Ids>>
  BY RequestFrame DEF Ids
<1>1. CASE ExhaustedDialers(r)
  <2>1. /\ UNCHANGED <<attempted, began>> /\ pc[r] = "next"
        /\ remaining[r] <= 0 \/ MaxPriorityDialers(r) = {}
    BY <1>1 DEF ExhaustedDialers, At
  <2>2. CASE MaxPriorityDialers(r) = {}
    BY <2>1, <2>2, NoneLeft
  <2>3. CASE remaining[r] <= 0
    <3>1. Counted(r)
      BY <1>u, <2>1 DEF TriesLeft, Undisturbed
    <3>2. definitions[i].id \in Ids
      BY DEF Ids
    <3> QED BY <2>1, <2>3, <3>1, <3>2, NoTriesLeft
  <2> QED BY <2>1, <2>2, <2>3
<1>2. CASE UNCHANGED <<pc, attempted, began>>
  BY <1>u, <1>2 DEF FailsOnlyExhausted, Undisturbed
<1>3. ~NextDialer(r) /\ pc'[r] # "next" /\ pc'[r] \notin Trying \cup {"next", "answered"}
  BY NextDialerChooses DEF Trying
<1> QED BY <1>1, <1>2, <1>3, RequestOutcome

LEMMA FailStep ==
  ASSUME TotalTries = 0, FailInv, [Next]_vars
  PROVE  TriesLeft' /\ FailsOnlyExhausted'
<1> USE DEF FailInv
<1>1. ASSUME NEW r \in Requests, RoundTrip(r) \/ Continue(r) \/ DefinitionsRace(r)
      PROVE  TriesLeft' /\ FailsOnlyExhausted'
  <2>1. UNCHANGED <<definitions, Ids>>
    BY <1>1, RequestFrame DEF Ids
  <2>2. ASSUME NEW x \in Requests, x # r
        PROVE  /\ pc'[x] = pc[x] /\ Undisturbed(x)' = Undisturbed(x)
               /\ attempted'[x] = attempted[x] /\ remaining'[x] = remaining[x]
    BY <1>1, <2>1, <2>2, RequestFrame DEF Undisturbed
  <2>3. ASSUME NEW x \in Requests, pc'[x] # "idle", Undisturbed(x)', definitions # << >>
        PROVE  Counted(x)'
    <3>1. CASE x = r
      BY <1>1, <2>3, <3>1, CountedStep
    <3>2. CASE x # r
      BY <2>1, <2>2, <2>3, <3>2 DEF TriesLeft, Counted
    <3> QED BY <3>1, <3>2
  <2>4. ASSUME NEW x \in Requests, pc'[x] = "failed", Undisturbed(x)',
               NEW i \in DOMAIN definitions, ValidFor(x, definitions[i])
        PROVE  definitions[i].id \in attempted'[x]
    <3>1. CASE x = r
      BY <1>1, <2>4, <3>1, FailsStep
    <3>2. CASE x # r
      BY <2>2, <2>4, <3>2 DEF FailsOnlyExhausted
    <3> QED BY <3>1, <3>2
  <2>5. TriesLeft'
    BY <2>1, <2>3 DEF TriesLeft
  <2>6. FailsOnlyExhausted'
    BY <2>1, <2>4 DEF FailsOnlyExhausted, ValidFor, IsRequestValid, UrlMatches
  <2> QED BY <2>5, <2>6
<1>2. CASE Load
  <2>1. UNCHANGED <<pc, remaining, attempted, began>>
    BY <1>2 DEF Load, DialerLoad, AppendDefinition, RejectRegex, tryVars
  <2>2. ASSUME NEW r \in Requests, Undisturbed(r)'
        PROVE  \/ definitions' = << >>
               \/ UNCHANGED <<definitions, Ids>> /\ Undisturbed(r)
    BY <1>2, <2>2, LoadDisturbs DEF Ids
  <2>3. TriesLeft'
    BY <2>1, <2>2 DEF TriesLeft, Counted
  <2>4. FailsOnlyExhausted'
    BY <2>1, <2>2 DEF FailsOnlyExhausted, ValidFor, IsRequestValid, UrlMatches
  <2> QED BY <2>3, <2>4
<1>3. CASE Launch
  BY <1>3 DEF Launch, TriesLeft, FailsOnlyExhausted
<1>4. CASE UNCHANGED vars
  BY <1>4 DEF vars, loadVars, tryVars, TriesLeft, FailsOnlyExhausted, Undisturbed,
     Counted, Ids, ValidFor, IsRequestValid, UrlMatches
<1> QED BY <1>1, <1>2, <1>3, <1>4 DEF Next

(* "If zero, will try all available dialers": with the TotalTries every    *)
(* session has (NewDialerSession) and no negative priorities, a request    *)
(* that no load has disturbed fails only when it has tried every dialer it *)
(* may use.                                                                *)
THEOREM TriesAllDialers ==
  ASSUME TotalTries = 0, \A load \in Loads : NonNegative(load)
  PROVE  Spec => []FailsOnlyExhausted
<1>1. Init => ContextIsOld /\ NoneNegative /\ TriesLeft /\ FailsOnlyExhausted
  BY DEF Init, ContextIsOld, NoneNegative, NonNegative, TriesLeft, FailsOnlyExhausted
<1>2. FailInv /\ Shape' /\ TypeOK' /\ [Next]_vars => FailInv'
  BY FailStep, ContextStep, NoneNegativeStep DEF FailInv
<1>3. FailInv => FailsOnlyExhausted
  BY DEF FailInv
<1>4. Init => Shape
  BY InitInv, InvShape
<1> QED BY <1>1, <1>2, <1>3, <1>4, InitInv, InvStep, InvShape, TypeCorrect, InitType, PTL
        DEF Spec, FailInv
=============================================================================
