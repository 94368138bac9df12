------------------------------ MODULE Recorder ------------------------------
(***************************************************************************)
(* The tape recorder (groove/proxy/recorder.go) and the control API's tape *)
(* calls (controller.go).  Requests run in goroutines of their own, the    *)
(* control API in another; none of them takes a lock, so that every slice  *)
(* is read in one step and written in a later one.                         *)
(***************************************************************************)
EXTENDS Naturals, SequencesExt

CONSTANTS
  Requests,   \* goroutines that serve requests
  Urls, Tapes,
  Blank,      \* the tape of a request without a Tape-ID header
  Ids,        \* pointers to records; bound: the records in use at one time
  Asked,      \* what the clients ask
  Loadable,   \* the tapes clients may load, as sequences of what was asked
  None

Asks == [url : Urls, tape : Tapes]   \* what a request asks, and a record answers

ASSUME RecorderAssumption ==
  /\ Blank \in Tapes /\ Asked \subseteq Asks /\ Loadable \subseteq Seq(Asks)
  /\ None \notin Ids \cup Asks \cup {"answer", "blocked"}

VARIABLES
  mode,       \* Recorder.mode
  records,    \* Recorder.records
  consumed,   \* Recorder.consumedRecords, of which only membership is asked
  heap,       \* what the record at each pointer answers
  control,    \* what the control API's call has still to do
  filtering, filteringMarks,   \* what tape/clear has read of the two
  pc, ask, reply,
  left,       \* the matching records FindMatchingResponse has yet to look at
  found,      \* the record it has found, or the one LogPair appends
  slice, marks,   \* the records, or the consumed ones, as r has read them
  matched, played, settled, stored, lost   \* history: see below

deck == <<mode, records, consumed, heap>>
calls == <<control, filtering, filteringMarks>>
turn == <<left, found, slice, marks>>
history == <<matched, played, settled, stored, lost>>
vars == <<deck, calls, pc, ask, reply, turn, history>>

-----------------------------------------------------------------------------
Modes == {"off", "read", "write"}
Labels == {"idle", "out", "match", "search", "found", "mark", "respond",
           "archive", "append"}
Replies == {None, "answer", "blocked"}
Jobs == {"clear", "decode", "truncate", "readRecords", "filterRecords",
         "readConsumed", "filterConsumed"}
Work == [do : Jobs, tape : Tapes, ask : Asks \cup {None}, at : Nat]

(* filterSlice: the elements to keep, in their order.  (A recursive        *)
(* function instead of SelectSeq, of which the provers know nothing.)      *)
FilterSlice(seq, keep) ==
  LET filtered[n \in 0..Len(seq)] ==
        IF n = 0 THEN << >>
        ELSE IF seq[n] \in keep THEN Append(filtered[n - 1], seq[n])
        ELSE filtered[n - 1]
  IN filtered[Len(seq)]

Goto(r, label) == pc' = [pc EXCEPT ![r] = label]
Finish(r) ==
  /\ Goto(r, "idle")
  /\ ask' = [ask EXCEPT ![r] = None]
  /\ reply' = [reply EXCEPT ![r] = None]
  /\ matched' = [matched EXCEPT ![r] = {}]

(* What the control API's call has under way.                              *)
Doing(do) == control # << >> /\ Head(control).do = do

(* An allocation: a pointer that nothing holds.                            *)
InUse ==
  consumed \cup filteringMarks \cup ToSet(records) \cup ToSet(filtering)
    \cup UNION {ToSet(left[r]) \cup ToSet(slice[r]) \cup marks[r] \cup {found[r]} :
                 r \in Requests}
FreshIds == Ids \ InUse

Init ==
  /\ mode = "off"
  /\ records = << >> /\ consumed = {}
  /\ heap = [i \in Ids |-> None]
  /\ control = << >> /\ filtering = << >> /\ filteringMarks = {}
  /\ pc = [r \in Requests |-> "idle"]
  /\ ask = [r \in Requests |-> None]
  /\ reply = [r \in Requests |-> None]
  /\ left = [r \in Requests |-> << >>]
  /\ found = [r \in Requests |-> None]
  /\ slice = [r \in Requests |-> << >>]
  /\ marks = [r \in Requests |-> {}]
  /\ matched = [r \in Requests |-> {}]
  /\ played = {} /\ settled = {} /\ stored = {} /\ lost = FALSE

-----------------------------------------------------------------------------
(* The request handler.  A request comes with its URL and its tape.        *)
Arrive(r) ==
  /\ pc[r] = "idle"
  /\ \E a \in Asked : ask' = [ask EXCEPT ![r] = a]
  /\ UNCHANGED <<deck, calls, reply, turn, history>>

PassThrough(r) == mode # "read" /\ Arrive(r) /\ Goto(r, "out")
LookUp(r) == mode = "read" /\ Arrive(r) /\ Goto(r, "match")

(* The records that match, in the slice as it is now.                      *)
Matches(a) == FilterSlice(records, {i \in Ids : heap[i] = a})

FindMatchingResponse(r) ==
  /\ pc[r] = "match"
  /\ left' = [left EXCEPT ![r] = Matches(ask[r])]
  /\ matched' = [matched EXCEPT ![r] =
                   IF control = << >> THEN ToSet(Matches(ask[r])) ELSE {}]
  /\ Goto(r, "search")
  /\ UNCHANGED <<deck, calls, ask, reply, found, slice, marks,
                 played, settled, stored, lost>>

(* Mutant: records are compared by what they hold instead of by pointer.   *)
AlreadySeen_ByRequest(r) ==
  /\ pc[r] = "search" /\ left[r] # << >>
  /\ \E i \in consumed : heap[i] = heap[Head(left[r])]
  /\ left' = [left EXCEPT ![r] = Tail(@)]
  /\ UNCHANGED <<deck, calls, pc, ask, reply, found, slice, marks, history>>

AlreadySeen(r) ==
  /\ pc[r] = "search" /\ left[r] # << >>
  /\ Head(left[r]) \in consumed
  /\ left' = [left EXCEPT ![r] = Tail(@)]
  /\ UNCHANGED <<deck, calls, pc, ask, reply, found, slice, marks, history>>

(* contains(consumedRecords, record) is false.                             *)
Found(r, i) ==
  /\ found' = [found EXCEPT ![r] = i]
  /\ left' = [left EXCEPT ![r] = << >>]
  /\ matched' = [matched EXCEPT ![r] = {}]
  /\ Goto(r, "found")
  /\ UNCHANGED <<deck, calls, ask, reply, slice, marks, played, settled, stored, lost>>

(* Mutant: any unseen record will do.                                      *)
FoundRecord_Any(r) ==
  /\ pc[r] = "search"
  /\ \E i \in ToSet(left[r]) \ consumed : Found(r, i)

FoundRecord(r) ==
  /\ pc[r] = "search" /\ left[r] # << >>
  /\ Head(left[r]) \notin consumed
  /\ Found(r, Head(left[r]))

(* Mutant: the record after the loop is used though none matched.          *)
NoMatch_FallsThrough(r) ==
  /\ pc[r] = "search" /\ left[r] = << >>
  /\ Goto(r, "found")
  /\ UNCHANGED <<deck, calls, ask, reply, turn, history>>

NoMatch(r) ==
  /\ pc[r] = "search" /\ left[r] = << >>
  /\ reply' = [reply EXCEPT ![r] = "blocked"]
  /\ Goto(r, "respond")
  /\ UNCHANGED <<deck, calls, ask, turn, history>>

(* append(consumedRecords, record) reads the slice again, a while later,   *)
(* and what it makes is assigned another while later.                      *)
ReadConsumed(r) ==
  /\ pc[r] = "found"
  /\ marks' = [marks EXCEPT ![r] = consumed]
  /\ Goto(r, "mark")
  /\ UNCHANGED <<deck, calls, ask, reply, left, found, slice, history>>

(* History: no other goroutine has read the marks and not written them     *)
(* yet, or found the record r has found.                                   *)
MarksAlone(r) ==
  /\ \A q \in Requests \ {r} :
       pc[q] # "mark" /\ (pc[q] = "found" => found[q] # found[r])
  /\ ~Doing("filterConsumed")

Mark(r, all) ==
  /\ pc[r] = "mark"
  /\ consumed' = all
  /\ lost' = (lost \/ consumed # marks[r])
  /\ played' = played \cup {found[r]}
  /\ settled' = IF MarksAlone(r) THEN settled \cup {found[r]} ELSE settled
  /\ found' = [found EXCEPT ![r] = None]
  /\ marks' = [marks EXCEPT ![r] = {}]
  /\ reply' = [reply EXCEPT ![r] = "answer"]
  /\ Goto(r, "respond")
  /\ UNCHANGED <<mode, records, heap, calls, ask, left, slice, matched, stored>>

(* Mutant: the record is not marked.                                       *)
MarkConsumed_Unmarked(r) == Mark(r, marks[r])

MarkConsumed(r) == Mark(r, marks[r] \cup {found[r]})

-----------------------------------------------------------------------------
(* What comes back from the cache or the origin; None stands for an error, *)
(* with which the response handlers get no response.                       *)
RoundTrip(r) ==
  /\ pc[r] = "out"
  /\ \E answer \in {"answer", None} : reply' = [reply EXCEPT ![r] = answer]
  /\ Goto(r, "respond")
  /\ UNCHANGED <<deck, calls, ask, turn, history>>

(* The response handler: the mode is looked at again.                      *)
NotRecorded(r) ==
  /\ pc[r] = "respond" /\ (mode # "write" \/ reply[r] = None)
  /\ Finish(r)
  /\ UNCHANGED <<deck, calls, turn, played, settled, stored, lost>>

LogPair(r) ==
  /\ pc[r] = "respond" /\ mode = "write" /\ reply[r] # None
  /\ reply' = [reply EXCEPT ![r] = None]
  /\ matched' = [matched EXCEPT ![r] = {}]
  /\ Goto(r, "archive")
  /\ UNCHANGED <<deck, calls, ask, turn, played, settled, stored, lost>>

(* Reading the bodies takes as long as the origin takes to send them, and  *)
(* may fail: a request's body was closed when it was sent, a response's    *)
(* may break off.                                                          *)
ArchiveFails(r) ==
  /\ pc[r] = "archive"
  /\ Finish(r)
  /\ UNCHANGED <<deck, calls, turn, played, settled, stored, lost>>

ReadRecords(r) ==
  /\ pc[r] = "archive"
  /\ \E i \in FreshIds :
       /\ found' = [found EXCEPT ![r] = i]
       /\ heap' = [heap EXCEPT ![i] = ask[r]]
       /\ played' = played \ {i}
  /\ slice' = [slice EXCEPT ![r] = records]
  /\ Goto(r, "append")
  /\ UNCHANGED <<mode, records, consumed, calls, ask, reply, left, marks,
                 matched, settled, stored, lost>>

(* History: no other goroutine has read the records, or is decoding a tape *)
(* into them, and has not written them yet.                                *)
AppendsAlone(r) ==
  /\ \A q \in Requests \ {r} : pc[q] # "append"
  /\ \A do \in {"filterRecords", "decode", "truncate"} : ~Doing(do)

AppendTo(r, seq) ==
  /\ pc[r] = "append"
  /\ records' = seq
  /\ lost' = (lost \/ records # slice[r])
  /\ stored' = IF AppendsAlone(r) THEN stored \cup {found[r]} ELSE stored
  /\ slice' = [slice EXCEPT ![r] = << >>]
  /\ found' = [found EXCEPT ![r] = None]
  /\ Finish(r)
  /\ UNCHANGED <<mode, consumed, heap, calls, left, marks, played, settled>>

(* Mutant: a record replaces the earlier ones of the same request.         *)
AppendRecord_Replace(r) ==
  AppendTo(r, Append(FilterSlice(slice[r], {i \in Ids : heap[i] # ask[r]}), found[r]))

AppendRecord(r) == AppendTo(r, Append(slice[r], found[r]))

-----------------------------------------------------------------------------
(* The control API: a call sets the mode and leaves the rest of its work   *)
(* in control, one step each.  Clients call it one at a time.              *)
Step(do) == [do |-> do, tape |-> Blank, ask |-> None, at |-> 0]
ClearAll == <<Step("clear")>>
ClearTapeID(tape) ==
  [i \in 1..4 |-> [Step(<<"readRecords", "filterRecords",
                          "readConsumed", "filterConsumed">>[i]) EXCEPT !.tape = tape]]
(* json.Unmarshal decodes the tape's records into the slice one by one,    *)
(* over what it holds by then, and cuts it to their number.                *)
Decode(asks) ==
  [i \in 1..Len(asks) |-> [Step("decode") EXCEPT !.ask = asks[i], !.at = i]]
    \o <<[Step("truncate") EXCEPT !.at = Len(asks)]>>

Call(newMode, work) ==
  /\ control = << >>
  /\ mode' = newMode /\ control' = work
  /\ matched' = [r \in Requests |-> {}]
  /\ UNCHANGED <<records, consumed, heap, filtering, filteringMarks, pc, ask,
                 reply, turn, played, settled, stored, lost>>

TapeRecord == Call("write", ClearAll)
TapeStop == Call("off", << >>)

(* LoadData clears again, what the handler has cleared before it.          *)
TapeLoad == \E asks \in Loadable : Call("read", ClearAll \o ClearAll \o Decode(asks))
(* LoadData's error is not looked at.                                      *)
TapeLoadFails == Call("read", ClearAll)

TapeClear == Call(mode, ClearAll)
TapeClearID == \E tape \in Tapes \ {Blank} : Call(mode, ClearTapeID(tape))

-----------------------------------------------------------------------------
Do(what) ==
  /\ Doing(what)
  /\ control' = Tail(control)
  /\ UNCHANGED <<mode, pc, ask, reply, turn, matched>>

(* Two assignments: whatever comes between them touches one slice only and *)
(* could as well come before or after both.                                *)
Clear ==
  /\ Do("clear")
  /\ records' = << >> /\ consumed' = {}
  /\ played' = {} /\ settled' = {} /\ stored' = {} /\ lost' = FALSE
  /\ UNCHANGED <<heap, filtering, filteringMarks>>

(* Where a late append has cut the slice meanwhile, decoding would go on   *)
(* behind nil pointers, at which the next search panics.                   *)
DecodeRecord ==
  /\ Do("decode") /\ Head(control).at <= Len(records) + 1
  /\ LET at == Head(control).at
         Into(i) == /\ heap' = [heap EXCEPT ![i] = Head(control).ask]
                    /\ played' = played \ {i}
     IN \/ /\ at \in DOMAIN records
           /\ Into(records[at]) /\ records' = records /\ lost' = TRUE
        \/ /\ at \notin DOMAIN records
           /\ \E i \in FreshIds : Into(i) /\ records' = Append(records, i)
           /\ lost' = lost
  /\ UNCHANGED <<consumed, filtering, filteringMarks, settled, stored>>

Truncate ==
  /\ Do("truncate")
  /\ IF Len(records) <= Head(control).at
     THEN UNCHANGED <<records, lost>>
     ELSE records' = SubSeq(records, 1, Head(control).at) /\ lost' = TRUE
  /\ UNCHANGED <<heap, consumed, filtering, filteringMarks, played, settled, stored>>

ReadForFilter ==
  /\ \/ Do("readRecords") /\ filtering' = records /\ UNCHANGED filteringMarks
     \/ Do("readConsumed") /\ filteringMarks' = consumed /\ UNCHANGED filtering
  /\ UNCHANGED <<heap, records, consumed, played, settled, stored, lost>>

OfTape(tape) == {i \in Ids : heap[i] # None /\ heap[i].tape = tape}

FilterRecords ==
  /\ Do("filterRecords")
  /\ LET dropped == OfTape(Head(control).tape)
     IN records' = FilterSlice(filtering, Ids \ dropped) /\ stored' = stored \ dropped
  /\ lost' = (lost \/ records # filtering)
  /\ filtering' = << >>
  /\ UNCHANGED <<heap, consumed, filteringMarks, played, settled>>

FilterConsumed ==
  /\ Do("filterConsumed")
  /\ LET dropped == OfTape(Head(control).tape)
     IN /\ consumed' = filteringMarks \ dropped
        /\ played' = played \ dropped /\ settled' = settled \ dropped
        /\ lost' = (lost \/ consumed # filteringMarks
                         \/ dropped \cap consumed \cap ToSet(records) # {})
  /\ filteringMarks' = {}
  /\ UNCHANGED <<heap, records, filtering, stored>>

(* The process ends, at an interrupt or because a goroutine has met a      *)
(* slice that was being written, and is started again.                     *)
Launch ==
  /\ mode' = "off"
  /\ records' = << >> /\ consumed' = {}
  /\ heap' = [i \in Ids |-> None]
  /\ control' = << >> /\ filtering' = << >> /\ filteringMarks' = {}
  /\ pc' = [r \in Requests |-> "idle"]
  /\ ask' = [r \in Requests |-> None]
  /\ reply' = [r \in Requests |-> None]
  /\ left' = [r \in Requests |-> << >>]
  /\ found' = [r \in Requests |-> None]
  /\ slice' = [r \in Requests |-> << >>]
  /\ marks' = [r \in Requests |-> {}]
  /\ matched' = [r \in Requests |-> {}]
  /\ played' = {} /\ settled' = {} /\ stored' = {} /\ lost' = FALSE

-----------------------------------------------------------------------------
RequestHandler(r) ==
  \/ PassThrough(r) \/ LookUp(r) \/ FindMatchingResponse(r)
  \/ AlreadySeen(r) \/ NoMatch(r) \/ FoundRecord(r)
  \/ ReadConsumed(r) \/ MarkConsumed(r)

ResponseHandler(r) ==
  \/ NotRecorded(r) \/ LogPair(r) \/ ArchiveFails(r) \/ ReadRecords(r)
  \/ AppendRecord(r)

Controller ==
  \/ TapeRecord \/ TapeStop \/ TapeLoad \/ TapeLoadFails \/ TapeClear
  \/ TapeClearID
  \/ Clear \/ DecodeRecord \/ Truncate
  \/ ReadForFilter \/ FilterRecords \/ FilterConsumed

Next ==
  \/ \E r \in Requests : RequestHandler(r) \/ RoundTrip(r) \/ ResponseHandler(r)
  \/ Controller
  \/ Launch

Spec == Init /\ [][Next]_vars

-----------------------------------------------------------------------------
TypeOK ==
  /\ mode \in Modes /\ control \in Seq(Work)
  /\ records \in Seq(Ids) /\ consumed \subseteq Ids
  /\ filtering \in Seq(Ids) /\ filteringMarks \subseteq Ids
  /\ heap \in [Ids -> Asks \cup {None}]
  /\ pc \in [Requests -> Labels]
  /\ ask \in [Requests -> Asks \cup {None}]
  /\ reply \in [Requests -> Replies]
  /\ left \in [Requests -> Seq(Ids)] /\ slice \in [Requests -> Seq(Ids)]
  /\ marks \in [Requests -> SUBSET Ids]
  /\ found \in [Requests -> Ids \cup {None}]
  /\ \A r \in Requests : pc[r] \in {"found", "mark", "append"} => found[r] # None
  /\ matched \in [Requests -> SUBSET Ids] /\ played \subseteq Ids
  /\ settled \subseteq Ids /\ stored \subseteq Ids /\ lost \in BOOLEAN

(* History.  matched: the records that matched a request when it began its *)
(* search, if no tape call has come since.  played: the records replayed,  *)
(* until a clear forgets their mark.  settled: those of them whose mark    *)
(* was written with no other goroutine between finding the record, or      *)
(* reading the marks, and writing its own.  stored: the records appended   *)
(* with no other goroutine between reading the slice and writing it, until *)
(* a clear removes them.  lost: since the last clear, a goroutine has      *)
(* written a slice that another had written after it was read, a tape was  *)
(* decoded over a record that came late, or tape/clear has dropped the     *)
(* mark of one.                                                            *)

(* "Only allow each request to be played back one time" (recorder.go): a   *)
(* record whose mark is settled is never replayed again, whatever requests *)
(* lose their marks to each other later, until a clear drops the mark.     *)
ReplayOnce ==
  [][\A r \in Requests :
       pc[r] = "mark" /\ pc'[r] = "respond" => found[r] \notin settled]_vars

(* "Ensure mocked requests resolve in the same order" (test_tape.py): of   *)
(* the records of one request the earlier ones are replayed first.         *)
ReplayInOrder ==
  ~lost =>
    \A i, j \in DOMAIN records :
      /\ i < j /\ heap[records[i]] = heap[records[j]]
      /\ records[j] \in played
      => records[i] \in played

(* A request is blocked only when every record that matched it has been    *)
(* replayed, to it or to another.                                          *)
BlockedOnlyWhenPlayed ==
  ~lost =>
    \A r \in Requests :
      pc[r] = "respond" /\ reply[r] = "blocked" => matched[r] \subseteq played

(* "A recorder supports multiple concurrent tape writes" (recorder.go): an *)
(* exchange that was stored stays on the tape, whatever others lose to     *)
(* each other later, until a clear removes it.                             *)
SessionRecorded == stored \subseteq ToSet(records)
=============================================================================
