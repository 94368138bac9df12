--------------------------- MODULE RecorderProofs ---------------------------
(***************************************************************************)
(* Theorems about Recorder, for any number of requests, tapes, records and *)
(* tape calls: what is kept of a recording, and how often, in which order  *)
(* and to whom a tape is replayed.                                         *)
(***************************************************************************)
EXTENDS Recorder, SharedLemmas

(* filterSlice: one turn of its loop, and that the loop has a result.      *)
FilterTurn(seq, keep, filtered, n) ==
  IF n = 0 THEN << >>
  ELSE IF seq[n] \in keep THEN Append(filtered[n - 1], seq[n])
  ELSE filtered[n - 1]

LEMMA FilterSliceDefined ==
  ASSUME NEW T, NEW seq \in Seq(T), NEW keep
  PROVE  \E f : f = [n \in 0..Len(seq) |-> FilterTurn(seq, keep, f, n)]
<1>1. PICK G : G = {m \in Nat : \E f : f = [n \in 0..m |-> FilterTurn(seq, keep, f, n)]}
  OBVIOUS
<1>2. 0 \in G
  <2> DEFINE g == [n \in 0..0 |-> << >>]
  <2>1. g = [n \in 0..0 |-> FilterTurn(seq, keep, g, n)]
    BY DEF FilterTurn
  <2> QED BY <1>1, <2>1
<1>3. ASSUME NEW m \in Nat, m \in G PROVE m + 1 \in G
  <2>1. PICK f : f = [n \in 0..m |-> FilterTurn(seq, keep, f, n)]
    BY <1>1, <1>3
  <2> DEFINE g == [n \in 0..(m + 1) |->
                     IF n = m + 1 THEN FilterTurn(seq, keep, f, n) ELSE f[n]]
  <2>2. \A n \in 0..m : g[n] = f[n]
    OBVIOUS
  <2>3. ASSUME NEW n \in 0..(m + 1) PROVE g[n] = FilterTurn(seq, keep, g, n)
    <3>1. n # 0 => n - 1 \in 0..m
      OBVIOUS
    <3>2. FilterTurn(seq, keep, g, n) = FilterTurn(seq, keep, f, n)
      BY <2>2, <3>1 DEF FilterTurn
    <3>3. n \in 0..m => f[n] = FilterTurn(seq, keep, f, n)
      BY <2>1
    <3> QED BY <2>2, <3>2, <3>3
  <2>4. g = [n \in 0..(m + 1) |-> FilterTurn(seq, keep, g, n)]
    BY <2>3
  <2> HIDE DEF g
  <2>5. \E h : h = [n \in 0..(m + 1) |-> FilterTurn(seq, keep, h, n)]
    BY <2>4
  <2>6. m + 1 \in Nat
    OBVIOUS
  <2> QED BY <1>1, <2>5, <2>6, Zenon
<1>4. Len(seq) \in G
  BY <1>2, <1>3, SetInduction
<1> QED BY <1>1, <1>4

LEMMA FilterSliceLoop ==
  ASSUME NEW T, NEW seq \in Seq(T), NEW keep
  PROVE  \E f : /\ f = [n \in 0..Len(seq) |-> FilterTurn(seq, keep, f, n)]
                /\ FilterSlice(seq, keep) = f[Len(seq)]
<1> DEFINE filtered == CHOOSE f : f = [n \in 0..Len(seq) |->
             IF n = 0 THEN << >>
             ELSE IF seq[n] \in keep THEN Append(f[n - 1], seq[n])
             ELSE f[n - 1]]
<1>1. FilterSlice(seq, keep) = filtered[Len(seq)]
  BY DEF FilterSlice
<1>2. filtered = [n \in 0..Len(seq) |-> FilterTurn(seq, keep, filtered, n)]
  <2>1. \E f : f = [n \in 0..Len(seq) |->
             IF n = 0 THEN << >>
             ELSE IF seq[n] \in keep THEN Append(f[n - 1], seq[n])
             ELSE f[n - 1]]
    BY FilterSliceDefined, Zenon DEF FilterTurn
  <2>2. filtered = [n \in 0..Len(seq) |->
             IF n = 0 THEN << >>
             ELSE IF seq[n] \in keep THEN Append(filtered[n - 1], seq[n])
             ELSE filtered[n - 1]]
    BY <2>1, Zenon
  <2> QED BY <2>2, Zenon DEF FilterTurn
<1> HIDE DEF filtered
<1> QED BY <1>1, <1>2, Zenon

(* out is what is to be kept of the first n elements of seq, in their      *)
(* order: from[p] is where the p-th element comes from.                    *)
KeptFrom(out, seq, n, keep, from) ==
  /\ from \in [1..Len(out) -> 1..n]
  /\ \A p \in 1..Len(out) : out[p] = seq[from[p]] /\ out[p] \in keep
  /\ \A p, q \in 1..Len(out) : p < q => from[p] < from[q]
  /\ \A i \in 1..n : seq[i] \in keep => \E p \in 1..Len(out) : from[p] = i

LEMMA FilterTurnKeeps ==
  ASSUME NEW T, NEW seq \in Seq(T), NEW keep, NEW n \in Nat, n + 1 <= Len(seq),
         NEW out \in Seq(T), NEW from, KeptFrom(out, seq, n, keep, from)
  PROVE  LET next == IF seq[n + 1] \in keep THEN Append(out, seq[n + 1]) ELSE out
         IN next \in Seq(T) /\ \E f : KeptFrom(next, seq, n + 1, keep, f)
<1>0. seq[n + 1] \in T /\ Len(out) \in Nat
  BY LenProperties, ElementOfSeq
<1>1. CASE seq[n + 1] \notin keep
  <2>1. from \in [1..Len(out) -> 1..(n + 1)]
    BY DEF KeptFrom
  <2>2. KeptFrom(out, seq, n + 1, keep, from)
    BY <1>1, <2>1 DEF KeptFrom
  <2> QED BY <1>1, <2>2
<1>2. CASE seq[n + 1] \in keep
  <2> DEFINE next == Append(out, seq[n + 1])
             k == Len(out) + 1
             f == [p \in 1..k |-> IF p = k THEN n + 1 ELSE from[p]]
  <2>1. /\ next \in Seq(T) /\ Len(next) = k /\ next[k] = seq[n + 1]
        /\ \A p \in 1..Len(out) : next[p] = out[p]
    BY <1>0, AppendProperties
  <2> HIDE DEF next
  <2>2. \A p \in 1..Len(out) : f[p] = from[p] /\ f[p] \in 1..n /\ p # k /\ p \in 1..k
    <3>1. \A p \in 1..Len(out) : p # k /\ p \in 1..k
      BY <1>0
    <3>2. \A p \in 1..Len(out) : from[p] \in 1..n
      BY DEF KeptFrom
    <3>3. \A p \in 1..k : p # k => f[p] = from[p]
      OBVIOUS
    <3> QED BY <3>1, <3>2, <3>3
  <2>3. f[k] = n + 1 /\ k \in 1..k /\ \A p \in 1..k : p = k \/ p \in 1..Len(out)
    BY <1>0
  <2>4. f \in [1..k -> 1..(n + 1)]
    <3>1. \A p \in 1..k : f[p] \in 1..(n + 1)
      <4>1. n + 1 \in 1..(n + 1) /\ 1..n \subseteq 1..(n + 1)
        OBVIOUS
      <4> HIDE DEF f, k
      <4> QED BY <2>2, <2>3, <4>1
    <3> QED BY <3>1
  <2> HIDE DEF f
  <2>5. ASSUME NEW p \in 1..k PROVE next[p] = seq[f[p]] /\ next[p] \in keep
    BY <1>2, <2>1, <2>2, <2>3 DEF KeptFrom
  <2>6. ASSUME NEW p \in 1..k, NEW q \in 1..k, p < q PROVE f[p] < f[q]
    <3>1. p \in 1..Len(out)
      BY <1>0, <2>6
    <3>2. CASE q = k
      BY <2>2, <2>3, <3>1, <3>2
    <3>3. CASE q \in 1..Len(out)
      BY <2>2, <2>6, <3>1, <3>3 DEF KeptFrom
    <3> QED BY <2>3, <3>2, <3>3
  <2>7. ASSUME NEW i \in 1..(n + 1), seq[i] \in keep PROVE \E p \in 1..k : f[p] = i
    <3>1. CASE i = n + 1
      BY <2>3, <3>1
    <3>2. CASE i \in 1..n
      <4>1. PICK p \in 1..Len(out) : from[p] = i
        BY <2>7, <3>2 DEF KeptFrom
      <4> QED BY <2>2, <4>1
    <3> QED BY <3>1, <3>2
  <2>8. KeptFrom(next, seq, n + 1, keep, f)
    BY <2>1, <2>4, <2>5, <2>6, <2>7 DEF KeptFrom
  <2> QED BY <1>2, <2>1, <2>8 DEF next
<1> QED BY <1>1, <1>2

LEMMA FilterSliceKeeps ==
  ASSUME NEW T, NEW seq \in Seq(T), NEW keep
  PROVE  /\ FilterSlice(seq, keep) \in Seq(T)
         /\ \E from : KeptFrom(FilterSlice(seq, keep), seq, Len(seq), keep, from)
<1>0. Len(seq) \in Nat
  OBVIOUS
<1>1. PICK f : /\ f = [n \in 0..Len(seq) |-> FilterTurn(seq, keep, f, n)]
               /\ FilterSlice(seq, keep) = f[Len(seq)]
  BY FilterSliceLoop
<1>2. PICK G : G = {n \in Nat : n <= Len(seq) =>
                      f[n] \in Seq(T) /\ \E from : KeptFrom(f[n], seq, n, keep, from)}
  OBVIOUS
<1>3. 0 \in G
  <2>1. f[0] = << >>
    BY <1>0, <1>1 DEF FilterTurn
  <2>2. KeptFrom(<< >>, seq, 0, keep, << >>)
    BY DEF KeptFrom
  <2>3. f[0] \in Seq(T) /\ \E from : KeptFrom(f[0], seq, 0, keep, from)
    BY <2>1, <2>2
  <2> QED BY <1>2, <2>3
<1>4. ASSUME NEW n \in Nat, n \in G PROVE n + 1 \in G
  <2> SUFFICES ASSUME n + 1 <= Len(seq)
               PROVE  /\ f[n + 1] \in Seq(T)
                      /\ \E from : KeptFrom(f[n + 1], seq, n + 1, keep, from)
    BY <1>2
  <2>1. f[n] \in Seq(T)
    BY <1>0, <1>2, <1>4
  <2>2. PICK from : KeptFrom(f[n], seq, n, keep, from)
    BY <1>0, <1>2, <1>4
  <2>3. n + 1 \in 0..Len(seq) /\ n + 1 # 0 /\ n + 1 - 1 = n
    BY <1>0
  <2>4. f[n + 1] = IF seq[n + 1] \in keep THEN Append(f[n], seq[n + 1]) ELSE f[n]
    <3>1. f[n + 1] = FilterTurn(seq, keep, f, n + 1)
      BY <1>1, <2>3
    <3> QED BY <2>3, <3>1 DEF FilterTurn
  <2> QED BY <2>1, <2>2, <2>4, FilterTurnKeeps
<1>5. Len(seq) \in G
  BY <1>0, <1>3, <1>4, SetInduction
<1> QED BY <1>0, <1>1, <1>2, <1>5

(* What the steps need to know of it.                                      *)
LEMMA FilterSliceElements ==
  ASSUME NEW T, NEW seq \in Seq(T), NEW keep
  PROVE  /\ FilterSlice(seq, keep) \in Seq(T)
         /\ ToSet(FilterSlice(seq, keep)) = ToSet(seq) \cap keep
<1> DEFINE out == FilterSlice(seq, keep)
<1>1. out \in Seq(T)
  BY FilterSliceKeeps
<1>2. PICK from : KeptFrom(out, seq, Len(seq), keep, from)
  BY FilterSliceKeeps
<1> HIDE DEF out
<1>3. DOMAIN out = 1..Len(out) /\ DOMAIN seq = 1..Len(seq)
  BY <1>1, LenProperties
<1>4. ASSUME NEW x \in ToSet(out) PROVE x \in ToSet(seq) \cap keep
  BY <1>2, <1>3 DEF KeptFrom, ToSet
<1>5. ASSUME NEW x \in ToSet(seq) \cap keep PROVE x \in ToSet(out)
  <2>1. PICK i \in 1..Len(seq) : x = seq[i]
    BY <1>3 DEF ToSet
  <2>2. PICK p \in 1..Len(out) : from[p] = i
    BY <1>2, <2>1 DEF KeptFrom
  <2> QED BY <1>2, <1>3, <2>1, <2>2 DEF KeptFrom, ToSet
<1> QED BY <1>1, <1>4, <1>5 DEF out

-----------------------------------------------------------------------------
(* Types.                                                                  *)
LEMMA InitType == Init => TypeOK
<1> SUFFICES ASSUME Init PROVE TypeOK
  OBVIOUS
<1>1. mode \in Modes /\ control \in Seq(Work) /\ records \in Seq(Ids) /\ filtering \in Seq(Ids)
  BY DEF Init, Modes
<1>2. /\ pc \in [Requests -> Labels] /\ reply \in [Requests -> Replies]
      /\ left \in [Requests -> Seq(Ids)] /\ slice \in [Requests -> Seq(Ids)]
  BY DEF Init, Labels, Replies
<1> QED BY <1>1, <1>2 DEF Init, TypeOK

LEMMA FoundType ==
  ASSUME TypeOK, NEW r \in Requests, NEW i \in Ids, Found(r, i)
  PROVE  TypeOK'
<1>1. i # None
  BY RecorderAssumption
<1> QED BY <1>1 DEF Found, TypeOK, Goto, Labels, deck, calls

LEMMA RequestType ==
  ASSUME TypeOK, NEW r \in Requests, RequestHandler(r)
  PROVE  TypeOK'
<1> USE DEF TypeOK, Goto
<1>1. CASE PassThrough(r) \/ LookUp(r)
  <2>1. PICK a \in Asked : ask' = [ask EXCEPT ![r] = a]
    BY <1>1 DEF PassThrough, LookUp, Arrive
  <2>2. pc' = [pc EXCEPT ![r] = "out"] \/ pc' = [pc EXCEPT ![r] = "match"]
    BY <1>1 DEF PassThrough, LookUp
  <2>3. UNCHANGED <<deck, calls, reply, turn, history>>
    BY <1>1 DEF PassThrough, LookUp, Arrive
  <2> QED BY <2>1, <2>2, <2>3, RecorderAssumption DEF Labels, deck, calls, turn, history
<1>2. CASE FindMatchingResponse(r)
  <2>1. PICK out : out = Matches(ask[r])
    OBVIOUS
  <2>2. out \in Seq(Ids) /\ ToSet(out) \subseteq Ids
    <3>1. FilterSlice(records, {i \in Ids : heap[i] = ask[r]}) \in Seq(Ids)
      BY FilterSliceElements
    <3> QED BY <2>1, <3>1, FilterSliceElements DEF Matches
  <2>3. /\ left' = [left EXCEPT ![r] = out]
        /\ matched' = [matched EXCEPT ![r] = IF control = << >> THEN ToSet(out) ELSE {}]
    BY <1>2, <2>1 DEF FindMatchingResponse
  <2>4. matched' \in [Requests -> SUBSET Ids]
    BY <2>2, <2>3
  <2> QED BY <1>2, <2>2, <2>3, <2>4 DEF FindMatchingResponse, Labels, deck, calls
<1>3. CASE AlreadySeen(r)
  BY <1>3 DEF AlreadySeen, deck, calls, history
<1>4. CASE FoundRecord(r)
  BY <1>4, FoundType DEF FoundRecord
<1>5. CASE NoMatch(r)
  BY <1>5 DEF NoMatch, Labels, Replies, deck, calls, turn, history
<1>6. CASE ReadConsumed(r)
  BY <1>6 DEF ReadConsumed, Labels, deck, calls, history
<1>7. CASE MarkConsumed(r)
  <2>1. found[r] \in Ids
    BY <1>7 DEF MarkConsumed, Mark
  <2>2. /\ consumed' \subseteq Ids /\ played' \subseteq Ids /\ settled' \subseteq Ids
        /\ lost' \in BOOLEAN
    BY <1>7, <2>1 DEF MarkConsumed, Mark
  <2> QED BY <1>7, <2>2 DEF MarkConsumed, Mark, Labels, Replies, calls
<1> QED BY <1>1, <1>2, <1>3, <1>4, <1>5, <1>6, <1>7 DEF RequestHandler

LEMMA ResponseType ==
  ASSUME TypeOK, NEW r \in Requests, RoundTrip(r) \/ ResponseHandler(r)
  PROVE  TypeOK'
<1> USE DEF TypeOK, Goto
<1>1. CASE RoundTrip(r)
  BY <1>1 DEF RoundTrip, Labels, Replies, deck, calls, turn, history
<1>2. CASE NotRecorded(r) \/ ArchiveFails(r)
  BY <1>2 DEF NotRecorded, ArchiveFails, Finish, Labels, Replies, deck, calls, turn
<1>3. CASE LogPair(r)
  BY <1>3 DEF LogPair, Labels, Replies, deck, calls, turn
<1>4. CASE ReadRecords(r)
  <2>1. PICK i \in FreshIds : /\ found' = [found EXCEPT ![r] = i]
                             /\ heap' = [heap EXCEPT ![i] = ask[r]]
                             /\ played' = played \ {i}
    BY <1>4 DEF ReadRecords
  <2>2. i \in Ids /\ i # None
    BY RecorderAssumption DEF FreshIds
  <2> QED BY <1>4, <2>1, <2>2 DEF ReadRecords, Labels, calls
<1>5. CASE AppendRecord(r)
  <2>1. found[r] \in Ids /\ slice[r] \in Seq(Ids)
    BY <1>5 DEF AppendRecord, AppendTo
  <2>2. records' \in Seq(Ids) /\ stored' \subseteq Ids /\ lost' \in BOOLEAN
    BY <1>5, <2>1, AppendProperties DEF AppendRecord, AppendTo
  <2>3. /\ pc' = [pc EXCEPT ![r] = "idle"] /\ ask' = [ask EXCEPT ![r] = None]
        /\ reply' = [reply EXCEPT ![r] = None]
        /\ matched' = [matched EXCEPT ![r] = {}]
        /\ slice' = [slice EXCEPT ![r] = << >>] /\ found' = [found EXCEPT ![r] = None]
        /\ UNCHANGED <<mode, consumed, heap, calls, left, marks, played, settled>>
    BY <1>5 DEF AppendRecord, AppendTo, Finish
  <2> QED BY <2>2, <2>3 DEF Labels, Replies, calls
<1> QED BY <1>1, <1>2, <1>3, <1>4, <1>5 DEF ResponseHandler

(* The work each tape call leaves.                                         *)
LEMMA WorkType ==
  /\ ClearAll \in Seq(Work)
  /\ \A tape \in Tapes : ClearTapeID(tape) \in Seq(Work)
  /\ \A asks \in Loadable : Decode(asks) \in Seq(Work)
<1>1. ASSUME NEW do \in Jobs PROVE Step(do) \in Work
  BY <1>1, RecorderAssumption DEF Step, Work
<1>2. Step("clear") \in Work
  BY <1>1 DEF Jobs
<1>3. ASSUME NEW tape \in Tapes PROVE ClearTapeID(tape) \in Seq(Work)
  <2>1. ASSUME NEW i \in 1..4
        PROVE  <<"readRecords", "filterRecords", "readConsumed", "filterConsumed">>[i] \in Jobs
    BY DEF Jobs
  <2>2. ASSUME NEW i \in 1..4
        PROVE  [Step(<<"readRecords", "filterRecords",
                       "readConsumed", "filterConsumed">>[i]) EXCEPT !.tape = tape] \in Work
    BY <1>1, <2>1 DEF Work
  <2> QED BY <2>2 DEF ClearTapeID
<1>4. ASSUME NEW asks \in Loadable PROVE Decode(asks) \in Seq(Work)
  <2>1. asks \in Seq(Asks) /\ Len(asks) \in Nat
    BY RecorderAssumption
  <2>2. Step("decode") \in Work /\ Step("truncate") \in Work
    BY <1>1 DEF Jobs
  <2>3. ASSUME NEW i \in 1..Len(asks)
        PROVE  [Step("decode") EXCEPT !.ask = asks[i], !.at = i] \in Work
    <3>1. asks[i] \in Asks /\ i \in Nat
      BY <2>1
    <3> QED BY <2>2, <3>1 DEF Work
  <2>4. [Step("truncate") EXCEPT !.at = Len(asks)] \in Work
    BY <2>1, <2>2 DEF Work
  <2> DEFINE first == [i \in 1..Len(asks) |-> [Step("decode") EXCEPT !.ask = asks[i], !.at = i]]
             last == <<[Step("truncate") EXCEPT !.at = Len(asks)]>>
  <2>5. first \in Seq(Work)
    <3>1. first \in [1..Len(asks) -> Work]
      BY <2>3
    <3> HIDE DEF first
    <3> QED BY <2>1, <3>1, SeqDef
  <2>6. last \in Seq(Work)
    BY <2>4
  <2> HIDE DEF first, last
  <2>7. first \o last \in Seq(Work)
    BY <2>5, <2>6, ConcatProperties
  <2> QED BY <2>7 DEF Decode, first, last
<1> QED BY <1>2, <1>3, <1>4 DEF ClearAll

LEMMA CallType ==
  ASSUME TypeOK, NEW newMode \in Modes, NEW work \in Seq(Work), Call(newMode, work)
  PROVE  TypeOK'
BY DEF Call, TypeOK, turn

LEMMA JobType ==
  ASSUME TypeOK, NEW what, Do(what)
  PROVE  /\ control' \in Seq(Work) /\ Head(control) \in Work
         /\ control # << >> /\ Head(control).do = what
         /\ UNCHANGED <<mode, pc, ask, reply, turn, matched>>
<1>1. control \in Seq(Work) /\ control # << >> /\ control' = Tail(control)
  BY DEF Do, Doing, TypeOK
<1> QED BY <1>1, HeadTailProperties DEF Do, Doing

TapeCall ==
  TapeRecord \/ TapeStop \/ TapeLoad \/ TapeLoadFails \/ TapeClear \/ TapeClearID
Job ==
  Clear \/ DecodeRecord \/ Truncate \/ ReadForFilter \/ FilterRecords \/ FilterConsumed

(* What every tape call does.                                              *)
LEMMA TapeCallCalls ==
  ASSUME TypeOK, TapeCall
  PROVE  \E newMode \in Modes, work \in Seq(Work) : Call(newMode, work)
<1>1. << >> \in Seq(Work) /\ mode \in Modes /\ {"off", "read", "write"} \subseteq Modes
  BY DEF TypeOK, Modes
<1>2. CASE TapeRecord \/ TapeStop \/ TapeLoadFails \/ TapeClear
  BY <1>1, <1>2, WorkType DEF TapeRecord, TapeStop, TapeLoadFails, TapeClear
<1>3. CASE TapeLoad
  <2>1. PICK asks \in Loadable : Call("read", ClearAll \o ClearAll \o Decode(asks))
    BY <1>3 DEF TapeLoad
  <2>2. ClearAll \o ClearAll \in Seq(Work)
    BY WorkType, ConcatProperties
  <2>3. ClearAll \o ClearAll \o Decode(asks) \in Seq(Work)
    BY <2>2, WorkType, ConcatProperties
  <2> QED BY <1>1, <2>1, <2>3
<1>4. CASE TapeClearID
  BY <1>1, <1>4, WorkType DEF TapeClearID
<1> QED BY <1>2, <1>3, <1>4 DEF TapeCall

LEMMA JobStepType == ASSUME TypeOK, Job PROVE TypeOK'
<1>1. CASE Clear
  <2>1. Do("clear")
    BY <1>1 DEF Clear
  <2>2. /\ records' \in Seq(Ids) /\ consumed' \subseteq Ids /\ played' \subseteq Ids
        /\ settled' \subseteq Ids /\ stored' \subseteq Ids
        /\ lost' \in BOOLEAN /\ UNCHANGED <<heap, filtering, filteringMarks>>
    <3>1. /\ records' = << >> /\ consumed' = {} /\ played' = {} /\ lost' = FALSE
          /\ settled' = {} /\ stored' = {}
          /\ UNCHANGED <<heap, filtering, filteringMarks>>
      BY <1>1 DEF Clear
    <3>2. records' \in Seq(Ids) /\ consumed' \subseteq Ids /\ played' \subseteq Ids
      BY <3>1
    <3>3. lost' \in BOOLEAN
      BY <3>1
    <3> QED BY <3>1, <3>2, <3>3
  <2> QED BY <2>1, <2>2, JobType DEF TypeOK, turn
<1>2. CASE DecodeRecord
  <2>1. Do("decode")
    BY <1>2 DEF DecodeRecord
  <2>2. /\ control' \in Seq(Work) /\ Head(control).ask \in Asks \cup {None}
        /\ UNCHANGED <<mode, pc, ask, reply, turn, matched>>
    BY <2>1, JobType DEF Work
  <2>3. /\ records' \in Seq(Ids) /\ heap' \in [Ids -> Asks \cup {None}]
        /\ played' \subseteq Ids /\ lost' \in BOOLEAN
    <3> DEFINE at == Head(control).at
               Into(i) == /\ heap' = [heap EXCEPT ![i] = Head(control).ask]
                          /\ played' = played \ {i}
    <3>1. CASE at \in DOMAIN records /\ Into(records[at]) /\ records' = records /\ lost' = TRUE
      BY <2>2, <3>1 DEF TypeOK
    <3>2. CASE \E i \in FreshIds : Into(i) /\ records' = Append(records, i) /\ lost' = lost
      <4>1. PICK i \in FreshIds : Into(i) /\ records' = Append(records, i) /\ lost' = lost
        BY <3>2
      <4>2. i \in Ids
        BY DEF FreshIds
      <4> QED BY <2>2, <4>1, <4>2, AppendProperties DEF TypeOK
    <3> QED BY <1>2, <3>1, <3>2 DEF DecodeRecord
  <2> QED BY <1>2, <2>2, <2>3 DEF DecodeRecord, TypeOK, turn
<1>3. CASE Truncate
  <2>1. Do("truncate")
    BY <1>3 DEF Truncate
  <2>2. records' \in Seq(Ids) /\ lost' \in BOOLEAN
    <3>1. CASE Len(records) <= Head(control).at
      BY <1>3, <3>1 DEF Truncate, TypeOK
    <3>2. CASE ~(Len(records) <= Head(control).at)
      <4>1. Head(control).at \in 0..Len(records)
        BY <2>1, <3>2, JobType DEF Work, TypeOK
      <4>2. records' = SubSeq(records, 1, Head(control).at) /\ lost' = TRUE
        BY <1>3, <3>2 DEF Truncate
      <4>3. SubSeq(records, 1, Head(control).at) \in Seq(Ids)
        BY <4>1 DEF TypeOK
      <4> QED BY <4>2, <4>3
    <3> QED BY <3>1, <3>2
  <2> QED BY <1>3, <2>1, <2>2, JobType DEF Truncate, TypeOK, turn
<1>4. CASE ReadForFilter
  <2>1. PICK what : /\ Do(what)
                     /\ UNCHANGED <<heap, records, consumed, played, settled, stored, lost>>
    BY <1>4 DEF ReadForFilter
  <2>2. filtering' \in Seq(Ids) /\ filteringMarks' \subseteq Ids
    BY <1>4 DEF ReadForFilter, TypeOK
  <2> QED BY <2>1, <2>2, JobType DEF TypeOK, turn
<1>5. CASE FilterRecords
  <2>1. Do("filterRecords")
    BY <1>5 DEF FilterRecords
  <2>2. /\ records' \in Seq(Ids) /\ filtering' \in Seq(Ids)
        /\ stored' \subseteq Ids /\ lost' \in BOOLEAN
    BY <1>5, FilterSliceElements DEF FilterRecords, TypeOK
  <2> QED BY <1>5, <2>1, <2>2, JobType DEF FilterRecords, TypeOK, turn
<1>6. CASE FilterConsumed
  <2>1. Do("filterConsumed")
    BY <1>6 DEF FilterConsumed
  <2>2. /\ consumed' \subseteq Ids /\ played' \subseteq Ids /\ settled' \subseteq Ids
        /\ lost' \in BOOLEAN
    BY <1>6 DEF FilterConsumed, TypeOK
  <2> QED BY <1>6, <2>1, <2>2, JobType DEF FilterConsumed, TypeOK, turn
<1> QED BY <1>1, <1>2, <1>3, <1>4, <1>5, <1>6 DEF Job

LEMMA LaunchType == Launch => TypeOK'
<1> SUFFICES ASSUME Launch PROVE TypeOK'
  OBVIOUS
<1>1. /\ mode' \in Modes /\ control' \in Seq(Work)
      /\ records' \in Seq(Ids) /\ filtering' \in Seq(Ids)
  BY DEF Launch, Modes
<1>2. /\ pc' \in [Requests -> Labels] /\ reply' \in [Requests -> Replies]
      /\ left' \in [Requests -> Seq(Ids)] /\ slice' \in [Requests -> Seq(Ids)]
  BY DEF Launch, Labels, Replies
<1> QED BY <1>1, <1>2 DEF Launch, TypeOK

(* The steps there are.                                                    *)
LEMMA NextCases ==
  ASSUME [Next]_vars
  PROVE  \/ \E r \in Requests : RequestHandler(r) \/ RoundTrip(r) \/ ResponseHandler(r)
         \/ TapeCall \/ Job \/ Launch \/ UNCHANGED vars
BY DEF Next, Controller, TapeCall, Job

LEMMA TypeStep == TypeOK /\ [Next]_vars => TypeOK'
<1> SUFFICES ASSUME TypeOK, [Next]_vars PROVE TypeOK'
  OBVIOUS
<1>1. CASE UNCHANGED vars
  BY <1>1 DEF vars, deck, calls, turn, history, TypeOK
<1> QED BY <1>1, NextCases, RequestType, ResponseType, TapeCallCalls, CallType,
           JobStepType, LaunchType

(* The tape, the calls under way and what each request holds of the tape   *)
(* are of their types, through any tape calls and restarts.                *)
THEOREM TypeCorrect == Spec => []TypeOK
BY InitType, TypeStep, PTL DEF Spec

(* The steps of a request that leave the tape alone.                       *)
Looks(r) ==
  \/ PassThrough(r) \/ LookUp(r) \/ FindMatchingResponse(r) \/ AlreadySeen(r)
  \/ FoundRecord(r) \/ NoMatch(r) \/ ReadConsumed(r)
  \/ RoundTrip(r) \/ NotRecorded(r) \/ LogPair(r) \/ ArchiveFails(r)

LEMMA RequestCases ==
  ASSUME NEW r \in Requests, RequestHandler(r) \/ RoundTrip(r) \/ ResponseHandler(r)
  PROVE  Looks(r) \/ MarkConsumed(r) \/ ReadRecords(r) \/ AppendRecord(r)
BY DEF RequestHandler, ResponseHandler, Looks

LEMMA LooksFrame ==
  ASSUME NEW r \in Requests, Looks(r)
  PROVE  UNCHANGED <<mode, records, consumed, heap, control, filtering, filteringMarks,
                     played, settled, stored, lost>>
BY DEF Looks, PassThrough, LookUp, Arrive, FindMatchingResponse, AlreadySeen, FoundRecord,
       Found, NoMatch, ReadConsumed, RoundTrip, NotRecorded, LogPair, ArchiveFails,
       deck, calls, history

(* What one request does, the others do not notice.                        *)
LEMMA OthersFrame ==
  ASSUME TypeOK, NEW r \in Requests, NEW x \in Requests, x # r,
         RequestHandler(r) \/ RoundTrip(r) \/ ResponseHandler(r)
  PROVE  /\ pc'[x] = pc[x] /\ ask'[x] = ask[x] /\ reply'[x] = reply[x]
         /\ left'[x] = left[x] /\ found'[x] = found[x]
         /\ slice'[x] = slice[x] /\ marks'[x] = marks[x]
         /\ matched'[x] = matched[x]
<1> USE DEF TypeOK, Goto
<1>1. CASE PassThrough(r) \/ LookUp(r)
  <2>1. PICK a \in Asked : ask' = [ask EXCEPT ![r] = a]
    BY <1>1 DEF PassThrough, LookUp, Arrive
  <2>2. \E label \in {"out", "match"} : pc' = [pc EXCEPT ![r] = label]
    BY <1>1 DEF PassThrough, LookUp
  <2>3. UNCHANGED <<reply, turn, history>>
    BY <1>1 DEF PassThrough, LookUp, Arrive
  <2> QED BY <2>1, <2>2, <2>3 DEF turn, history
<1>2. CASE FindMatchingResponse(r)
  BY <1>2 DEF FindMatchingResponse
<1>3. CASE \/ AlreadySeen(r) \/ NoMatch(r) \/ ReadConsumed(r)
           \/ RoundTrip(r) \/ LogPair(r)
  BY <1>3 DEF AlreadySeen, NoMatch, ReadConsumed, RoundTrip, LogPair, turn, history
<1>8. CASE FoundRecord(r)
  BY <1>8 DEF FoundRecord, Found
<1>4. CASE MarkConsumed(r)
  BY <1>4 DEF MarkConsumed, Mark
<1>5. CASE NotRecorded(r) \/ ArchiveFails(r)
  BY <1>5 DEF NotRecorded, ArchiveFails, Finish, turn
<1>6. CASE ReadRecords(r)
  <2>1. PICK i \in FreshIds : found' = [found EXCEPT ![r] = i]
    BY <1>6 DEF ReadRecords
  <2> QED BY <1>6, <2>1 DEF ReadRecords
<1>7. CASE AppendRecord(r)
  BY <1>7 DEF AppendRecord, AppendTo, Finish
<1> QED BY <1>1, <1>2, <1>3, <1>4, <1>5, <1>6, <1>7, <1>8 DEF RequestHandler, ResponseHandler

(* What the jobs of a tape call leave alone.                               *)
LEMMA JobFrame ==
  ASSUME TypeOK, Job
  PROVE  /\ control # << >>
         /\ UNCHANGED <<mode, pc, ask, reply, left, found, slice, marks, matched>>
<1>1. PICK what : Do(what)
  BY DEF Job, Clear, DecodeRecord, Truncate, ReadForFilter, FilterRecords, FilterConsumed
<1> QED BY <1>1, JobType DEF turn

-----------------------------------------------------------------------------
(* The work of a tape call: what a job needs to have been done before it.  *)
Follows(do, done) ==
  /\ do = "filterRecords" => done = "readRecords"
  /\ do = "filterConsumed" => done = "readConsumed"
  /\ do \in {"decode", "truncate"} => done \in {"clear", "decode"}
Ordered(work) == \A i \in 1..(Len(work) - 1) : Follows(work[i + 1].do, work[i].do)
Starts(work) == work # << >> => work[1].do \in {"clear", "readRecords"}

LEMMA ConcatOrdered ==
  ASSUME NEW first \in Seq(Work), NEW second \in Seq(Work),
         Ordered(first), Ordered(second), first # << >>, second # << >>,
         Follows(second[1].do, first[Len(first)].do)
  PROVE  /\ first \o second \in Seq(Work) /\ first \o second # << >>
         /\ Ordered(first \o second) /\ (first \o second)[1] = first[1]
<1> DEFINE both == first \o second
<1>1. /\ Len(first) \in Nat /\ Len(second) \in Nat /\ Len(first) # 0 /\ Len(second) # 0
  BY LenProperties, EmptySeq
<1>2. /\ both \in Seq(Work) /\ Len(both) = Len(first) + Len(second)
      /\ \A i \in 1..(Len(first) + Len(second)) :
           both[i] = IF i <= Len(first) THEN first[i] ELSE second[i - Len(first)]
  BY ConcatProperties
<1>3. \A i \in 1..Len(first) : both[i] = first[i]
  BY <1>1, <1>2
<1>4. ASSUME NEW i \in 1..(Len(both) - 1) PROVE Follows(both[i + 1].do, both[i].do)
  <2>1. CASE i < Len(first)
    <3>1. /\ i \in 1..(Len(first) - 1) /\ both[i] = first[i] /\ both[i + 1] = first[i + 1]
      BY <1>1, <1>3, <2>1
    <3> QED BY <3>1 DEF Ordered
  <2>2. CASE i = Len(first)
    <3>1. both[i] = first[i] /\ both[i + 1] = second[1]
      BY <1>1, <1>2, <1>3, <2>2
    <3> QED BY <2>2, <3>1
  <2>3. CASE i > Len(first)
    <3>1. PICK j : j = i - Len(first) /\ j \in 1..(Len(second) - 1) /\ i = Len(first) + j
      <4>1. i - Len(first) \in 1..(Len(second) - 1) /\ i = Len(first) + (i - Len(first))
        BY <1>1, <1>2, <2>3
      <4> QED BY <4>1
    <3>2. /\ i \in 1..(Len(first) + Len(second)) /\ i + 1 \in 1..(Len(first) + Len(second))
          /\ ~(i <= Len(first)) /\ ~(i + 1 <= Len(first))
          /\ i - Len(first) = j /\ (i + 1) - Len(first) = j + 1
      BY <1>1, <1>2, <2>3, <3>1
    <3>3. both[i] = second[j] /\ both[i + 1] = second[j + 1]
      BY <1>2, <3>2
    <3> QED BY <3>1, <3>3 DEF Ordered
  <2> QED BY <1>1, <1>2, <2>1, <2>2, <2>3
<1>5. both # << >> /\ both[1] = first[1]
  BY <1>1, <1>2, <1>3, EmptySeq
<1> QED BY <1>2, <1>4, <1>5 DEF Ordered

LEMMA WorkOrdered ==
  /\ Ordered(ClearAll) /\ ClearAll[1].do = "clear"
  /\ ClearAll[Len(ClearAll)].do = "clear" /\ ClearAll # << >>
  /\ \A tape \in Tapes : Ordered(ClearTapeID(tape)) /\ Starts(ClearTapeID(tape))
  /\ \A asks \in Loadable : /\ Ordered(Decode(asks)) /\ Decode(asks) # << >>
                            /\ Decode(asks)[1].do \in {"decode", "truncate"}
<1>1. ASSUME NEW tape \in Tapes
      PROVE  Ordered(ClearTapeID(tape)) /\ Starts(ClearTapeID(tape))
  <2>1. PICK work : work = ClearTapeID(tape)
    OBVIOUS
  <2>2. /\ Len(work) = 4
        /\ \A i \in 1..4 : work[i].do = <<"readRecords", "filterRecords",
                                          "readConsumed", "filterConsumed">>[i]
    BY <2>1 DEF ClearTapeID, Step
  <2>3. /\ work[1].do = "readRecords" /\ work[2].do = "filterRecords"
        /\ work[3].do = "readConsumed" /\ work[4].do = "filterConsumed"
    BY <2>2
  <2>4. ASSUME NEW i \in 1..3 PROVE Follows(work[i + 1].do, work[i].do)
    <3>1. i = 1 \/ i = 2 \/ i = 3
      OBVIOUS
    <3> QED BY <2>3, <3>1 DEF Follows
  <2> QED BY <2>1, <2>2, <2>3, <2>4 DEF Ordered, Starts
<1>2. ASSUME NEW asks \in Loadable
      PROVE  /\ Ordered(Decode(asks)) /\ Decode(asks) # << >>
             /\ Decode(asks)[1].do \in {"decode", "truncate"}
  <2>1. asks \in Seq(Asks) /\ Len(asks) \in Nat
    BY RecorderAssumption
  <2>2. PICK n, work : n \in Nat /\ n = Len(asks) /\ work = Decode(asks)
    BY <2>1
  <2> DEFINE first == [i \in 1..n |-> [Step("decode") EXCEPT !.ask = asks[i], !.at = i]]
             last == <<[Step("truncate") EXCEPT !.at = n]>>
  <2>3. /\ \A i \in 1..n : first[i].do = "decode"
        /\ last[1].do = "truncate" /\ Len(last) = 1
    BY DEF Step
  <2>4. PICK S : S = {first[i] : i \in 1..n} \cup {last[1]}
    OBVIOUS
  <2>5. first \in Seq(S) /\ last \in Seq(S) /\ Len(first) = n
    <3>1. first \in [1..n -> S]
      BY <2>4
    <3>2. last \in Seq(S)
      <4>1. last[1] \in S
        BY <2>4
      <4> QED BY <4>1
    <3>3. DOMAIN first = 1..n
      OBVIOUS
    <3> HIDE DEF first, last
    <3>4. first \in Seq(S)
      BY <2>2, <3>1, SeqDef
    <3> QED BY <2>2, <3>2, <3>3, <3>4, LenProperties
  <2>6. work = first \o last
    BY <2>2 DEF Decode
  <2> HIDE DEF first, last
  <2>7. /\ work \in Seq(S) /\ Len(work) = n + 1
        /\ \A i \in 1..(n + 1) : work[i] = IF i <= n THEN first[i] ELSE last[i - n]
    <3>1. /\ work \in Seq(S) /\ Len(work) = Len(first) + Len(last)
          /\ \A i \in 1..(Len(first) + Len(last)) :
               work[i] = IF i <= Len(first) THEN first[i] ELSE last[i - Len(first)]
      BY <2>5, <2>6, ConcatProperties
    <3> QED BY <2>3, <2>5, <3>1
  <2>8. (\A i \in 1..n : work[i].do = "decode") /\ work[n + 1].do = "truncate"
    BY <2>2, <2>3, <2>7
  <2>9. ASSUME NEW i \in 1..n PROVE Follows(work[i + 1].do, work[i].do)
    BY <2>2, <2>8 DEF Follows
  <2>10. work # << >>
    BY <2>2, <2>7, EmptySeq
  <2>11. work[1].do \in {"decode", "truncate"}
    <3>1. n = 0 \/ 1 \in 1..n
      BY <2>2
    <3> QED BY <2>2, <2>8, <3>1
  <2>12. Ordered(work)
    BY <2>2, <2>7, <2>9 DEF Ordered
  <2> QED BY <2>2, <2>10, <2>11, <2>12
<1>3. /\ Ordered(ClearAll) /\ ClearAll[1].do = "clear"
      /\ ClearAll[Len(ClearAll)].do = "clear" /\ ClearAll # << >>
  BY DEF ClearAll, Step, Ordered
<1> QED BY <1>1, <1>2, <1>3

LEMMA TapeCallWork ==
  ASSUME TypeOK, TapeCall
  PROVE  \E newMode \in Modes, work \in Seq(Work) :
           Call(newMode, work) /\ Ordered(work) /\ Starts(work)
<1>1. << >> \in Seq(Work) /\ mode \in Modes /\ {"off", "read", "write"} \subseteq Modes
  BY DEF TypeOK, Modes
<1>2. Ordered(<< >>) /\ Starts(<< >>) /\ Starts(ClearAll) /\ Ordered(ClearAll)
  BY WorkOrdered DEF Ordered, Starts
<1>3. CASE TapeRecord \/ TapeStop \/ TapeLoadFails \/ TapeClear
  BY <1>1, <1>2, <1>3, WorkType DEF TapeRecord, TapeStop, TapeLoadFails, TapeClear
<1>4. CASE TapeLoad
  <2>1. PICK asks \in Loadable : Call("read", ClearAll \o ClearAll \o Decode(asks))
    BY <1>4 DEF TapeLoad
  <2>2. PICK first, second : first = ClearAll /\ second = Decode(asks)
    OBVIOUS
  <2>3. /\ first \in Seq(Work) /\ second \in Seq(Work) /\ Ordered(first) /\ Ordered(second)
        /\ first # << >> /\ second # << >>
        /\ first[1].do = "clear" /\ first[Len(first)].do = "clear"
        /\ second[1].do \in {"decode", "truncate"}
    BY <2>2, WorkType, WorkOrdered
  <2>4. /\ Follows(second[1].do, first[Len(first)].do)
        /\ Follows(first[1].do, first[Len(first)].do)
    BY <2>3 DEF Follows
  <2>5. /\ second \in Seq(Work) /\ Ordered(first \o second) /\ first \o second \in Seq(Work)
        /\ first \o second # << >> /\ (first \o second)[1] = first[1]
    BY <2>3, <2>4, ConcatOrdered
  <2>6. PICK rest : rest = first \o second
    OBVIOUS
  <2>7. Follows(rest[1].do, first[Len(first)].do)
    BY <2>4, <2>5, <2>6
  <2>8. /\ first \o rest \in Seq(Work) /\ Ordered(first \o rest)
        /\ (first \o rest)[1] = first[1]
    BY <2>3, <2>5, <2>6, <2>7, ConcatOrdered
  <2>9. first \o rest = first \o first \o second
    BY <2>3, <2>6, ConcatAssociative
  <2>10. Starts(first \o rest)
    BY <2>3, <2>8 DEF Starts
  <2> QED BY <1>1, <2>1, <2>2, <2>8, <2>9, <2>10
<1>5. CASE TapeClearID
  <2>1. PICK tape \in Tapes : Call(mode, ClearTapeID(tape))
    BY <1>5 DEF TapeClearID
  <2> QED BY <1>1, <2>1, WorkType, WorkOrdered
<1> QED BY <1>3, <1>4, <1>5 DEF TapeCall

(* What is next after a job is one that may follow it.                     *)
LEMMA JobOrdered ==
  ASSUME TypeOK, Ordered(control), NEW what, Do(what)
  PROVE  /\ Ordered(control)' /\ Doing(what)
         /\ \A do : Doing(do)' => Follows(do, what)
<1>1. /\ control \in Seq(Work) /\ control # << >> /\ control' = Tail(control)
      /\ Head(control).do = what
  BY DEF Do, Doing, TypeOK
<1>2. PICK work, rest : work = control /\ rest = Tail(work)
  OBVIOUS
<1>3. /\ Len(work) \in Nat \ {0} /\ rest \in Seq(Work) /\ Len(rest) = Len(work) - 1
      /\ \A p \in 1..(Len(work) - 1) : rest[p] = work[p + 1]
  BY <1>1, <1>2, EmptySeq, LenProperties, HeadTailProperties
<1>4. ASSUME NEW i \in 1..(Len(rest) - 1) PROVE Follows(rest[i + 1].do, rest[i].do)
  <2>1. i + 1 \in 1..(Len(work) - 1) /\ rest[i] = work[i + 1] /\ rest[i + 1] = work[i + 1 + 1]
    BY <1>3
  <2> QED BY <1>2, <2>1 DEF Ordered
<1>5. ASSUME NEW do, rest # << >>, Head(rest).do = do PROVE Follows(do, what)
  <2>1. Len(rest) # 0
    BY <1>3, <1>5, EmptySeq
  <2>2. 1 \in 1..(Len(work) - 1)
    BY <1>3, <2>1
  <2>3. Follows(work[2].do, work[1].do)
    BY <1>2, <2>2 DEF Ordered
  <2>4. Head(rest) = work[2] /\ Head(work) = work[1]
    BY <1>1, <1>2, <1>3, <1>5, <2>2, HeadTailProperties
  <2> QED BY <1>1, <1>2, <1>5, <2>3, <2>4
<1> QED BY <1>1, <1>2, <1>4, <1>5 DEF Ordered, Do, Doing

LEMMA CallOrdered ==
  ASSUME NEW newMode \in Modes, NEW work \in Seq(Work), Call(newMode, work),
         Ordered(work), Starts(work)
  PROVE  /\ Ordered(control)'
         /\ \A do \in {"filterRecords", "filterConsumed", "decode", "truncate"} : ~Doing(do)'
<1>1. control' = work /\ (work # << >> => Head(work) = work[1])
  BY HeadTailProperties DEF Call
<1> QED BY <1>1 DEF Starts, Doing

LEMMA LaunchOrdered ==
  ASSUME Launch PROVE Ordered(control)' /\ \A do : ~Doing(do)'
BY DEF Launch, Ordered, Doing

(* What requests do leaves the calls under way alone.                      *)
LEMMA CallsFrame ==
  ASSUME NEW r \in Requests, RequestHandler(r) \/ RoundTrip(r) \/ ResponseHandler(r)
  PROVE  UNCHANGED <<control, filtering, filteringMarks>>
BY RequestCases, LooksFrame DEF MarkConsumed, Mark, ReadRecords, AppendRecord, AppendTo, calls

-----------------------------------------------------------------------------
(* What is recorded.                                                       *)

(* Whoever is about to write the records has read what is stored.          *)
StoredInv ==
  /\ Ordered(control)
  /\ stored \subseteq ToSet(records)
  /\ \A r \in Requests : pc[r] = "append" => stored \subseteq ToSet(slice[r])
  /\ Doing("filterRecords") => stored \subseteq ToSet(filtering)
  /\ Doing("decode") \/ Doing("truncate") => stored = {}

LEMMA StoredRequestStep ==
  ASSUME TypeOK, StoredInv, NEW r \in Requests,
         RequestHandler(r) \/ RoundTrip(r) \/ ResponseHandler(r)
  PROVE  StoredInv'
<1>0. /\ UNCHANGED <<control, filtering>>
      /\ \A x \in Requests \ {r} : pc'[x] = pc[x] /\ slice'[x] = slice[x]
  BY CallsFrame, OthersFrame
<1>1. CASE AppendRecord(r)
  <2>1. /\ records' = Append(slice[r], found[r]) /\ pc[r] = "append" /\ pc'[r] # "append"
        /\ stored' = IF AppendsAlone(r) THEN stored \cup {found[r]} ELSE stored
    BY <1>1 DEF AppendRecord, AppendTo, Finish, Goto, TypeOK
  <2>2. found[r] \in Ids /\ slice[r] \in Seq(Ids)
    BY <2>1 DEF TypeOK
  <2>3. ToSet(records') = ToSet(slice[r]) \cup {found[r]}
    BY <2>1, <2>2 DEF ToSet
  <2>4. CASE AppendsAlone(r)
    <3>1. \A x \in Requests : pc'[x] # "append"
      BY <1>0, <2>1, <2>4 DEF AppendsAlone
    <3>2. \A do \in {"filterRecords", "decode", "truncate"} : ~Doing(do)'
      BY <1>0, <2>4 DEF AppendsAlone, Doing
    <3> QED BY <1>0, <2>1, <2>3, <3>1, <3>2 DEF StoredInv, Ordered
  <2>5. CASE ~AppendsAlone(r)
    BY <1>0, <2>1, <2>3, <2>5 DEF StoredInv, Ordered, Doing
  <2> QED BY <2>4, <2>5
<1>2. CASE ReadRecords(r)
  <2>1. slice'[r] = records /\ UNCHANGED <<records, stored>>
    BY <1>2 DEF ReadRecords, TypeOK
  <2> QED BY <1>0, <2>1 DEF StoredInv, Ordered, Doing
<1>3. CASE Looks(r) \/ MarkConsumed(r)
  <2>1. UNCHANGED <<records, stored>>
    BY <1>3, LooksFrame DEF MarkConsumed, Mark
  <2>2. pc'[r] # "append"
    BY <1>3 DEF Looks, PassThrough, LookUp, FindMatchingResponse, AlreadySeen, FoundRecord,
       Found, NoMatch, ReadConsumed, RoundTrip, NotRecorded, LogPair, ArchiveFails, Finish,
       MarkConsumed, Mark, Goto, TypeOK
  <2> QED BY <1>0, <2>1, <2>2 DEF StoredInv, Ordered, Doing
<1> QED BY <1>1, <1>2, <1>3, RequestCases

LEMMA StoredJobStep == ASSUME TypeOK, StoredInv, Job PROVE StoredInv'
<1>0. UNCHANGED <<pc, slice>> /\ Ordered(control)
  BY JobFrame DEF StoredInv
<1>1. CASE Clear
  <2>1. stored' = {} /\ Do("clear")
    BY <1>1 DEF Clear
  <2> QED BY <1>0, <2>1, JobOrdered DEF StoredInv
<1>2. CASE DecodeRecord
  <2>1. Do("decode") /\ UNCHANGED stored
    BY <1>2 DEF DecodeRecord
  <2>2. stored = {} /\ Ordered(control)'
    BY <1>0, <2>1, JobOrdered DEF StoredInv
  <2> QED BY <2>1, <2>2 DEF StoredInv
<1>3. CASE Truncate
  <2>1. Do("truncate") /\ UNCHANGED stored
    BY <1>3 DEF Truncate
  <2>2. stored = {} /\ Ordered(control)'
    BY <1>0, <2>1, JobOrdered DEF StoredInv
  <2> QED BY <2>1, <2>2 DEF StoredInv
<1>4. CASE ReadForFilter
  <2>1. UNCHANGED <<records, stored>>
    BY <1>4 DEF ReadForFilter
  <2>2. CASE Do("readRecords") /\ filtering' = records
    <3>1. /\ Ordered(control)' /\ ~Doing("decode")' /\ ~Doing("truncate")'
      BY <1>0, <2>2, JobOrdered DEF Follows
    <3> QED BY <1>0, <2>1, <2>2, <3>1 DEF StoredInv
  <2>3. CASE Do("readConsumed")
    <3>1. /\ Ordered(control)' /\ ~Doing("decode")' /\ ~Doing("truncate")'
          /\ ~Doing("filterRecords")'
      BY <1>0, <2>3, JobOrdered DEF Follows
    <3> QED BY <1>0, <2>1, <3>1 DEF StoredInv
  <2> QED BY <1>4, <2>2, <2>3 DEF ReadForFilter
<1>5. CASE FilterRecords
  <2>1. PICK dropped : /\ records' = FilterSlice(filtering, Ids \ dropped)
                       /\ stored' = stored \ dropped
    BY <1>5 DEF FilterRecords
  <2>2. Do("filterRecords")
    BY <1>5 DEF FilterRecords
  <2>3. /\ Ordered(control)' /\ ~Doing("decode")' /\ ~Doing("truncate")'
        /\ ~Doing("filterRecords")' /\ stored \subseteq ToSet(filtering)
    BY <1>0, <2>2, JobOrdered DEF Follows, StoredInv
  <2>4. ToSet(records') = ToSet(filtering) \cap (Ids \ dropped)
    BY <2>1, FilterSliceElements DEF TypeOK
  <2>5. stored \subseteq Ids
    BY DEF TypeOK
  <2> QED BY <1>0, <2>1, <2>3, <2>4, <2>5 DEF StoredInv
<1>6. CASE FilterConsumed
  <2>1. Do("filterConsumed") /\ UNCHANGED <<records, stored>>
    BY <1>6 DEF FilterConsumed
  <2>2. /\ Ordered(control)' /\ ~Doing("decode")' /\ ~Doing("truncate")'
        /\ ~Doing("filterRecords")'
    BY <1>0, <2>1, JobOrdered DEF Follows
  <2> QED BY <1>0, <2>1, <2>2 DEF StoredInv
<1> QED BY <1>1, <1>2, <1>3, <1>4, <1>5, <1>6 DEF Job

LEMMA StoredStep == ASSUME TypeOK, StoredInv, [Next]_vars PROVE StoredInv'
<1>1. CASE TapeCall
  <2>1. PICK newMode \in Modes, work \in Seq(Work) :
          Call(newMode, work) /\ Ordered(work) /\ Starts(work)
    BY <1>1, TapeCallWork
  <2>2. UNCHANGED <<records, slice, pc, stored>>
    BY <2>1 DEF Call, turn
  <2>3. /\ Ordered(control)'
        /\ ~Doing("filterRecords")' /\ ~Doing("decode")' /\ ~Doing("truncate")'
    BY <2>1, CallOrdered
  <2> QED BY <2>2, <2>3 DEF StoredInv
<1>2. CASE Launch
  <2>1. stored' = {}
    BY <1>2 DEF Launch
  <2> QED BY <1>2, <2>1, LaunchOrdered DEF StoredInv
<1>3. CASE UNCHANGED vars
  BY <1>3 DEF vars, deck, calls, turn, history, StoredInv, Ordered, Doing
<1> QED BY <1>1, <1>2, <1>3, NextCases, StoredRequestStep, StoredJobStep

(* "A recorder supports multiple concurrent tape writes": a record whose   *)
(* append nobody overlapped stays on the tape until a clear removes it,    *)
(* whatever appends, filters and tapes that are loaded overlap later.      *)
THEOREM RecordingIsKept == Spec => []SessionRecorded
<1>1. Init => StoredInv
  BY DEF Init, StoredInv, Ordered, Doing
<1>2. StoredInv => SessionRecorded
  BY DEF StoredInv, SessionRecorded
<1> QED BY <1>1, <1>2, StoredStep, TypeCorrect, PTL DEF Spec

-----------------------------------------------------------------------------
(* Who holds which record.                                                 *)

(* No record is twice in a slice.                                          *)
Distinct ==
  /\ IsInjective(records) /\ IsInjective(filtering)
  /\ \A r \in Requests : IsInjective(slice[r])

(* The record a request is about to append is its own.                     *)
Private(r) ==
  /\ found[r] \notin ToSet(records) \cup consumed \cup played
  /\ found[r] \notin ToSet(filtering) \cup filteringMarks
  /\ \A x \in Requests :
       /\ found[r] \notin ToSet(left[x]) /\ found[r] \notin ToSet(slice[x])
       /\ found[r] \notin marks[x]
       /\ x # r => found[x] # found[r]

HoldInv ==
  /\ Distinct
  /\ \A r \in Requests : pc[r] = "append" => Private(r)

LEMMA FreshIsFree ==
  ASSUME NEW i \in FreshIds
  PROVE  /\ i \in Ids /\ i \notin ToSet(records) /\ i \notin consumed
         /\ i \notin ToSet(filtering) /\ i \notin filteringMarks
         /\ \A x \in Requests :
              /\ i \notin ToSet(left[x]) /\ i \notin ToSet(slice[x])
              /\ i \notin marks[x] /\ found[x] # i
BY DEF FreshIds, InUse

LEMMA AppendDistinct ==
  ASSUME NEW T, NEW seq \in Seq(T), NEW x \in T, IsInjective(seq), x \notin ToSet(seq)
  PROVE  /\ IsInjective(Append(seq, x))
         /\ ToSet(Append(seq, x)) = ToSet(seq) \cup {x}
<1> DEFINE out == Append(seq, x)
<1>1. /\ DOMAIN seq = 1..Len(seq) /\ DOMAIN out = 1..(Len(seq) + 1)
      /\ Len(seq) \in Nat /\ out[Len(seq) + 1] = x
      /\ \A i \in 1..Len(seq) : out[i] = seq[i]
  OBVIOUS
<1>2. \A i \in 1..Len(seq) : seq[i] # x
  BY <1>1 DEF ToSet
<1> HIDE DEF out
<1>3. IsInjective(out)
  BY <1>1, <1>2 DEF IsInjective
<1>4. ToSet(out) = ToSet(seq) \cup {x}
  BY <1>1 DEF ToSet
<1> QED BY <1>3, <1>4 DEF out

LEMMA FilterDistinct ==
  ASSUME NEW T, NEW seq \in Seq(T), NEW keep, IsInjective(seq)
  PROVE  IsInjective(FilterSlice(seq, keep))
<1> DEFINE out == FilterSlice(seq, keep)
<1>1. out \in Seq(T)
  BY FilterSliceKeeps
<1>2. PICK from : KeptFrom(out, seq, Len(seq), keep, from)
  BY FilterSliceKeeps
<1> HIDE DEF out
<1>3. DOMAIN out = 1..Len(out) /\ DOMAIN seq = 1..Len(seq) /\ Len(out) \in Nat /\ Len(seq) \in Nat
  BY <1>1, LenProperties
<1>4. ASSUME NEW p \in 1..Len(out), NEW q \in 1..Len(out), out[p] = out[q] PROVE p = q
  <2>1. from[p] = from[q]
    BY <1>2, <1>3, <1>4 DEF KeptFrom, IsInjective
  <2>2. from[p] \in Nat
    BY <1>2, <1>3 DEF KeptFrom
  <2>3. ~(p < q) /\ ~(q < p)
    BY <1>2, <2>1, <2>2 DEF KeptFrom
  <2> QED BY <1>3, <2>3
<1> QED BY <1>3, <1>4 DEF IsInjective, out

LEMMA PrefixDistinct ==
  ASSUME NEW T, NEW seq \in Seq(T), NEW n \in 0..Len(seq), IsInjective(seq)
  PROVE  IsInjective(SubSeq(seq, 1, n)) /\ ToSet(SubSeq(seq, 1, n)) \subseteq ToSet(seq)
<1>1. /\ DOMAIN SubSeq(seq, 1, n) = 1..n /\ 1..n \subseteq 1..Len(seq)
      /\ DOMAIN seq = 1..Len(seq)
      /\ \A i \in 1..n : SubSeq(seq, 1, n)[i] = seq[i]
  OBVIOUS
<1> QED BY <1>1 DEF IsInjective, ToSet

LEMMA HeadElement ==
  ASSUME NEW T, NEW seq \in Seq(T), seq # << >>
  PROVE  Head(seq) \in ToSet(seq) /\ Head(seq) = seq[1] /\ 1 \in DOMAIN seq
<1>1. Len(seq) \in Nat /\ Len(seq) # 0 /\ DOMAIN seq = 1..Len(seq)
  BY EmptySeq, LenProperties
<1>2. 1 \in DOMAIN seq /\ Head(seq) = seq[1]
  BY <1>1
<1> QED BY <1>2 DEF ToSet

LEMMA TailElements ==
  ASSUME NEW T, NEW seq \in Seq(T), seq # << >>
  PROVE  /\ \A p \in DOMAIN Tail(seq) : p + 1 \in DOMAIN seq /\ Tail(seq)[p] = seq[p + 1]
         /\ ToSet(Tail(seq)) \subseteq ToSet(seq)
         /\ ToSet(seq) = ToSet(Tail(seq)) \cup {Head(seq)}
<1>1. /\ Len(seq) \in Nat \ {0} /\ DOMAIN seq = 1..Len(seq)
      /\ Tail(seq) \in Seq(T) /\ Len(Tail(seq)) = Len(seq) - 1
      /\ \A p \in 1..(Len(seq) - 1) : Tail(seq)[p] = seq[p + 1]
  BY EmptySeq, LenProperties, HeadTailProperties
<1>2. DOMAIN Tail(seq) = 1..(Len(seq) - 1)
  BY <1>1, LenProperties
<1>3. \A p \in DOMAIN Tail(seq) : p + 1 \in DOMAIN seq /\ Tail(seq)[p] = seq[p + 1]
  BY <1>1, <1>2
<1>4. ToSet(Tail(seq)) \subseteq ToSet(seq)
  BY <1>3 DEF ToSet
<1>5. ASSUME NEW i \in 1..Len(seq) PROVE seq[i] \in ToSet(Tail(seq)) \cup {Head(seq)}
  <2>1. CASE i = 1
    BY <2>1
  <2>2. CASE i # 1
    <3>1. i - 1 \in DOMAIN Tail(seq) /\ Tail(seq)[i - 1] = seq[i]
      BY <1>1, <1>2, <2>2
    <3> QED BY <3>1 DEF ToSet
  <2> QED BY <2>1, <2>2
<1>6. Head(seq) \in ToSet(seq)
  BY HeadElement, <1>1, EmptySeq
<1> QED BY <1>1, <1>3, <1>4, <1>5, <1>6 DEF ToSet

LEMMA TruncateCuts ==
  ASSUME TypeOK, Truncate
  PROVE  \/ records' = records /\ lost' = lost
         \/ lost' = TRUE /\ \E n \in 0..Len(records) : records' = SubSeq(records, 1, n)
<1>1. Head(control).at \in Nat /\ Len(records) \in Nat
  BY JobType DEF Truncate, Work, TypeOK
<1>2. CASE Len(records) <= Head(control).at
  BY <1>2 DEF Truncate
<1>3. CASE ~(Len(records) <= Head(control).at)
  <2>1. Head(control).at \in 0..Len(records)
    BY <1>1, <1>3
  <2>2. records' = SubSeq(records, 1, Head(control).at) /\ lost' = TRUE
    BY <1>3 DEF Truncate
  <2> QED BY <2>1, <2>2
<1> QED BY <1>2, <1>3

LEMMA DistinctRequestStep ==
  ASSUME TypeOK, HoldInv, NEW r \in Requests,
         RequestHandler(r) \/ RoundTrip(r) \/ ResponseHandler(r)
  PROVE  Distinct'
<1> USE DEF HoldInv
<1>0. /\ IsInjective(records) /\ IsInjective(filtering) /\ IsInjective(slice[r])
      /\ \A x \in Requests \ {r} : slice'[x] = slice[x] /\ IsInjective(slice[x])
  BY OthersFrame DEF Distinct
<1>1. CASE AppendRecord(r)
  <2>1. /\ records' = Append(slice[r], found[r]) /\ slice'[r] = << >> /\ filtering' = filtering
        /\ found[r] \in Ids /\ slice[r] \in Seq(Ids) /\ found[r] \notin ToSet(slice[r])
    BY <1>1 DEF AppendRecord, AppendTo, TypeOK, Private, calls
  <2>2. IsInjective(records')
    BY <1>0, <2>1, AppendDistinct
  <2>3. IsInjective(slice'[r])
    BY <2>1 DEF IsInjective
  <2> QED BY <1>0, <2>1, <2>2, <2>3 DEF Distinct
<1>2. CASE ReadRecords(r)
  <2>1. slice'[r] = records /\ UNCHANGED <<records, filtering>>
    BY <1>2 DEF ReadRecords, TypeOK, calls
  <2> QED BY <1>0, <2>1 DEF Distinct
<1>3. CASE Looks(r) \/ MarkConsumed(r)
  <2>1. UNCHANGED <<records, filtering, slice>>
    BY <1>3, LooksFrame DEF Looks, PassThrough, LookUp, Arrive, FindMatchingResponse,
       AlreadySeen, FoundRecord, Found, NoMatch, ReadConsumed, RoundTrip, NotRecorded,
       LogPair, ArchiveFails, MarkConsumed, Mark, calls, turn
  <2> QED BY <2>1 DEF Distinct
<1> QED BY <1>1, <1>2, <1>3, RequestCases

LEMMA DistinctJobStep == ASSUME TypeOK, HoldInv, Job PROVE Distinct'
<1> USE DEF HoldInv
<1>0. UNCHANGED slice
  BY JobFrame
<1>1. CASE Clear
  BY <1>0, <1>1 DEF Clear, Distinct, IsInjective
<1>2. CASE DecodeRecord
  <2>1. /\ UNCHANGED filtering
        /\ records' = records \/ \E i \in FreshIds : records' = Append(records, i)
    BY <1>2 DEF DecodeRecord
  <2>2. \A i \in FreshIds : IsInjective(Append(records, i))
    BY FreshIsFree, AppendDistinct DEF Distinct, TypeOK
  <2> QED BY <1>0, <2>1, <2>2 DEF Distinct
<1>3. CASE Truncate
  <2>1. UNCHANGED filtering
    BY <1>3 DEF Truncate
  <2>2. CASE records' = records
    BY <1>0, <2>1, <2>2 DEF Distinct
  <2>3. CASE records' # records
    <3>1. PICK n \in 0..Len(records) : records' = SubSeq(records, 1, n)
      BY <1>3, <2>3, TruncateCuts
    <3>2. IsInjective(records')
      BY <3>1, PrefixDistinct DEF Distinct, TypeOK
    <3> QED BY <1>0, <2>1, <3>2 DEF Distinct
  <2> QED BY <2>2, <2>3
<1>4. CASE ReadForFilter
  <2>1. records' = records /\ (filtering' = records \/ filtering' = filtering)
    BY <1>4 DEF ReadForFilter
  <2> QED BY <1>0, <2>1 DEF Distinct
<1>5. CASE FilterRecords
  <2>1. /\ filtering' = << >>
        /\ records' = FilterSlice(filtering, Ids \ OfTape(Head(control).tape))
    BY <1>5 DEF FilterRecords
  <2>2. IsInjective(records')
    BY <2>1, FilterDistinct DEF Distinct, TypeOK
  <2>3. IsInjective(filtering')
    BY <2>1 DEF IsInjective
  <2> QED BY <1>0, <2>2, <2>3 DEF Distinct
<1>6. CASE FilterConsumed
  BY <1>0, <1>6 DEF FilterConsumed, Distinct
<1> QED BY <1>1, <1>2, <1>3, <1>4, <1>5, <1>6 DEF Job

LEMMA PrivateRequestStep ==
  ASSUME TypeOK, HoldInv, NEW r \in Requests,
         RequestHandler(r) \/ RoundTrip(r) \/ ResponseHandler(r),
         NEW y \in Requests, pc'[y] = "append"
  PROVE  Private(y)'
<1> USE DEF HoldInv
<1>o. \A x \in Requests \ {r} :
        /\ pc'[x] = pc[x] /\ left'[x] = left[x] /\ found'[x] = found[x]
        /\ slice'[x] = slice[x] /\ marks'[x] = marks[x]
  BY OthersFrame
<1>c. UNCHANGED <<filtering, filteringMarks>>
  BY CallsFrame
<1>1. CASE ReadRecords(r)
  <2>1. PICK i \in FreshIds : found' = [found EXCEPT ![r] = i] /\ played' = played \ {i}
    BY <1>1 DEF ReadRecords
  <2>2. /\ found'[r] = i /\ slice'[r] = records /\ left' = left /\ marks' = marks
        /\ records' = records /\ consumed' = consumed
    BY <1>1, <2>1 DEF ReadRecords, TypeOK
  <2>3. CASE y = r
    BY <1>o, <1>c, <2>1, <2>2, <2>3, FreshIsFree DEF Private
  <2>4. CASE y # r
    <3>1. Private(y) /\ found'[y] = found[y] /\ found[y] # i
      BY <1>o, <2>4, FreshIsFree
    <3> QED BY <1>o, <1>c, <2>1, <2>2, <2>4, <3>1 DEF Private
  <2> QED BY <2>3, <2>4
<1>2. CASE ~ReadRecords(r)
  <2>1. y # r
    BY <1>2, RequestCases DEF Looks, PassThrough, LookUp, FindMatchingResponse, AlreadySeen,
       FoundRecord, Found, NoMatch, ReadConsumed, RoundTrip, NotRecorded, LogPair,
       ArchiveFails, Finish, MarkConsumed, Mark, AppendRecord, AppendTo, Goto, TypeOK
  <2>2. Private(y) /\ found'[y] = found[y]
    BY <1>o, <2>1
  (* What r gets to hold, it or the tape held before. *)
  <2>3. /\ found[y] \notin ToSet(records') /\ found[y] \notin consumed' /\ found[y] \notin played'
        /\ found[y] \notin ToSet(left'[r]) /\ found[y] \notin ToSet(slice'[r])
        /\ found[y] \notin marks'[r] /\ found'[r] # found[y]
    <3>f. found[y] # None
      BY <1>o, <2>1 DEF TypeOK
    <3>1. CASE AppendRecord(r)
      <4>1. /\ records' = Append(slice[r], found[r]) /\ slice'[r] = << >> /\ found'[r] = None
            /\ UNCHANGED <<consumed, played, left, marks>>
            /\ found[r] \in Ids /\ slice[r] \in Seq(Ids)
            /\ found[r] \notin ToSet(slice[r]) /\ IsInjective(slice[r])
        BY <3>1 DEF AppendRecord, AppendTo, TypeOK, Private, Distinct
      <4>2. ToSet(records') = ToSet(slice[r]) \cup {found[r]}
        BY <4>1, AppendDistinct
      <4>3. ToSet(slice'[r]) = {}
        BY <4>1 DEF ToSet
      <4> QED BY <2>1, <2>2, <3>f, <4>1, <4>2, <4>3 DEF Private
    <3>2. CASE MarkConsumed(r)
      <4>1. /\ consumed' = marks[r] \cup {found[r]}
            /\ played' = played \cup {found[r]} /\ found'[r] = None /\ marks'[r] = {}
            /\ UNCHANGED <<records, left, slice>>
        BY <3>2 DEF MarkConsumed, Mark, TypeOK
      <4> QED BY <2>1, <2>2, <3>f, <4>1 DEF Private
    <3>3. CASE Looks(r)
      <4>1. UNCHANGED <<records, consumed, played>>
        BY <3>3, LooksFrame
      <4>2. CASE FindMatchingResponse(r)
        <5>1. /\ ToSet(left'[r]) \subseteq ToSet(records)
              /\ UNCHANGED <<slice, marks, found>>
          <6>1. ToSet(Matches(ask[r])) \subseteq ToSet(records)
            BY FilterSliceElements DEF Matches, TypeOK
          <6> QED BY <4>2, <6>1 DEF FindMatchingResponse, TypeOK
        <5> QED BY <2>1, <2>2, <4>1, <5>1 DEF Private
      <4>3. CASE AlreadySeen(r)
        <5>1. ToSet(left'[r]) \subseteq ToSet(left[r]) /\ UNCHANGED <<slice, marks, found>>
          <6>1. left[r] \in Seq(Ids) /\ left[r] # << >> /\ left'[r] = Tail(left[r])
            BY <4>3 DEF AlreadySeen, TypeOK
          <6>2. ToSet(Tail(left[r])) \subseteq ToSet(left[r])
            BY <6>1, TailElements
          <6> QED BY <4>3, <6>1, <6>2 DEF AlreadySeen
        <5> QED BY <2>1, <2>2, <4>1, <5>1 DEF Private
      <4>4. CASE FoundRecord(r)
        <5>1. /\ found'[r] = Head(left[r]) /\ left'[r] = << >>
              /\ UNCHANGED <<slice, marks>> /\ Head(left[r]) \in ToSet(left[r])
          BY <4>4, HeadElement DEF FoundRecord, Found, TypeOK
        <5>2. ToSet(left'[r]) = {}
          BY <5>1 DEF ToSet
        <5> QED BY <2>1, <2>2, <4>1, <5>1, <5>2 DEF Private
      <4>5. CASE \/ PassThrough(r) \/ LookUp(r) \/ NoMatch(r) \/ RoundTrip(r)
                 \/ NotRecorded(r) \/ LogPair(r) \/ ArchiveFails(r)
        <5>1. UNCHANGED <<left, slice, marks, found>>
          BY <4>5 DEF PassThrough, LookUp, Arrive, NoMatch, RoundTrip, NotRecorded, LogPair,
             ArchiveFails, turn
        <5> QED BY <2>1, <2>2, <4>1, <5>1 DEF Private
      <4>6. CASE ReadConsumed(r)
        <5>1. marks'[r] = consumed /\ UNCHANGED <<left, slice, found>>
          BY <4>6 DEF ReadConsumed, TypeOK
        <5> QED BY <2>1, <2>2, <4>1, <5>1 DEF Private
      <4> QED BY <3>3, <4>2, <4>3, <4>4, <4>5, <4>6 DEF Looks
    <3> QED BY <1>2, <3>1, <3>2, <3>3, RequestCases
  <2> QED BY <1>o, <1>c, <2>1, <2>2, <2>3 DEF Private
<1> QED BY <1>1, <1>2

(* The slices after a job hold what they held, and at most a fresh record. *)
LEMMA JobHolds ==
  ASSUME TypeOK, Job
  PROVE  /\ filteringMarks' \subseteq filteringMarks \cup consumed
         /\ consumed' \subseteq consumed \cup filteringMarks
         /\ played' \subseteq played
         /\ ToSet(filtering') \subseteq ToSet(filtering) \cup ToSet(records)
         /\ ToSet(records') \subseteq ToSet(records) \cup ToSet(filtering) \cup FreshIds
<1>e. ToSet(<< >>) = {}
  BY DEF ToSet
<1>1. CASE Clear
  BY <1>e, <1>1 DEF Clear
<1>2. CASE DecodeRecord
  <2>1. /\ UNCHANGED <<filtering, filteringMarks, consumed>> /\ played' \subseteq played
        /\ records' = records \/ \E i \in FreshIds : records' = Append(records, i)
    BY <1>2 DEF DecodeRecord
  <2>2. \A i \in FreshIds : ToSet(Append(records, i)) \subseteq ToSet(records) \cup FreshIds
    BY FreshIsFree DEF TypeOK, ToSet
  <2> QED BY <2>1, <2>2
<1>3. CASE Truncate
  <2>1. UNCHANGED <<filtering, filteringMarks, consumed, played>>
    BY <1>3 DEF Truncate
  <2>2. \A n \in 0..Len(records) : ToSet(SubSeq(records, 1, n)) \subseteq ToSet(records)
    BY DEF TypeOK, ToSet
  <2> QED BY <1>3, <2>1, <2>2, TruncateCuts
<1>4. CASE ReadForFilter
  BY <1>4 DEF ReadForFilter
<1>5. CASE FilterRecords
  <2>1. /\ filtering' = << >> /\ UNCHANGED <<filteringMarks, consumed, played>>
        /\ records' = FilterSlice(filtering, Ids \ OfTape(Head(control).tape))
    BY <1>5 DEF FilterRecords
  <2>2. ToSet(records') \subseteq ToSet(filtering)
    BY <2>1, FilterSliceElements DEF TypeOK
  <2> QED BY <1>e, <2>1, <2>2
<1>6. CASE FilterConsumed
  BY <1>6 DEF FilterConsumed
<1> QED BY <1>1, <1>2, <1>3, <1>4, <1>5, <1>6 DEF Job

LEMMA HoldStep == ASSUME TypeOK, HoldInv, [Next]_vars PROVE HoldInv'
<1>1. ASSUME NEW r \in Requests, RequestHandler(r) \/ RoundTrip(r) \/ ResponseHandler(r)
      PROVE  HoldInv'
  <2>1. Distinct'
    BY <1>1, DistinctRequestStep
  <2>2. ASSUME NEW y \in Requests, pc'[y] = "append" PROVE Private(y)'
    BY <1>1, <2>2, PrivateRequestStep
  <2> QED BY <2>1, <2>2 DEF HoldInv
<1>2. CASE TapeCall
  <2>1. UNCHANGED <<records, consumed, filtering, filteringMarks, pc, left, found, slice,
                   marks, played>>
    BY <1>2, TapeCallCalls DEF Call, turn
  <2> QED BY <2>1 DEF HoldInv, Distinct, Private
<1>3. CASE Job
  <2>1. UNCHANGED <<pc, left, found, slice, marks>>
    BY <1>3, JobFrame
  <2>2. Distinct'
    BY <1>3, DistinctJobStep
  <2>3. ASSUME NEW r \in Requests, pc[r] = "append" PROVE Private(r)'
    <3>1. Private(r)
      BY <2>3 DEF HoldInv
    <3>2. found[r] \notin FreshIds
      BY FreshIsFree
    <3> QED BY <1>3, <2>1, <3>1, <3>2, JobHolds DEF Private
  <2> QED BY <2>1, <2>2, <2>3 DEF HoldInv
<1>4. CASE Launch
  BY <1>4 DEF Launch, HoldInv, Distinct, IsInjective
<1>5. CASE UNCHANGED vars
  BY <1>5 DEF vars, deck, calls, turn, history, HoldInv, Distinct, Private
<1> QED BY <1>1, <1>2, <1>3, <1>4, <1>5, NextCases

LEMMA InitHold == Init => HoldInv
BY DEF Init, HoldInv, Distinct, IsInjective

-----------------------------------------------------------------------------
(* What is replayed.                                                       *)

Earlier(x, y) == \E i, j \in DOMAIN records : i < j /\ records[i] = x /\ records[j] = y

(* x is to be replayed before y.                                           *)
Ahead(x, y) == Earlier(x, y) /\ heap[x] = heap[y]

(* The records of the tape that were replayed are those that are marked.   *)
MarksOk == consumed \subseteq played /\ played \cap ToSet(records) \subseteq consumed

InOrder == \A x, y \in Ids : Ahead(x, y) /\ y \in played => x \in played

(* A search looks at the records in their order, and has passed none that  *)
(* is yet to be replayed.                                                  *)
SearchOk(r) ==
  /\ \A p, q \in DOMAIN left[r] : p < q => ~Earlier(left[r][q], left[r][p])
  /\ \A x, y \in Ids : Ahead(x, y) /\ y \in ToSet(left[r]) => x \in ToSet(left[r]) \cup played

(* The record it has found is the next one.                                *)
Holding == {"found", "mark"}
MarkOk(r) == \A x \in Ids : Ahead(x, found[r]) => x \in played

MatchedOk(r) ==
  /\ pc[r] = "search" =>
       matched[r] \subseteq ToSet(records) /\ matched[r] \subseteq ToSet(left[r]) \cup played
  /\ pc[r] = "respond" /\ reply[r] = "blocked" =>
       matched[r] \subseteq ToSet(records) /\ matched[r] \subseteq played

ReplayInv ==
  ~lost =>
    /\ MarksOk /\ InOrder
    /\ \A r \in Requests : /\ pc[r] = "search" => SearchOk(r)
                           /\ pc[r] \in Holding => MarkOk(r)
                           /\ MatchedOk(r)

(* What matched a request is of no account once a tape call is under way.  *)
Quiet == control # << >> => \A r \in Requests : matched[r] = {}

LEMMA QuietStep == ASSUME TypeOK, Quiet, [Next]_vars PROVE Quiet'
<1>1. ASSUME NEW r \in Requests, RequestHandler(r) \/ RoundTrip(r) \/ ResponseHandler(r)
      PROVE  Quiet'
  <2>1. UNCHANGED control
    BY <1>1, CallsFrame
  <2>2. ASSUME control # << >> PROVE matched'[r] = {}
    <3> USE DEF Quiet, TypeOK
    <3>1. CASE FindMatchingResponse(r)
      BY <2>2, <3>1 DEF FindMatchingResponse
    <3>2. CASE NotRecorded(r) \/ ArchiveFails(r) \/ AppendRecord(r)
      BY <2>2, <3>2 DEF NotRecorded, ArchiveFails, AppendRecord, AppendTo, Finish
    <3>3. CASE FoundRecord(r) \/ LogPair(r)
      BY <2>2, <3>3 DEF FoundRecord, Found, LogPair
    <3>4. CASE UNCHANGED matched
      BY <2>2, <3>4
    <3> QED BY <1>1, <3>1, <3>2, <3>3, <3>4 DEF RequestHandler, ResponseHandler, PassThrough,
               LookUp, Arrive, RoundTrip, AlreadySeen, NoMatch, ReadConsumed, MarkConsumed,
               Mark, ReadRecords, history
  <2> QED BY <1>1, <2>1, <2>2, OthersFrame DEF Quiet
<1>2. ASSUME NEW newMode \in Modes, NEW work \in Seq(Work), Call(newMode, work)
      PROVE  Quiet'
  BY <1>2 DEF Call, Quiet
<1>3. CASE Job
  BY <1>3, JobFrame DEF Quiet
<1>4. CASE Launch
  BY <1>4 DEF Launch, Quiet
<1>5. CASE UNCHANGED vars
  BY <1>5 DEF vars, calls, history, Quiet
<1> QED BY <1>1, <1>2, <1>3, <1>4, <1>5, NextCases, TapeCallCalls

LEMMA EarlierOnTape ==
  ASSUME NEW x, NEW y, Earlier(x, y)
  PROVE  x \in ToSet(records) /\ y \in ToSet(records)
BY DEF Earlier, ToSet

(* Nobody is about to replay y, nor has replayed it.                       *)
Unseen(y) ==
  /\ y \notin played
  /\ \A r \in Requests : y \notin ToSet(left[r]) /\ (pc[r] \in Holding => y # found[r])

(* A step that keeps the tape and its order but for records at its end.    *)
Keeps ==
  /\ ~lost
  /\ played \cap ToSet(records) \subseteq played'
  /\ control = << >> => ToSet(records) \subseteq ToSet(records')
  /\ \A x, y \in Ids :
       Earlier(x, y)' =>
         Unseen(y)' \/ (Earlier(x, y) /\ heap'[x] = heap[x] /\ heap'[y] = heap[y])

LEMMA SameRecords ==
  ASSUME ~lost, UNCHANGED records, played \cap ToSet(records) \subseteq played',
         \A x \in ToSet(records) : heap'[x] = heap[x]
  PROVE  Keeps
<1>1. ASSUME NEW x \in Ids, NEW y \in Ids, Earlier(x, y)'
      PROVE  Earlier(x, y) /\ heap'[x] = heap[x] /\ heap'[y] = heap[y]
  <2>1. Earlier(x, y)
    BY <1>1 DEF Earlier
  <2> QED BY <2>1, EarlierOnTape
<1>2. ToSet(records) \subseteq ToSet(records')
  OBVIOUS
<1> QED BY <1>1, <1>2 DEF Keeps

LEMMA OneMore ==
  ASSUME TypeOK, ~lost, NEW z \in Ids, records' = Append(records, z), Unseen(z)',
         played \cap ToSet(records) \subseteq played',
         \A x \in ToSet(records) : heap'[x] = heap[x]
  PROVE  Keeps
<1>0. /\ DOMAIN records = 1..Len(records) /\ DOMAIN records' = 1..(Len(records) + 1)
      /\ Len(records) \in Nat /\ records'[Len(records) + 1] = z
      /\ \A i \in 1..Len(records) : records'[i] = records[i]
  BY DEF TypeOK
<1>1. ASSUME NEW x \in Ids, NEW y \in Ids, Earlier(x, y)', y # z
      PROVE  Earlier(x, y) /\ heap'[x] = heap[x] /\ heap'[y] = heap[y]
  <2>1. PICK i \in DOMAIN records', j \in DOMAIN records' :
          i < j /\ records'[i] = x /\ records'[j] = y
    BY <1>1 DEF Earlier
  <2>2. i \in DOMAIN records /\ j \in DOMAIN records
    BY <1>0, <1>1, <2>1
  <2>3. Earlier(x, y)
    BY <1>0, <2>1, <2>2 DEF Earlier
  <2> QED BY <2>3, EarlierOnTape
<1>2. ToSet(records) \subseteq ToSet(records')
  BY <1>0 DEF ToSet
<1> QED BY <1>1, <1>2 DEF Keeps

(* Filtering keeps the order.                                              *)
LEMMA FilterKeepsOrder ==
  ASSUME TypeOK, ~lost, NEW keep, records' = FilterSlice(records, keep), control # << >>,
         UNCHANGED <<heap, played>>
  PROVE  Keeps
<1>1. PICK from : KeptFrom(records', records, Len(records), keep, from)
  BY FilterSliceKeeps DEF TypeOK
<1>2. /\ DOMAIN records' = 1..Len(records') /\ DOMAIN records = 1..Len(records)
      /\ Len(records') \in Nat /\ Len(records) \in Nat
  BY FilterSliceKeeps, LenProperties DEF TypeOK
<1>3. ASSUME NEW x \in Ids, NEW y \in Ids, Earlier(x, y)' PROVE Earlier(x, y)
  <2>1. PICK i \in DOMAIN records', j \in DOMAIN records' :
          i < j /\ records'[i] = x /\ records'[j] = y
    BY <1>3 DEF Earlier
  <2>2. /\ from[i] \in DOMAIN records /\ from[j] \in DOMAIN records /\ from[i] < from[j]
        /\ records[from[i]] = x /\ records[from[j]] = y
    BY <1>1, <1>2, <2>1 DEF KeptFrom
  <2> QED BY <2>2 DEF Earlier
<1> QED BY <1>3 DEF Keeps

LEMMA KeepsRequestStep ==
  ASSUME TypeOK, HoldInv, NEW r \in Requests,
         RequestHandler(r) \/ RoundTrip(r) \/ ResponseHandler(r), ~lost'
  PROVE  Keeps
<1>1. CASE Looks(r)
  BY <1>1, LooksFrame, SameRecords
<1>2. CASE MarkConsumed(r)
  <2>1. ~lost /\ played \subseteq played' /\ UNCHANGED <<records, heap>>
    BY <1>2 DEF MarkConsumed, Mark
  <2> QED BY <2>1, SameRecords
<1>3. CASE ReadRecords(r)
  <2>1. PICK i \in FreshIds : heap' = [heap EXCEPT ![i] = ask[r]] /\ played' = played \ {i}
    BY <1>3 DEF ReadRecords
  <2>2. ~lost /\ UNCHANGED records
    BY <1>3 DEF ReadRecords
  <2>3. i \notin ToSet(records) /\ ToSet(records) \subseteq Ids
    BY FreshIsFree DEF TypeOK, ToSet
  <2>4. \A x \in ToSet(records) : heap'[x] = heap[x]
    BY <2>1, <2>3 DEF TypeOK
  <2> QED BY <2>1, <2>2, <2>3, <2>4, SameRecords
<1>4. CASE AppendRecord(r)
  <2>1. /\ pc[r] = "append" /\ records' = Append(slice[r], found[r])
        /\ lost' = (lost \/ records # slice[r])
        /\ UNCHANGED <<heap, left, played>> /\ pc' = [pc EXCEPT ![r] = "idle"]
        /\ found' = [found EXCEPT ![r] = None]
    BY <1>4 DEF AppendRecord, AppendTo, Finish, Goto
  <2>2. ~lost /\ records' = Append(records, found[r]) /\ found[r] \in Ids
    BY <2>1 DEF TypeOK
  <2>3. Private(r)
    BY <2>1 DEF HoldInv
  <2>p. PICK z : z = found[r]
    OBVIOUS
  <2>4. Unseen(z)'
    <3>1. z \notin played' /\ \A x \in Requests : z \notin ToSet(left'[x])
      BY <2>1, <2>3, <2>p DEF Private
    <3>2. ASSUME NEW x \in Requests, pc'[x] \in Holding PROVE z # found'[x]
      <4>1. x # r /\ found'[x] = found[x]
        BY <2>1, <3>2 DEF TypeOK, Holding
      <4> QED BY <2>3, <2>p, <4>1 DEF Private
    <3> QED BY <3>1, <3>2 DEF Unseen
  <2> QED BY <2>1, <2>2, <2>p, <2>4, OneMore
<1> QED BY <1>1, <1>2, <1>3, <1>4, RequestCases

LEMMA KeepsJobStep ==
  ASSUME TypeOK, MarksOk, ~lost, Job, ~lost', ~Clear
  PROVE  Keeps
<1>0. /\ control # << >> /\ UNCHANGED <<pc, left, found>>
  BY JobFrame
<1>1. CASE DecodeRecord
  <2>1. PICK i \in FreshIds : /\ heap' = [heap EXCEPT ![i] = Head(control).ask]
                             /\ played' = played \ {i} /\ records' = Append(records, i)
    BY <1>1 DEF DecodeRecord
  <2>2. i \in Ids /\ i \notin ToSet(records) /\ ToSet(records) \subseteq Ids
    BY FreshIsFree DEF TypeOK, ToSet
  <2>3. \A x \in ToSet(records) : heap'[x] = heap[x]
    BY <2>1, <2>2 DEF TypeOK
  <2>4. Unseen(i)'
    BY <1>0, <2>1, FreshIsFree DEF Unseen
  <2> QED BY <2>1, <2>2, <2>3, <2>4, OneMore
<1>2. CASE Truncate
  <2>1. UNCHANGED <<heap, played>>
    BY <1>2 DEF Truncate
  <2>2. UNCHANGED records
    BY <1>2, TruncateCuts
  <2> QED BY <2>1, <2>2, SameRecords
<1>3. CASE ReadForFilter
  <2>1. UNCHANGED <<records, heap, played>>
    BY <1>3 DEF ReadForFilter
  <2> QED BY <2>1, SameRecords
<1>4. CASE FilterRecords
  <2>1. /\ records' = FilterSlice(filtering, Ids \ OfTape(Head(control).tape))
        /\ lost' = (lost \/ records # filtering) /\ UNCHANGED <<heap, played>>
    BY <1>4 DEF FilterRecords
  <2>2. records' = FilterSlice(records, Ids \ OfTape(Head(control).tape))
    BY <2>1
  <2> QED BY <1>0, <2>1, <2>2, FilterKeepsOrder
<1>5. CASE FilterConsumed
  <2>1. UNCHANGED <<records, heap>>
    BY <1>5 DEF FilterConsumed
  <2>2. PICK dropped : /\ played' = played \ dropped
                       /\ lost' = (lost \/ consumed # filteringMarks
                                        \/ dropped \cap consumed \cap ToSet(records) # {})
    BY <1>5 DEF FilterConsumed
  <2>3. dropped \cap consumed \cap ToSet(records) = {}
    BY <2>2
  <2>4. played \cap ToSet(records) \subseteq played'
    BY <2>2, <2>3 DEF MarksOk
  <2> QED BY <2>1, <2>4, SameRecords
<1> QED BY <1>1, <1>2, <1>3, <1>4, <1>5 DEF Job

(* What is known of a request that does nothing stays true.                *)
LEMMA OthersReplay ==
  ASSUME TypeOK, ReplayInv, Keeps, NEW r \in Requests,
         pc'[r] = pc[r], left'[r] = left[r], found'[r] = found[r]
  PROVE  /\ pc'[r] = "search" => SearchOk(r)'
         /\ pc'[r] \in Holding => MarkOk(r)'
<1>1. ASSUME pc'[r] = "search" PROVE SearchOk(r)'
  <2>1. SearchOk(r) /\ left[r] \in Seq(Ids)
    BY <1>1 DEF ReplayInv, Keeps, TypeOK
  <2>2. ASSUME NEW p \in DOMAIN left[r], NEW q \in DOMAIN left[r], p < q,
               NEW x \in Ids, NEW y \in Ids, x = left[r][q], y = left[r][p]
        PROVE  ~Earlier(x, y)'
    <3>1. ~Earlier(x, y) /\ y \in ToSet(left'[r])
      BY <2>1, <2>2 DEF SearchOk, ToSet
    <3> QED BY <3>1 DEF Keeps, Unseen
  <2>3. \A p, q \in DOMAIN left'[r] : p < q => ~Earlier(left[r][q], left[r][p])'
    <3>1. SUFFICES ASSUME NEW p \in DOMAIN left[r], NEW q \in DOMAIN left[r], p < q
                   PROVE  ~Earlier(left[r][q], left[r][p])'
      OBVIOUS
    <3>2. left[r][p] \in Ids /\ left[r][q] \in Ids
      BY <2>1, ElementOfSeq, LenProperties
    <3>3. PICK x \in Ids, y \in Ids : x = left[r][q] /\ y = left[r][p]
      BY <3>2
    <3>4. ~Earlier(x, y)'
      BY <2>2, <3>1, <3>3
    <3> QED BY <3>3, <3>4 DEF Earlier
  <2>4. ASSUME NEW x \in Ids, NEW y \in Ids, Ahead(x, y)', y \in ToSet(left'[r])
        PROVE  x \in ToSet(left'[r]) \cup played'
    <3>1. Ahead(x, y)
      BY <2>4 DEF Keeps, Unseen, Ahead
    <3>2. x \in ToSet(left[r]) \cup played /\ x \in ToSet(records)
      BY <2>1, <2>4, <3>1, EarlierOnTape DEF SearchOk, Ahead
    <3> QED BY <3>2 DEF Keeps
  <2> QED BY <2>3, <2>4 DEF SearchOk
<1>2. ASSUME pc'[r] \in Holding PROVE MarkOk(r)'
  <2>1. MarkOk(r) /\ found[r] \in Ids
    BY <1>2 DEF ReplayInv, Keeps, TypeOK, Holding
  <2>p. PICK y \in Ids : y = found[r]
    BY <2>1
  <2>2. ASSUME NEW x \in Ids, Ahead(x, y)' PROVE x \in played'
    <3>1. Ahead(x, y)
      BY <1>2, <2>p, <2>2 DEF Keeps, Unseen, Ahead
    <3>2. x \in played /\ x \in ToSet(records)
      BY <2>1, <2>p, <3>1, EarlierOnTape DEF MarkOk, Ahead
    <3> QED BY <3>2 DEF Keeps
  <2> QED BY <2>2, <2>p DEF MarkOk
<1> QED BY <1>1, <1>2

(* A request that has just begun its search.                               *)
LEMMA SearchStarts ==
  ASSUME TypeOK, HoldInv, NEW r \in Requests, FindMatchingResponse(r), ~lost
  PROVE  SearchOk(r)' /\ MatchedOk(r)'
<1>1. PICK a : /\ left' = [left EXCEPT ![r] = Matches(a)]
               /\ matched' = [matched EXCEPT ![r] =
                                IF control = << >> THEN ToSet(Matches(a)) ELSE {}]
  BY DEF FindMatchingResponse
<1>2. UNCHANGED <<records, heap, played>> /\ pc'[r] = "search"
  BY DEF FindMatchingResponse, deck, Goto, TypeOK
<1>p. PICK out : out = Matches(a)
  OBVIOUS
<1>3. left'[r] = out /\ matched'[r] \subseteq ToSet(out)
  BY <1>1, <1>p DEF TypeOK
<1>k. PICK keep : keep = {i \in Ids : heap[i] = a}
  OBVIOUS
<1>m. out = FilterSlice(records, keep)
  BY <1>p, <1>k DEF Matches
<1>4. /\ out \in Seq(Ids) /\ ToSet(out) = ToSet(records) \cap keep
  BY <1>m, FilterSliceElements DEF TypeOK
<1>5. PICK from : KeptFrom(out, records, Len(records), keep, from)
  BY <1>m, FilterSliceKeeps DEF TypeOK
<1>6. /\ DOMAIN out = 1..Len(out) /\ DOMAIN records = 1..Len(records)
      /\ Len(out) \in Nat /\ Len(records) \in Nat
  BY <1>4, LenProperties DEF TypeOK
<1>7. ASSUME NEW p \in DOMAIN out, NEW q \in DOMAIN out, p < q
      PROVE  ~Earlier(out[q], out[p])
  <2>1. SUFFICES ASSUME NEW i \in DOMAIN records, NEW j \in DOMAIN records, i < j,
                        records[i] = out[q], records[j] = out[p]
                 PROVE  FALSE
    BY DEF Earlier
  <2>2. /\ from[p] \in DOMAIN records /\ from[q] \in DOMAIN records /\ from[p] < from[q]
        /\ records[from[p]] = out[p] /\ records[from[q]] = out[q]
    BY <1>5, <1>6, <1>7 DEF KeptFrom
  <2>3. i = from[q] /\ j = from[p]
    BY <2>1, <2>2 DEF HoldInv, Distinct, IsInjective
  <2> QED BY <1>6, <2>1, <2>2, <2>3
<1>8. ASSUME NEW x \in Ids, NEW y \in Ids, Ahead(x, y), y \in ToSet(out)
      PROVE  x \in ToSet(out)
  <2>1. x \in ToSet(records) /\ heap[x] = heap[y] /\ y \in keep
    BY <1>4, <1>8, EarlierOnTape DEF Ahead
  <2> QED BY <1>4, <1>k, <2>1
<1>9. SearchOk(r)'
  <2>1. \A p, q \in DOMAIN left'[r] : p < q => ~Earlier(left[r][q], left[r][p])'
    BY <1>2, <1>3, <1>7 DEF Earlier
  <2>2. \A x, y \in Ids : Ahead(x, y)' /\ y \in ToSet(left'[r])
          => x \in ToSet(left'[r]) \cup played'
    BY <1>2, <1>3, <1>8 DEF Earlier, Ahead
  <2> QED BY <2>1, <2>2 DEF SearchOk
<1>10. MatchedOk(r)'
  BY <1>2, <1>3, <1>4 DEF MatchedOk
<1> QED BY <1>9, <1>10

(* One that has passed a record which was replayed.                        *)
LEMMA SearchGoesOn ==
  ASSUME TypeOK, ReplayInv, NEW r \in Requests, AlreadySeen(r), ~lost
  PROVE  SearchOk(r)' /\ MatchedOk(r)'
<1>1. /\ left[r] \in Seq(Ids) /\ left[r] # << >> /\ left'[r] = Tail(left[r])
      /\ pc[r] = "search" /\ UNCHANGED <<pc, records, heap, played, matched>>
      /\ Head(left[r]) \in consumed
  BY DEF AlreadySeen, deck, history, TypeOK
<1>2. SearchOk(r) /\ MatchedOk(r) /\ Head(left[r]) \in played
  BY <1>1 DEF ReplayInv, MarksOk
<1>p. PICK seq, out : seq \in Seq(Ids) /\ seq = left[r] /\ out = Tail(seq)
  BY <1>1
<1>3. /\ \A p \in DOMAIN out : p + 1 \in DOMAIN seq /\ out[p] = seq[p + 1]
      /\ ToSet(out) \subseteq ToSet(seq) /\ ToSet(seq) = ToSet(out) \cup {Head(seq)}
  BY <1>1, <1>p, TailElements
<1>d. DOMAIN out \subseteq Int
  <2>1. out \in Seq(Ids)
    BY <1>1, <1>p, HeadTailProperties
  <2> QED BY <2>1, LenProperties
<1>4. ASSUME NEW p \in DOMAIN out, NEW q \in DOMAIN out, p < q
      PROVE  ~Earlier(out[q], out[p])
  <2>1. p + 1 < q + 1 /\ p + 1 \in DOMAIN seq /\ q + 1 \in DOMAIN seq
    BY <1>3, <1>4, <1>d
  <2>2. ~Earlier(seq[q + 1], seq[p + 1])
    BY <1>2, <1>p, <2>1 DEF SearchOk
  <2> QED BY <1>3, <2>2
<1>5. SearchOk(r)'
  <2>1. \A p, q \in DOMAIN left'[r] : p < q => ~Earlier(left[r][q], left[r][p])'
    BY <1>1, <1>p, <1>4 DEF Earlier
  <2>2. \A x, y \in Ids : Ahead(x, y)' /\ y \in ToSet(left'[r])
          => x \in ToSet(left'[r]) \cup played'
    BY <1>1, <1>2, <1>3, <1>p DEF Earlier, Ahead, SearchOk
  <2> QED BY <2>1, <2>2 DEF SearchOk
<1>6. MatchedOk(r)'
  BY <1>1, <1>2, <1>3, <1>p DEF MatchedOk
<1> QED BY <1>5, <1>6

(* One that has found its record.                                          *)
LEMMA SearchEnds ==
  ASSUME TypeOK, HoldInv, ReplayInv, NEW r \in Requests, FoundRecord(r), ~lost
  PROVE  MarkOk(r)'
<1>1. /\ left[r] \in Seq(Ids) /\ left[r] # << >> /\ found'[r] = Head(left[r])
      /\ pc[r] = "search" /\ UNCHANGED <<records, heap, played>>
  BY DEF FoundRecord, Found, deck, TypeOK
<1>2. SearchOk(r)
  BY <1>1 DEF ReplayInv
<1>p. PICK seq, y : seq \in Seq(Ids) /\ seq = left[r] /\ y = Head(seq)
  BY <1>1
<1>3. y \in ToSet(seq) /\ 1 \in DOMAIN seq /\ seq[1] = y /\ y \in Ids
  BY <1>1, <1>p, HeadElement
<1>4. ASSUME NEW x \in Ids, Ahead(x, y) PROVE x \in played
  <2>1. x # y
    <3>1. PICK i \in DOMAIN records, j \in DOMAIN records :
            i < j /\ records[i] = x /\ records[j] = y
      BY <1>4 DEF Ahead, Earlier
    <3>2. i # j
      BY <3>1 DEF TypeOK
    <3> QED BY <3>1, <3>2 DEF HoldInv, Distinct, IsInjective
  <2>2. x \notin ToSet(seq)
    <3>1. SUFFICES ASSUME NEW q \in DOMAIN seq, seq[q] = x PROVE FALSE
      BY DEF ToSet
    <3>2. 1 < q
      BY <1>3, <1>p, <2>1, <3>1, LenProperties
    <3> QED BY <1>2, <1>3, <1>4, <1>p, <3>1, <3>2 DEF SearchOk, Ahead
  <2> QED BY <1>2, <1>3, <1>4, <1>p, <2>2 DEF SearchOk
<1> QED BY <1>1, <1>4, <1>p DEF MarkOk, Ahead, Earlier

(* What is known of the request that takes a step.                         *)
LEMMA OwnReplay ==
  ASSUME TypeOK, HoldInv, ReplayInv, Keeps, NEW r \in Requests,
         RequestHandler(r) \/ RoundTrip(r) \/ ResponseHandler(r)
  PROVE  /\ pc'[r] = "search" => SearchOk(r)'
         /\ pc'[r] \in Holding => MarkOk(r)'
         /\ MatchedOk(r)'
<1>0. ~lost
  BY DEF Keeps
<1>1. CASE FindMatchingResponse(r)
  <2>1. pc'[r] = "search"
    BY <1>1 DEF FindMatchingResponse, Goto, TypeOK
  <2> QED BY <1>0, <1>1, <2>1, SearchStarts DEF Holding
<1>2. CASE AlreadySeen(r)
  <2>1. pc'[r] = "search"
    BY <1>2 DEF AlreadySeen, TypeOK
  <2> QED BY <1>0, <1>2, <2>1, SearchGoesOn DEF Holding
<1>3. CASE FoundRecord(r)
  <2>1. pc'[r] = "found"
    BY <1>3 DEF FoundRecord, Found, Goto, TypeOK
  <2>2. MatchedOk(r)'
    BY <2>1 DEF MatchedOk
  <2> QED BY <1>0, <1>3, <2>1, <2>2, SearchEnds
<1>4. CASE NoMatch(r)
  <2>1. /\ pc[r] = "search" /\ pc'[r] = "respond" /\ left[r] = << >>
        /\ UNCHANGED <<records, played, matched>>
    BY <1>4 DEF NoMatch, Goto, TypeOK, deck, history
  <2>2. MatchedOk(r)
    BY <1>0 DEF ReplayInv
  <2>3. ToSet(left[r]) = {}
    BY <2>1 DEF ToSet
  <2>4. MatchedOk(r)'
    BY <2>1, <2>2, <2>3 DEF MatchedOk
  <2> QED BY <2>1, <2>4 DEF Holding
<1>6. CASE ReadConsumed(r)
  <2>1. /\ pc[r] = "found" /\ pc'[r] = "mark" /\ UNCHANGED <<records, heap, played, found>>
    BY <1>6 DEF ReadConsumed, Goto, TypeOK, deck, history
  <2>2. MarkOk(r)
    BY <1>0, <2>1 DEF ReplayInv, Holding
  <2>3. MarkOk(r)'
    BY <2>1, <2>2 DEF MarkOk, Ahead, Earlier
  <2>4. MatchedOk(r)'
    BY <2>1 DEF MatchedOk
  <2> QED BY <2>1, <2>3, <2>4
<1>5. CASE \/ PassThrough(r) \/ LookUp(r)
           \/ MarkConsumed(r) \/ RoundTrip(r) \/ NotRecorded(r)
           \/ LogPair(r) \/ ArchiveFails(r) \/ ReadRecords(r) \/ AppendRecord(r)
  <2>1. /\ pc'[r] \in {"out", "match", "respond", "idle", "archive", "append"}
        /\ pc'[r] = "respond" => reply'[r] # "blocked"
    <3>1. CASE \/ PassThrough(r) \/ LookUp(r) \/ MarkConsumed(r) \/ LogPair(r)
               \/ ReadRecords(r)
      BY <3>1 DEF PassThrough, LookUp, MarkConsumed, Mark, LogPair, ReadRecords, Goto, TypeOK
    <3>2. CASE NotRecorded(r) \/ ArchiveFails(r) \/ AppendRecord(r)
      BY <3>2 DEF NotRecorded, ArchiveFails, AppendRecord, AppendTo, Finish, Goto, TypeOK
    <3>3. CASE RoundTrip(r)
      <4>1. PICK answer \in {"answer", None} : reply' = [reply EXCEPT ![r] = answer]
        BY <3>3 DEF RoundTrip
      <4>2. reply'[r] # "blocked"
        BY <4>1, RecorderAssumption DEF TypeOK
      <4> QED BY <3>3, <4>2 DEF RoundTrip, Goto, TypeOK
    <3> QED BY <1>5, <3>1, <3>2, <3>3
  <2>2. MatchedOk(r)'
    BY <2>1 DEF MatchedOk
  <2> QED BY <2>1, <2>2 DEF Holding
<1> QED BY <1>1, <1>2, <1>3, <1>4, <1>5, <1>6 DEF RequestHandler, ResponseHandler

LEMMA MatchedFrame ==
  ASSUME ReplayInv, Quiet, Keeps, NEW r \in Requests,
         pc'[r] = pc[r], left'[r] = left[r], reply'[r] = reply[r], matched'[r] = matched[r]
  PROVE  MatchedOk(r)'
<1>1. MatchedOk(r)
  BY DEF ReplayInv, Keeps
<1>2. CASE control = << >>
  BY <1>1, <1>2 DEF MatchedOk, Keeps
<1>3. CASE control # << >>
  BY <1>3 DEF MatchedOk, Quiet
<1> QED BY <1>2, <1>3

LEMMA MarksRequestStep ==
  ASSUME TypeOK, HoldInv, MarksOk, NEW r \in Requests,
         RequestHandler(r) \/ RoundTrip(r) \/ ResponseHandler(r), ~lost'
  PROVE  MarksOk'
<1>1. CASE Looks(r)
  BY <1>1, LooksFrame DEF MarksOk
<1>2. CASE MarkConsumed(r)
  <2>2. /\ lost' = (lost \/ consumed # marks[r]) /\ UNCHANGED records
        /\ played' = played \cup {found[r]} /\ consumed' = marks[r] \cup {found[r]}
    BY <1>2 DEF MarkConsumed, Mark
  <2>3. consumed' = consumed \cup {found[r]}
    BY <2>2
  <2> QED BY <2>2, <2>3 DEF MarksOk
<1>3. CASE ReadRecords(r)
  <2>1. PICK i \in FreshIds : played' = played \ {i}
    BY <1>3 DEF ReadRecords
  <2>2. UNCHANGED <<records, consumed>>
    BY <1>3 DEF ReadRecords
  <2> QED BY <2>1, <2>2, FreshIsFree DEF MarksOk
<1>4. CASE AppendRecord(r)
  <2>1. /\ records' = Append(slice[r], found[r]) /\ lost' = (lost \/ records # slice[r])
        /\ UNCHANGED <<consumed, played>> /\ found[r] \in Ids
        /\ found[r] \notin played /\ found[r] \notin ToSet(records)
    BY <1>4 DEF AppendRecord, AppendTo, TypeOK, HoldInv, Private
  <2>2. records' = Append(records, found[r])
    BY <2>1
  <2>3. ToSet(Append(records, found[r])) = ToSet(records) \cup {found[r]}
    BY <2>1, AppendDistinct DEF TypeOK, HoldInv, Distinct
  <2> QED BY <2>1, <2>2, <2>3 DEF MarksOk
<1> QED BY <1>1, <1>2, <1>3, <1>4, RequestCases

LEMMA MarksJobStep ==
  ASSUME TypeOK, HoldInv, MarksOk, Job, ~lost', ~Clear
  PROVE  MarksOk'
<1>1. CASE DecodeRecord
  <2>1. PICK i \in FreshIds : played' = played \ {i} /\ records' = Append(records, i)
    BY <1>1 DEF DecodeRecord
  <2>2. UNCHANGED consumed
    BY <1>1 DEF DecodeRecord
  <2>3. ToSet(records') = ToSet(records) \cup {i} /\ i \notin consumed
    BY <2>1, FreshIsFree, AppendDistinct DEF TypeOK, HoldInv, Distinct
  <2> QED BY <2>1, <2>2, <2>3 DEF MarksOk
<1>2. CASE Truncate
  <2>1. UNCHANGED <<records, consumed, played>>
    BY <1>2, TruncateCuts DEF Truncate
  <2> QED BY <2>1 DEF MarksOk
<1>3. CASE ReadForFilter
  BY <1>3 DEF ReadForFilter, MarksOk
<1>4. CASE FilterRecords
  <2>1. /\ records' = FilterSlice(filtering, Ids \ OfTape(Head(control).tape))
        /\ lost' = (lost \/ records # filtering) /\ UNCHANGED <<consumed, played>>
    BY <1>4 DEF FilterRecords
  <2>2. ToSet(records') \subseteq ToSet(filtering)
    BY <2>1, FilterSliceElements DEF TypeOK
  <2>3. records = filtering
    BY <2>1
  <2> QED BY <2>1, <2>2, <2>3 DEF MarksOk
<1>5. CASE FilterConsumed
  <2>1. UNCHANGED records
    BY <1>5 DEF FilterConsumed
  <2>2. PICK dropped : /\ consumed' = filteringMarks \ dropped /\ played' = played \ dropped
                       /\ lost' = (lost \/ consumed # filteringMarks
                                        \/ dropped \cap consumed \cap ToSet(records) # {})
    BY <1>5 DEF FilterConsumed
  <2> QED BY <2>1, <2>2 DEF MarksOk
<1> QED BY <1>1, <1>2, <1>3, <1>4, <1>5 DEF Job

(* A tape or a process that begins anew.                                   *)
LEMMA RenewedReplay ==
  ASSUME records' = << >>, consumed' = {}, played' = {},
         \A r \in Requests : matched'[r] = {}
  PROVE  ReplayInv'
<1>1. ToSet(records') = {} /\ \A x, y : ~Earlier(x, y)'
  BY DEF ToSet, Earlier
<1>2. MarksOk' /\ InOrder'
  BY <1>1 DEF MarksOk, InOrder, Ahead
<1>3. ASSUME NEW r \in Requests PROVE SearchOk(r)' /\ MarkOk(r)'
  <2>1. \A x, y \in Ids : ~Ahead(x, y)'
    BY <1>1 DEF Ahead
  <2>2. MarkOk(r)'
    BY <1>1 DEF MarkOk, Ahead, Earlier
  <2>3. SearchOk(r)'
    BY <1>1 DEF SearchOk, Ahead, Earlier
  <2> QED BY <2>2, <2>3
<1>4. \A r \in Requests : MatchedOk(r)'
  BY DEF MatchedOk
<1> QED BY <1>2, <1>3, <1>4 DEF ReplayInv

LEMMA OrderStep ==
  ASSUME TypeOK, ReplayInv, Keeps,
         \A y \in played' \ played :
           \E r \in Requests : pc[r] = "mark" /\ y = found[r]
  PROVE  InOrder'
<1>1. ASSUME NEW x \in Ids, NEW y \in Ids, Ahead(x, y)', y \in played' PROVE x \in played'
  <2>1. Ahead(x, y)
    BY <1>1 DEF Keeps, Unseen, Ahead
  <2>2. x \in ToSet(records)
    BY <2>1, EarlierOnTape DEF Ahead
  <2>3. CASE y \in played
    BY <2>1, <2>2, <2>3 DEF ReplayInv, Keeps, InOrder
  <2>4. CASE y \notin played
    <3>1. PICK r \in Requests : pc[r] = "mark" /\ y = found[r]
      BY <1>1, <2>4
    <3> QED BY <2>1, <2>2, <3>1 DEF ReplayInv, Keeps, MarkOk, Holding
  <2> QED BY <2>3, <2>4
<1> QED BY <1>1 DEF InOrder

LEMMA ReplayRequestStep ==
  ASSUME TypeOK, Quiet, HoldInv, ReplayInv, NEW r \in Requests,
         RequestHandler(r) \/ RoundTrip(r) \/ ResponseHandler(r), ~lost'
  PROVE  ReplayInv'
<1>1. Keeps /\ ~lost /\ MarksOk
  <2>1. Keeps
    BY KeepsRequestStep
  <2> QED BY <2>1 DEF Keeps, ReplayInv
<1>2. MarksOk'
  BY <1>1, MarksRequestStep
<1>3. InOrder'
  <2>1. ASSUME NEW y \in played' \ played PROVE pc[r] = "mark" /\ y = found[r]
    BY <2>1, RequestCases, LooksFrame DEF MarkConsumed, Mark, ReadRecords, AppendRecord,
       AppendTo
  <2> QED BY <1>1, <2>1, OrderStep
<1>4. ASSUME NEW x \in Requests
      PROVE  /\ pc'[x] = "search" => SearchOk(x)'
             /\ pc'[x] \in Holding => MarkOk(x)'
             /\ MatchedOk(x)'
  <2>1. CASE x = r
    BY <1>1, <2>1, OwnReplay
  <2>2. CASE x # r
    <3>1. /\ pc'[x] = pc[x] /\ left'[x] = left[x] /\ found'[x] = found[x]
          /\ reply'[x] = reply[x] /\ matched'[x] = matched[x]
      BY <2>2, OthersFrame
    <3>3. MatchedOk(x)'
      BY <1>1, <3>1, MatchedFrame
    <3> QED BY <1>1, <3>1, <3>3, OthersReplay
  <2> QED BY <2>1, <2>2
<1> QED BY <1>2, <1>3, <1>4 DEF ReplayInv

LEMMA ReplayStep ==
  ASSUME TypeOK, Quiet, HoldInv, ReplayInv, [Next]_vars
  PROVE  ReplayInv'
<1> SUFFICES ASSUME ~lost' PROVE ReplayInv'
  BY DEF ReplayInv
<1>1. CASE \E r \in Requests : RequestHandler(r) \/ RoundTrip(r) \/ ResponseHandler(r)
  BY <1>1, ReplayRequestStep
<1>2. CASE Clear \/ Launch
  <2>1. records' = << >> /\ consumed' = {} /\ played' = {}
    BY <1>2 DEF Clear, Launch
  <2>2. \A r \in Requests : matched'[r] = {}
    <3>1. CASE Clear
      BY <3>1, JobFrame DEF Job, Quiet
    <3>2. CASE Launch
      BY <3>2 DEF Launch
    <3> QED BY <1>2, <3>1, <3>2
  <2> QED BY <2>1, <2>2, RenewedReplay
<1>3. CASE TapeCall
  <2>1. /\ UNCHANGED <<records, heap, consumed, played, lost, pc, left, found>>
        /\ matched' = [r \in Requests |-> {}]
    BY <1>3, TapeCallCalls DEF Call, turn
  <2>2. Keeps
    BY <2>1, SameRecords
  <2>3. MarksOk' /\ InOrder'
    BY <2>1, <2>2, OrderStep DEF ReplayInv, MarksOk
  <2>4. \A r \in Requests : MatchedOk(r)'
    BY <2>1 DEF MatchedOk
  <2> QED BY <2>1, <2>2, <2>3, <2>4, OthersReplay DEF ReplayInv
<1>4. CASE Job /\ ~Clear
  <2>1. /\ control # << >>
        /\ UNCHANGED <<pc, left, found, matched>>
    BY <1>4, JobFrame
  <2>2. ~lost
    BY <1>4 DEF Job, DecodeRecord, Truncate, ReadForFilter, FilterRecords, FilterConsumed
  <2>3. Keeps
    BY <1>4, <2>2, KeepsJobStep DEF ReplayInv
  <2>4. MarksOk'
    BY <1>4, <2>2, MarksJobStep DEF ReplayInv
  <2>5. InOrder'
    BY <1>4, <2>3, JobHolds, OrderStep
  <2>6. \A r \in Requests : MatchedOk(r)'
    BY <2>1 DEF Quiet, MatchedOk
  <2> QED BY <2>1, <2>3, <2>4, <2>5, <2>6, OthersReplay DEF ReplayInv
<1>5. CASE UNCHANGED vars
  BY <1>5 DEF vars, deck, turn, history, ReplayInv, MarksOk, InOrder, SearchOk, MarkOk,
     MatchedOk, Ahead, Earlier
<1> QED BY <1>1, <1>2, <1>3, <1>4, <1>5, NextCases DEF Job

LEMMA InitReplay == Init => ReplayInv
BY DEF Init, ReplayInv, MarksOk, InOrder, MatchedOk, Holding

LEMMA ReplayInvariant == Spec => [](TypeOK /\ Quiet /\ HoldInv /\ ReplayInv)
<1>1. Init => Quiet
  BY DEF Init, Quiet
<1> QED BY <1>1, InitHold, InitReplay, QuietStep, HoldStep, ReplayStep, TypeCorrect, PTL DEF Spec

(* "Ensure mocked requests resolve in the same order": of the records of   *)
(* one request, however many requests search the tape at once, an earlier  *)
(* one is replayed before a later one, unless an update was lost.          *)
THEOREM ReplayedInOrder == Spec => []ReplayInOrder
<1>1. TypeOK /\ ReplayInv => ReplayInOrder
  <2>1. SUFFICES ASSUME TypeOK, InOrder, NEW i \in DOMAIN records, NEW j \in DOMAIN records,
                        i < j, heap[records[i]] = heap[records[j]], records[j] \in played
                 PROVE  records[i] \in played
    BY DEF ReplayInOrder, ReplayInv
  <2>2. records[i] \in Ids /\ records[j] \in Ids
    BY <2>1, ElementOfSeq, LenProperties DEF TypeOK
  <2>3. Ahead(records[i], records[j])
    BY <2>1 DEF Ahead, Earlier
  <2> QED BY <2>1, <2>2, <2>3 DEF InOrder
<1> QED BY <1>1, ReplayInvariant, PTL

(* A request that finds no record left to it is right: all that matched it *)
(* when it came were replayed, to it or to another.                        *)
THEOREM BlockedRightly == Spec => []BlockedOnlyWhenPlayed
<1>1. ReplayInv => BlockedOnlyWhenPlayed
  BY DEF ReplayInv, MatchedOk, BlockedOnlyWhenPlayed
<1> QED BY <1>1, ReplayInvariant, PTL

-----------------------------------------------------------------------------
(* What is replayed once.                                                  *)

(* Whoever is about to write the marks has read what is settled.           *)
SettledInv ==
  /\ Ordered(control)
  /\ settled \subseteq consumed
  /\ \A r \in Requests : /\ pc[r] = "mark" => settled \subseteq marks[r]
                         /\ pc[r] \in Holding => found[r] \notin settled
  /\ Doing("filterConsumed") => settled \subseteq filteringMarks

LEMMA SettledMarkStep ==
  ASSUME TypeOK, SettledInv, NEW r \in Requests, MarkConsumed(r)
  PROVE  SettledInv'
<1>1. /\ pc[r] = "mark" /\ pc'[r] = "respond" /\ consumed' = marks[r] \cup {found[r]}
      /\ settled' = IF MarksAlone(r) THEN settled \cup {found[r]} ELSE settled
      /\ UNCHANGED <<control, filteringMarks>>
      /\ \A q \in Requests \ {r} :
           pc'[q] = pc[q] /\ marks'[q] = marks[q] /\ found'[q] = found[q]
  BY DEF MarkConsumed, Mark, Goto, TypeOK, calls
<1>2. settled \subseteq marks[r]
  BY <1>1 DEF SettledInv
<1>3. settled' \subseteq consumed' /\ Ordered(control)'
  BY <1>1, <1>2 DEF SettledInv, Ordered
<1>4. ASSUME NEW q \in Requests
      PROVE  /\ pc'[q] = "mark" => settled' \subseteq marks'[q]
             /\ pc'[q] \in Holding => found'[q] \notin settled'
  <2>1. CASE q = r
    BY <1>1, <2>1 DEF Holding
  <2>2. CASE q # r /\ MarksAlone(r)
    BY <1>1, <2>2 DEF SettledInv, MarksAlone, Holding
  <2>3. CASE q # r /\ ~MarksAlone(r)
    BY <1>1, <2>3 DEF SettledInv
  <2> QED BY <2>1, <2>2, <2>3
<1>5. Doing("filterConsumed")' => settled' \subseteq filteringMarks'
  BY <1>1 DEF SettledInv, MarksAlone, Doing
<1> QED BY <1>3, <1>4, <1>5 DEF SettledInv

LEMMA SettledRequestStep ==
  ASSUME TypeOK, SettledInv, NEW r \in Requests,
         RequestHandler(r) \/ RoundTrip(r) \/ ResponseHandler(r)
  PROVE  SettledInv'
<1>0. /\ UNCHANGED <<control, filteringMarks>>
      /\ \A x \in Requests \ {r} :
           pc'[x] = pc[x] /\ marks'[x] = marks[x] /\ found'[x] = found[x]
  BY CallsFrame, OthersFrame
<1>1. CASE FoundRecord(r)
  <2>1. /\ pc'[r] = "found" /\ found'[r] \notin consumed
        /\ UNCHANGED <<consumed, settled>>
    BY <1>1 DEF FoundRecord, Found, Goto, TypeOK, deck
  <2> QED BY <1>0, <2>1 DEF SettledInv, Ordered, Doing
<1>2. CASE ReadConsumed(r)
  <2>1. /\ pc[r] = "found" /\ marks'[r] = consumed
        /\ UNCHANGED <<found, consumed, settled>>
    BY <1>2 DEF ReadConsumed, TypeOK, deck, history
  <2> QED BY <1>0, <2>1 DEF SettledInv, Ordered, Doing, Holding
<1>3. CASE \/ PassThrough(r) \/ LookUp(r) \/ FindMatchingResponse(r) \/ AlreadySeen(r)
           \/ NoMatch(r) \/ RoundTrip(r) \/ NotRecorded(r) \/ LogPair(r)
           \/ ArchiveFails(r) \/ ReadRecords(r) \/ AppendRecord(r)
  <2>1. UNCHANGED <<consumed, settled>>
    BY <1>3, LooksFrame DEF Looks, ReadRecords, AppendRecord, AppendTo
  <2>2. pc'[r] \notin Holding
    BY <1>3 DEF PassThrough, LookUp, FindMatchingResponse, AlreadySeen, NoMatch, RoundTrip,
       NotRecorded, LogPair, ArchiveFails, Finish, ReadRecords, AppendRecord, AppendTo,
       Goto, TypeOK, Holding
  <2> QED BY <1>0, <2>1, <2>2 DEF SettledInv, Ordered, Doing, Holding
<1> QED BY <1>1, <1>2, <1>3, SettledMarkStep DEF RequestHandler, ResponseHandler

LEMMA SettledJobStep == ASSUME TypeOK, SettledInv, Job PROVE SettledInv'
<1>0. UNCHANGED <<pc, marks, found>> /\ Ordered(control)
  BY JobFrame DEF SettledInv
<1>1. CASE Clear
  <2>1. settled' = {} /\ Do("clear")
    BY <1>1 DEF Clear
  <2> QED BY <1>0, <2>1, JobOrdered DEF SettledInv
<1>2. CASE DecodeRecord \/ Truncate \/ FilterRecords
  <2>1. PICK what : Do(what) /\ what # "readConsumed"
    BY <1>2 DEF DecodeRecord, Truncate, FilterRecords
  <2>2. UNCHANGED <<consumed, settled>>
    BY <1>2 DEF DecodeRecord, Truncate, FilterRecords
  <2>3. Ordered(control)' /\ ~Doing("filterConsumed")'
    BY <1>0, <2>1, JobOrdered DEF Follows
  <2> QED BY <1>0, <2>2, <2>3 DEF SettledInv
<1>3. CASE ReadForFilter
  <2>1. UNCHANGED <<consumed, settled>>
    BY <1>3 DEF ReadForFilter
  <2>2. CASE Do("readRecords")
    <3>1. Ordered(control)' /\ ~Doing("filterConsumed")'
      BY <1>0, <2>2, JobOrdered DEF Follows
    <3> QED BY <1>0, <2>1, <3>1 DEF SettledInv
  <2>3. CASE Do("readConsumed") /\ filteringMarks' = consumed
    <3>1. Ordered(control)'
      BY <1>0, <2>3, JobOrdered
    <3> QED BY <1>0, <2>1, <2>3, <3>1 DEF SettledInv
  <2> QED BY <1>3, <2>2, <2>3 DEF ReadForFilter
<1>4. CASE FilterConsumed
  <2>1. PICK dropped : /\ consumed' = filteringMarks \ dropped
                       /\ settled' = settled \ dropped
    BY <1>4 DEF FilterConsumed
  <2>2. Do("filterConsumed")
    BY <1>4 DEF FilterConsumed
  <2>3. /\ Ordered(control)' /\ ~Doing("filterConsumed")'
        /\ settled \subseteq filteringMarks
    BY <1>0, <2>2, JobOrdered DEF Follows, SettledInv
  <2> QED BY <1>0, <2>1, <2>3 DEF SettledInv
<1> QED BY <1>1, <1>2, <1>3, <1>4 DEF Job

LEMMA SettledStep == ASSUME TypeOK, SettledInv, [Next]_vars PROVE SettledInv'
<1>1. CASE TapeCall
  <2>1. PICK newMode \in Modes, work \in Seq(Work) :
          Call(newMode, work) /\ Ordered(work) /\ Starts(work)
    BY <1>1, TapeCallWork
  <2>2. UNCHANGED <<consumed, marks, found, pc, settled>>
    BY <2>1 DEF Call, turn
  <2>3. Ordered(control)' /\ ~Doing("filterConsumed")'
    BY <2>1, CallOrdered
  <2> QED BY <2>2, <2>3 DEF SettledInv
<1>2. CASE Launch
  <2>1. settled' = {}
    BY <1>2 DEF Launch
  <2> QED BY <2>1, <1>2, LaunchOrdered DEF SettledInv
<1>3. CASE UNCHANGED vars
  BY <1>3 DEF vars, deck, calls, turn, history, SettledInv, Ordered, Doing
<1> QED BY <1>1, <1>2, <1>3, NextCases, SettledRequestStep, SettledJobStep

(* "Only allow each request to be played back one time": once the mark of  *)
(* a record was written with nobody between finding that record, or        *)
(* reading the marks, and writing his own, no request replays the record   *)
(* again, whatever marks overlap later, until a clear drops its mark.      *)
THEOREM ReplayedOnce == Spec => ReplayOnce
<1>1. Init => SettledInv
  BY DEF Init, SettledInv, Ordered, Doing, Holding
<1>2. SettledInv => [\A r \in Requests : pc[r] = "mark" /\ pc'[r] = "respond"
                                            => found[r] \notin settled]_vars
  BY DEF SettledInv, Holding
<1> QED BY <1>1, <1>2, SettledStep, TypeCorrect, PTL DEF Spec, ReplayOnce
=============================================================================
