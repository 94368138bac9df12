----------------------------- MODULE BoundedLRU -----------------------------
(***************************************************************************)
(* What an LRU cache promises of its bookkeeping: a list of entries, the   *)
(* freshest first, with no key twice and no more bytes than the bound.     *)
(***************************************************************************)
EXTENDS Integers, SequencesExt

CONSTANTS Keys, MaxSize

VARIABLE entries    \* sequence of [key, size], freshest first

Bytes(list) == SumFunction([i \in DOMAIN list |-> list[i].size])
Listed(k) == \E i \in DOMAIN entries : entries[i].key = k

Init == entries = << >>

Add(k, size) ==
  /\ ~Listed(k)
  /\ size + Bytes(entries) <= MaxSize
  /\ entries' = <<[key |-> k, size |-> size]>> \o entries

Touch(i) == entries' = <<entries[i]>> \o RemoveAt(entries, i)

Drop(i) == entries' = RemoveAt(entries, i)

Clear == entries' = << >>

Next ==
  \/ \E k \in Keys, size \in 1..MaxSize : Add(k, size)
  \/ \E i \in DOMAIN entries : Touch(i) \/ Drop(i)
  \/ Clear

Spec == Init /\ [][Next]_entries
=============================================================================
