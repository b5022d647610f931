------------------------------- MODULE DAOCache -------------------------------
(***************************************************************************)
(* internal/dao/cache.go: the lists that were fetched, for ten seconds.    *)
(* Every method holds the mutex, so each is a function on the entries,     *)
(* here a sequence of [key, data] in the order in which they were stored.  *)
(* That order is all evictOldest looks at; an entry that has outlived its  *)
(* time is found missing, which is to say that Expire took it out.         *)
(***************************************************************************)
EXTENDS Integers, Sequences, SequencesExt

\* No key is there twice.
Without(stored, key) == RemoveFirstMatch(stored, LAMBDA e : e.key = key)

Has(stored, key) == \E i \in 1 .. Len(stored) : stored[i].key = key
Get(stored, key) ==
  stored[CHOOSE i \in 1 .. Len(stored) : stored[i].key = key].data

EvictOldest(stored) == Tail(stored)

\* A full cache gives up its oldest entry even when the key is there already.
Set(stored, key, data, maxSize) ==
  LET kept == IF Len(stored) >= maxSize THEN EvictOldest(stored) ELSE stored
  IN Append(Without(kept, key), [key |-> key, data |-> data])

Expire(stored, key) == Without(stored, key)

\* InvalidatePrefix: the entries whose key is one of keys.
Invalidate(stored, keys) == SelectSeq(stored, LAMBDA e : e.key \notin keys)

=============================================================================
