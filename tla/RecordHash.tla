----------------------------- MODULE RecordHash -----------------------------
(***************************************************************************)
(* The record hash of a profiler (lmprof_collections.c, lmprof.c): buckets *)
(* of chained records, in which a record that is looked up moves to the    *)
(* front.                                                                  *)
(*                                                                         *)
(* A record is known by its r_id.  Which bucket a key is hashed to makes   *)
(* no difference to what is promised, so that BucketOf may be any          *)
(* function of it.                                                         *)
(***************************************************************************)
EXTENDS Integers, Sequences

CONSTANTS
  Key,          \* keys: records of fn, parent and line, which are numbers
  BucketCount,  \* hash->bucket_count
  BucketOf(_)   \* to_bucket

Buckets == 0 .. BucketCount - 1

ASSUME RecordHashAssumption ==
  /\ BucketCount \in Nat \ {0}
  /\ \A k \in Key : BucketOf(k) \in Buckets

\* chains: hash->buckets, as sequences of identifiers; keys: f_id, p_id and
\* p_currentline of each record; next: st->i.record_count.
VARIABLE hash

\* lmprof_hash_create, and what lmprof_hash_destroy leaves.
NewHash(next) == [chains |-> [b \in Buckets |-> <<>>], keys |-> [id \in {} |-> 0], next |-> next]

Chain(h, k) == h.chains[BucketOf(k)]

\* Faulty: the line is not compared.
MatchesAnyLine(h, k) ==
  {i \in DOMAIN Chain(h, k) :
     h.keys[Chain(h, k)[i]].fn = k.fn /\ h.keys[Chain(h, k)[i]].parent = k.parent}

\* Where in its bucket a key's record is.
Matches(h, k) == {i \in DOMAIN Chain(h, k) : h.keys[Chain(h, k)[i]] = k}

First(h, k) == CHOOSE i \in Matches(h, k) : \A j \in Matches(h, k) : i <= j

\* Faulty: the record is not unlinked from where it was.
MoveToFrontLinked(s, i) == <<s[i]>> \o s

MoveToFront(s, i) ==
  [j \in DOMAIN s |-> IF j = 1 THEN s[i] ELSE IF j <= i THEN s[j - 1] ELSE s[j]]

\* Faulty: record_count is not incremented.
InsertedSame(h, k) ==
  [chains |-> [h.chains EXCEPT ![BucketOf(k)] = <<h.next>> \o @],
   keys   |-> [id \in DOMAIN h.keys \cup {h.next} |-> IF id = h.next THEN k ELSE h.keys[id]],
   next   |-> h.next]

\* A new record, and lmprof_hash_insert.
Inserted(h, k) ==
  [chains |-> [h.chains EXCEPT ![BucketOf(k)] = <<h.next>> \o @],
   keys   |-> [id \in DOMAIN h.keys \cup {h.next} |-> IF id = h.next THEN k ELSE h.keys[id]],
   next   |-> h.next + 1]

\* lmprof_hash_get, if it finds a record.
Found(h, k) == [h EXCEPT !.chains[BucketOf(k)] = MoveToFront(@, First(h, k))]

\* lmprof_fetch_record, which returns the record that is in front now.
Fetch(h, k) == IF Matches(h, k) = {} THEN Inserted(h, k) ELSE Found(h, k)
Fetched(h, k) == Chain(Fetch(h, k), k)[1]
-----------------------------------------------------------------------------
HashInit == hash = NewHash(0)

FetchRecord(k) == hash' = Fetch(hash, k)

\* lmprof_clear_state.  record_count is set back with the object only; a
\* record that could not be inserted has been counted.
Clear(next) ==
  /\ next \in {0, hash.next, hash.next + 1}
  /\ hash' = NewHash(next)

HashNext == (\E k \in Key : FetchRecord(k)) \/ (\E next \in Nat : Clear(next))

HashSpec == HashInit /\ [][HashNext]_hash
-----------------------------------------------------------------------------
\* Every record is in the bucket of its key, once, and in no other, and no two
\* records have one key, although each lookup moves a record within a chain
\* that others share (lmprof_hash_get).
Chained ==
  /\ \A b \in Buckets : \A i \in DOMAIN hash.chains[b] :
       /\ hash.chains[b][i] \in DOMAIN hash.keys
       /\ BucketOf(hash.keys[hash.chains[b][i]]) = b
       /\ \A j \in DOMAIN hash.chains[b] : hash.chains[b][i] = hash.chains[b][j] => i = j
  /\ \A id \in DOMAIN hash.keys :
       \E i \in DOMAIN Chain(hash, hash.keys[id]) : Chain(hash, hash.keys[id])[i] = id
  /\ \A id, other \in DOMAIN hash.keys : hash.keys[id] = hash.keys[other] => id = other

\* The record that a lookup of each key finds, for the keys that have one.
Held == {k \in {hash.keys[id] : id \in DOMAIN hash.keys} : Matches(hash, k) # {}}
Lookup == [k \in Held |-> Chain(hash, k)[First(hash, k)]]

Map == INSTANCE RecordMap WITH map <- Lookup, next <- hash.next

\* The hash is a map that gives each key one identifier and keeps it: profile
\* stacks hold pointers to records while others are fetched.
ActsAsMap == Map!MSpec
=============================================================================
