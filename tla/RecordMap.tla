------------------------------ MODULE RecordMap ------------------------------
(***************************************************************************)
(* What the record hash of a profiler promises, without its chains: every  *)
(* key that was asked for has one record, whose identifier it shares with  *)
(* no other and keeps for as long as the hash exists.                      *)
(***************************************************************************)
EXTENDS Naturals

VARIABLES
  map,    \* the identifier of each key's record
  next    \* the identifier of the next record

MInit == DOMAIN map = {} /\ next = 0

\* Records are added, under the next identifiers.
MGrow ==
  /\ DOMAIN map \subseteq DOMAIN map'
  /\ \A k \in DOMAIN map : map'[k] = map[k]
  /\ next <= next'
  /\ \A k \in DOMAIN map' \ DOMAIN map : next <= map'[k] /\ map'[k] < next'
  /\ \A k, l \in DOMAIN map' : map'[k] = map'[l] => k = l

\* The hash is destroyed.  Its profiler numbers on, or a new one begins at 0.
MClear ==
  /\ DOMAIN map' = {}
  /\ next' = 0 \/ next <= next'

MSpec == MInit /\ [][MGrow \/ MClear]_<<map, next>>
=============================================================================
