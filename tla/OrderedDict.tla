---------------------------- MODULE OrderedDict ----------------------------
(***************************************************************************)
(* Python's OrderedDict as the monitor uses it: a bounded memory whose     *)
(* oldest key is dropped (screening/interaction_state.py and bytecode.py). *)
(*                                                                         *)
(* The order is kept as the age of each key: 0 if the key is absent, else  *)
(* 1 for the last key, 2 for the one before it, and so on, so that the     *)
(* dict holds more than n keys exactly if some age is above n.             *)
(***************************************************************************)
EXTENDS Naturals

(* No key is present. *)
Empty(K) == [k \in K |-> 0]

(* Mutant of Touch: nothing is ever dropped. *)
TouchUnbounded(d, k, limit) ==
  [x \in DOMAIN d |->
     IF x = k THEN 1
     ELSE IF d[x] = 0 \/ (d[k] > 0 /\ d[k] < d[x]) THEN d[x] ELSE d[x] + 1]

(* Mutant of Touch: a key that is there already keeps its place. *)
TouchInPlace(d, k, limit) ==
  [x \in DOMAIN d |->
     IF x = k THEN (IF d[k] = 0 THEN 1 ELSE d[k])
     ELSE IF d[x] = 0 \/ d[k] > 0 THEN d[x]
     ELSE IF d[x] < limit THEN d[x] + 1 ELSE 0]

(* d[k] = value, move_to_end(k), then popitem(last=False) while there are  *)
(* more than limit keys.  What was newer than k ages by one.               *)
Touch(d, k, limit) ==
  [x \in DOMAIN d |->
     IF x = k THEN 1
     ELSE IF d[x] = 0 \/ (d[k] > 0 /\ d[k] < d[x]) THEN d[x]
     ELSE IF d[x] < limit THEN d[x] + 1 ELSE 0]

(* del d[k]: what was older than k moves up. *)
Remove(d, k) ==
  [x \in DOMAIN d |->
     IF x = k THEN 0
     ELSE IF d[k] > 0 /\ d[x] > d[k] THEN d[x] - 1 ELSE d[x]]
=============================================================================
