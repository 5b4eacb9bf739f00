--------------------------- MODULE MCFlagQueries ---------------------------
(* Two studies, since the walk depends neither on the keys nor on what is  *)
(* signed: in one nobody replaces the key, in the other nobody walks, and  *)
(* two flags are enough to be signed with different keys.                  *)
EXTENDS FlagQueries

CONSTANT k1    \* the key the agent is installed with

VARIABLE study

SignedMax == 2    \* flags in the study of the keys

MCInit ==
  /\ FQInit /\ secret = k1
  /\ study \in {"walk", "keys"}
  /\ study = "walk" => file = {k1}

MCNext ==
  /\ FQNext
  /\ study = "walk" => UNCHANGED <<secret, file, orphaned>> /\ (serving' => anchor' = file)
  /\ study = "keys" => UNCHANGED walk /\ nextId' <= SignedMax + 1
  /\ UNCHANGED study

MCSpec == MCInit /\ [][MCNext]_<<vars, study>> /\ FQFairness
=============================================================================
