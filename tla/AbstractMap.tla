---------------------------- MODULE AbstractMap -----------------------------
(* What the hash map promises: a function from keys to values, of which put and
   remove return the old value.                                               *)
CONSTANTS Keys, Values, None

VARIABLES m, reply

MapInit == m = [k \in Keys |-> None] /\ reply = <<>>
MapPut(k, v) == m' = [m EXCEPT ![k] = v] /\ reply' = <<"put", k, m[k]>>
MapRemove(k) == m' = [m EXCEPT ![k] = None] /\ reply' = <<"remove", k, m[k]>>

\* Out of memory: nothing is inserted.
MapFull(k) == reply' = <<"full", k, None>> /\ UNCHANGED m

MapNext == \E k \in Keys : MapRemove(k) \/ MapFull(k) \/ \E v \in Values : MapPut(k, v)
MapSpec == MapInit /\ [][MapNext]_<<m, reply>>
=============================================================================
