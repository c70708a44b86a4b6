---------------------------- MODULE DurableWrites ----------------------------
(***************************************************************************)
(* What the state file of the local Dreamina runtime promises to those who *)
(* share it, without a lock, a backup or processes: a transaction adds its *)
(* write to all that is stored, in one step, what is stored stays, and a   *)
(* write is confirmed only when it is stored.                              *)
(***************************************************************************)
CONSTANT Writes

VARIABLES
  stored,      \* the writes that the next transaction reads
  confirmed    \* the writes whose caller was told that they succeeded

dvars == <<stored, confirmed>>

DInit == stored = {} /\ confirmed = {}

\* It may stay unconfirmed, when the writer fails or dies afterwards.
Store(w) == stored' = stored \cup {w} /\ UNCHANGED confirmed

Confirm(w) == w \in stored /\ confirmed' = confirmed \cup {w} /\ UNCHANGED stored

DNext == \E w \in Writes : Store(w) \/ Confirm(w)

DSpec == DInit /\ [][DNext]_dvars
=============================================================================
