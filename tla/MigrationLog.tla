---------------------------- MODULE MigrationLog ----------------------------
(***************************************************************************)
(* What runMigrations promises to whoever starts the runtime: the scripts  *)
(* of a repository are applied in their order and each only once, those of *)
(* a repository only after all those of the repositories before it, and    *)
(* the runtime serves only when everything is applied.  A start may end at *)
(* any time; what is applied stays applied.                                *)
(***************************************************************************)
EXTENDS Naturals, Sequences

CONSTANTS
  Order,     \* the repositories, in the order in which they are migrated
  Count      \* [repository -> the number of its scripts]

VARIABLES
  applied,   \* [repository -> positions of the scripts that are applied]
  serving    \* the runtime is up

logVars == <<applied, serving>>

Names == {Order[k] : k \in DOMAIN Order}

AllApplied(r) == applied[r] = 1..Count[r]

\* No script is applied before those that come before it.
InOrder(positions) == \A j \in positions : 1..(j - 1) \subseteq positions

Init ==
  /\ DOMAIN applied = Names
  /\ \A r \in Names : applied[r] \subseteq 1..Count[r] /\ InOrder(applied[r])
  /\ serving = FALSE

Apply(k) ==
  /\ ~serving
  /\ \A l \in 1..(k - 1) : AllApplied(Order[l])
  /\ \E n \in 1..Count[Order[k]] :
       /\ n \notin applied[Order[k]]
       /\ 1..(n - 1) \subseteq applied[Order[k]]
       /\ applied' = [applied EXCEPT ![Order[k]] = @ \union {n}]
  /\ UNCHANGED serving

Serve ==
  /\ ~serving
  /\ \A r \in Names : AllApplied(r)
  /\ serving' = TRUE
  /\ UNCHANGED applied

Stop == serving /\ serving' = FALSE /\ UNCHANGED applied

Next == (\E k \in DOMAIN Order : Apply(k)) \/ Serve \/ Stop

Spec == Init /\ [][Next]_logVars

=============================================================================
