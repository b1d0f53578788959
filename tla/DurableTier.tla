---------------------------- MODULE DurableTier ----------------------------
(***************************************************************************)
(* What a storage tier that keeps chunks as files promises, apart from how *)
(* it writes them: only chunks whose files are in place are indexed, an    *)
(* indexed chunk is not deleted, and a chunk whose entry is lost, in a     *)
(* failed load or with the process, is still there to be indexed again.    *)
(***************************************************************************)
EXTENDS FiniteSets

CONSTANTS
  Entries,   \* a key with the layout it is stored in
  SameKey(_, _),
  Deletes    \* whether the tier deletes chunks

VARIABLES
  durable,  \* chunks whose files have their names on disk
  indexed   \* chunks a lookup finds

tierVars == <<durable, indexed>>

Start == durable \subseteq Entries /\ indexed = {}

Persist(e) == durable' = durable \cup {e} /\ UNCHANGED indexed

\* An entry takes the place of the key's entry in the other layout.
Index(e) ==
  /\ e \in durable
  /\ indexed' = {f \in indexed : ~SameKey(e, f)} \cup {e}
  /\ UNCHANGED durable

Forget(e) == indexed' = indexed \ {e} /\ UNCHANGED durable

Delete(e) ==
  /\ Deletes /\ e \notin indexed
  /\ durable' = durable \ {e}
  /\ UNCHANGED indexed

Restart == indexed' = {} /\ UNCHANGED durable

Step == Restart \/ \E e \in Entries : Persist(e) \/ Index(e) \/ Forget(e) \/ Delete(e)

Spec == Start /\ [][Step]_tierVars
=============================================================================
