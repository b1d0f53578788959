------------------------- MODULE WeightedSemaphore -------------------------
(***************************************************************************)
(* WeightedSemaphore with AsyncMultiSerializer.run                         *)
(* (lmcache_hcu/v1/storage_backend/storage_manager.py): concurrent loads   *)
(* share half of the allocator's chunk budget, and a load that needs more  *)
(* than that half runs alone.                                              *)
(*                                                                         *)
(* The coroutines run on one event loop, so what they do between two       *)
(* awaits is one step.  Waiting is asyncio.Condition.wait_for: a waiter    *)
(* goes on in any state where its condition holds.                         *)
(***************************************************************************)
EXTENDS Integers, FiniteSets, ByteTotals

CONSTANTS
  Loads,   \* coroutines handed to the serializer
  Budget   \* chunk_budget, from calculate_chunk_budget of the allocator

ASSUME BudgetAssumption == IsFiniteSet(Loads) /\ Budget \in Nat

VARIABLES
  _current_chunks,  \* chunks that may still be acquired
  asked,            \* chunks each coroutine asks for, 0 when it does not
  held              \* chunks each coroutine has acquired, 0 when none

vars == <<_current_chunks, asked, held>>

_concurrent_budget_cap == Budget \div 2

TypeOK ==
  /\ _current_chunks \in 0 .. _concurrent_budget_cap
  /\ asked \in [Loads -> 0 .. Budget]
  /\ held \in [Loads -> 0 .. Budget]

Idle(l) == asked[l] = 0 /\ held[l] = 0

\* run; a request beyond the whole budget is refused with ValueError.
Run(l, n) ==
  /\ Idle(l)
  /\ n \in 1 .. Budget
  /\ asked' = [asked EXCEPT ![l] = n]
  /\ UNCHANGED <<_current_chunks, held>>

Take(l, left) ==
  /\ _current_chunks' = left
  /\ held' = [held EXCEPT ![l] = asked[l]]
  /\ asked' = [asked EXCEPT ![l] = 0]

\* Variant: a load within the half does not wait for its chunks.
AcquireAtOnce(l) ==
  /\ asked[l] \in 1 .. _concurrent_budget_cap
  /\ Take(l, IF _current_chunks >= asked[l] THEN _current_chunks - asked[l] ELSE 0)

\* acquire of at most half of the budget ...
Acquire(l) ==
  /\ asked[l] \in 1 .. _concurrent_budget_cap
  /\ _current_chunks >= asked[l]
  /\ Take(l, _current_chunks - asked[l])

\* Variant: whatever is left will do.
AcquireOversizedAmong(l) ==
  /\ asked[l] > _concurrent_budget_cap
  /\ Take(l, 0)

\* ... and of more: only when nothing is taken, and then everything.
AcquireOversized(l) ==
  /\ asked[l] > _concurrent_budget_cap
  /\ _current_chunks = _concurrent_budget_cap
  /\ Take(l, 0)

\* Variant: an oversized load gives nothing back.
ReleaseWithin(l) ==
  /\ held[l] > 0
  /\ _current_chunks' = IF held[l] <= _concurrent_budget_cap
                          THEN _current_chunks + held[l] ELSE _current_chunks
  /\ held' = [held EXCEPT ![l] = 0]
  /\ UNCHANGED asked

\* release, in the finally of run: the load has ended, or has raised.
Release(l) ==
  /\ held[l] > 0
  /\ _current_chunks' = IF held[l] <= _concurrent_budget_cap
                          THEN _current_chunks + held[l] ELSE _concurrent_budget_cap
  /\ held' = [held EXCEPT ![l] = 0]
  /\ UNCHANGED asked

Init ==
  /\ _current_chunks = _concurrent_budget_cap
  /\ asked = [l \in Loads |-> 0]
  /\ held = [l \in Loads |-> 0]

Next ==
  \E l \in Loads :
    \/ \E n \in 1 .. Budget : Run(l, n)
    \/ Acquire(l) \/ AcquireOversized(l) \/ Release(l)

Spec == Init /\ [][Next]_vars

-----------------------------------------------------------------------------
Oversized(n) == n > _concurrent_budget_cap

\* "Oversized case: require exclusive access": a load of more than half of the budget
\* holds chunks alone.
OversizedExclusive ==
  \A l \in Loads : Oversized(held[l]) => \A m \in Loads \ {l} : held[m] = 0

\* What the loads hold together never exceeds the budget, so that the allocator can serve
\* them without waiting for one another.
WithinBudget == Total(held) <= Budget

\* No chunk is lost or made up: what is held and what is left are the concurrent half of
\* the budget, or one oversized load has it all.
SharesAddUp ==
  IF \E l \in Loads : Oversized(held[l])
    THEN _current_chunks = 0
    ELSE _current_chunks + Total(held) = _concurrent_budget_cap

=============================================================================
