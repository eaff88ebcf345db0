-------------------------- MODULE CapabilityHistory --------------------------
(***************************************************************************)
(* The capability store with a history variable: when validate accepted    *)
(* each token.  The budget tracker keeps one counter and one window start  *)
(* per token; the history tells what those two numbers really bound.       *)
(***************************************************************************)
EXTENDS CapabilityStore, Sequences

VARIABLE uses  \* uses[t]: the ticks at which token t was accepted, in order

hvars == <<vars, uses>>

NoUses == [t \in 1 .. MaxId |-> << >>]

HInit == Init /\ uses = NoUses

(* Every action sets result, so result' names the operation of the step. *)
Record ==
  uses' = IF result'.op = "clear" THEN NoUses
          ELSE IF result'.op = "validate" /\ result'.code = "Ok"
          THEN [uses EXCEPT ![result'.id] = Append(@, current_tick)]
          ELSE uses

HNext == Next /\ Record

HSpec == HInit /\ [][HNext]_hvars

(* How many uses of a budget fit into a stretch of interval_ticks ticks. *)
MostUses(b) == IF b.interval_ticks = 1 THEN b.max_uses ELSE 2 * b.max_uses - 1

(* The rate limit over every stretch of interval_ticks ticks, not only     *)
(* over the tracker's own windows: a window opens at the use that finds    *)
(* the old one elapsed, so a stretch meets at most two windows and one use *)
(* of the first of them lies before the stretch: at most 2 * max_uses - 1. *)
(* Uses that are further apart in the list than that are interval_ticks    *)
(* ticks apart in time.  A budget of no uses admits none.                  *)
BurstBound ==
  \A t \in Live : tokens[t].budget # None =>
    LET b == tokens[t].budget
    IN  /\ b.max_uses = 0 => uses[t] = << >>
        /\ (b.max_uses > 0 /\ b.interval_ticks > 0) =>
             \A i, j \in DOMAIN uses[t] :
               j >= i + MostUses(b) => uses[t][j] >= uses[t][i] + b.interval_ticks

Deadline(t) == tokens[t].created_at + tokens[t].token.expires

(* A token is never accepted at or after its deadline, and one created or  *)
(* delegated late is not accepted before its creation.                     *)
AcceptedInLifetime ==
  \A t \in Live : \A i \in DOMAIN uses[t] :
    /\ uses[t][i] >= tokens[t].created_at
    /\ tokens[t].token.expires > 0 => uses[t][i] < Deadline(t)

(* The budgets of every token are kept, within its lifetime. *)
BudgetsKept == BurstBound /\ AcceptedInLifetime
=============================================================================
