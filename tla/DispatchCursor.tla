--------------------------- MODULE DispatchCursor ---------------------------
(* The window that dispatchActivePlans moves over the active plans: a pass   *)
(* covers at most DispatchLimit of them, from where the pass before it left  *)
(* off.  The list is read again every pass, newest update first, so a plan   *)
(* that is activated or touched between two passes comes to its head and the *)
(* kept offset then means another plan.                                      *)
EXTENDS Integers, Sequences, SequencesExt

CONSTANTS
  CursorPlan,      \* plans
  DispatchLimit,   \* maxEnqueueDispatchPlans
  MaxPasses        \* bound on the two counters below

VARIABLES
  activeList,     \* ListPlans: the active plans, newest update first
  dispatchCursor,         \* dispatchCursor
  waited,         \* passes since a plan was last dispatched
  calm            \* passes since the list last changed

cursorVars == <<activeList, dispatchCursor, waited, calm>>

ASSUME CursorAssumption == DispatchLimit \in Nat \ {0} /\ MaxPasses \in Nat
-----------------------------------------------------------------------------
Covered(n) == IF n < DispatchLimit THEN n ELSE DispatchLimit

\* The plans of one pass over list l that starts at offset s.
Window(l, s) == {l[((s + i) % Len(l)) + 1] : i \in 0..(Covered(Len(l)) - 1)}

\* Mutant: the offset is kept as it is and not moved past the window.
NextCursorFixed(s, n) == s

NextCursor(s, n) == (s + Covered(n)) % n

OneMore(n) == IF n < MaxPasses THEN n + 1 ELSE n

\* dispatchActivePlans, under dispatchMu: a tick or HandleEnqueue.
DispatchPass ==
  /\ activeList # <<>>
  /\ LET start == dispatchCursor % Len(activeList) IN
     /\ dispatchCursor' = NextCursor(start, Len(activeList))
     /\ waited' = [p \in CursorPlan |->
                     IF p \in Window(activeList, start) \/ p \notin ToSet(activeList)
                     THEN 0 ELSE OneMore(waited[p])]
  /\ calm' = OneMore(calm)
  /\ UNCHANGED activeList

\* An import, or SetPlanStatus to active: the trigger sets updated_at.
Activate(p) ==
  /\ activeList' = <<p>> \o RemoveFirst(activeList, p)
  /\ calm' = 0
  /\ UNCHANGED <<dispatchCursor, waited>>

\* The plan is paused, abandoned, done or deleted.
Deactivate(p) ==
  /\ p \in ToSet(activeList)
  /\ activeList' = RemoveFirst(activeList, p)
  /\ waited' = [waited EXCEPT ![p] = 0]
  /\ calm' = 0
  /\ UNCHANGED dispatchCursor

CursorInit ==
  /\ activeList = <<>> /\ dispatchCursor = 0
  /\ waited = [p \in CursorPlan |-> 0] /\ calm = 0

CursorNext ==
  \/ DispatchPass
  \/ \E p \in CursorPlan : Activate(p) \/ Deactivate(p)

CursorSpec == CursorInit /\ [][CursorNext]_cursorVars
-----------------------------------------------------------------------------
\* Passes that the window needs to go once around n plans.
Rounds(n) == (n + Covered(n) - 1) \div Covered(n)

\* Plans beyond the limit get their turn: whatever offset earlier changes of the
\* list left behind, once it has stood still for a round of passes no plan on it
\* has waited for a whole round.
EveryPlanGetsItsTurn ==
  \A p \in ToSet(activeList) :
    calm >= Rounds(Len(activeList)) => waited[p] < Rounds(Len(activeList))
=============================================================================
