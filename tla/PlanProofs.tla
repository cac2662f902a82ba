---------------------------- MODULE PlanProofs -----------------------------
(***************************************************************************)
(* How a plan becomes tasks and how the tasks get their turn, for every    *)
(* document, every cut of an import, every list of plans and every limit.  *)
(*                                                                         *)
(* Import (PlanGraph).  A search of the edges written so far is enough: the *)
(* tasks of a graph can be put in an order as long as no new edge closes a *)
(* cycle (AddingKeepsRunnable), and one that does leaves no order however  *)
(* many edges follow (CycleIsNotRunnable, FewerEdges).                     *)
(*                                                                         *)
(* Order (PlanGraph).  Two readings of a plan without stated dependencies are *)
(* compared, the edges documentOrderEdges writes and Decompose.  They agree *)
(* on any set of tasks that holds what its members depend on, and no other is *)
(* reached by running the plan.                                            *)
(*                                                                         *)
(* Turns (DispatchCursor).  The offset survives changes of the list and then *)
(* means another plan, so the invariant measures places and not plans: how far *)
(* ahead of the window a place is, against the passes since the list changed. *)
(*                                                                         *)
(* Arguments over the length of a document or a list go by the least member *)
(* of a set of naturals (HasMin), not by induction.                        *)
(*                                                                         *)
(* Bindings (Admission).  Which provider a step may run on, for every chain *)
(* of passes; PassInv says what each pass leaves to the next.  That none is *)
(* refused for nothing goes by where the rotation stands in its list       *)
(* (Rotated): it began at some place and turned down all it came by.       *)
(***************************************************************************)
EXTENDS PlanGraph, DispatchCursor, Admission, FiniteSetTheorems,
        WellFoundedInduction, TLAPS

\* The least-number principle, for a set.
LEMMA HasMin ==
  ASSUME NEW S, S \subseteq Nat, S # {}
  PROVE  \E x \in S : \A y \in S : x <= y
<1> DEFINE R == OpToRel(<, Nat)
<1>1. IsWellFoundedOn(R, Nat)
  BY NatLessThanWellFounded
<1>2. \A x, y \in Nat : <<x, y>> \in R <=> x < y
  BY DEF OpToRel
<1> HIDE DEF R
<1>3. PICK x \in S : \A y \in S : ~(<<y, x>> \in R)
  BY <1>1, WFMin
<1>4. \A y \in S : ~(y < x)
  BY <1>2, <1>3
<1>5. \A y \in S : x <= y
  BY <1>4
<1> QED
  BY <1>5

\* A bounded set of naturals has a greatest member.
LEMMA HasMax ==
  ASSUME NEW n \in Nat, NEW S, S \subseteq 0..n, S # {}
  PROVE  Max(S) \in S /\ \A y \in S : y <= Max(S)
<1> DEFINE D == {n - x : x \in S}
<1>1. D \subseteq Nat
  OBVIOUS
<1>7. D # {}
  OBVIOUS
<1>2. PICK m \in D : \A y \in D : m <= y
  BY <1>1, <1>7, HasMin
<1>3. PICK x \in S : m = n - x
  BY <1>2
<1>4. \A y \in S : x >= y
  BY <1>2, <1>3
<1>5. \E z \in S : \A y \in S : z >= y
  BY <1>4
<1>6. Max(S) \in S /\ \A y \in S : Max(S) >= y
  BY <1>5 DEF Max
<1> QED
  BY <1>6

-----------------------------------------------------------------------------
(* PlanGraph: import                                                       *)

\* What a search visits is closed, and is the least such set.
LEMMA ReachIsLeast ==
  ASSUME NEW E, NEW p
  PROVE  /\ p \in Reach(E, p) /\ Closed(E, Reach(E, p))
         /\ \A C : p \in C /\ Closed(E, C) => Reach(E, p) \subseteq C
<1> DEFINE V == {p} \cup {e[2] : e \in E}
<1>1. Reach(E, p) = {v \in V : \A C \in SUBSET V : p \in C /\ Closed(E, C) => v \in C}
  BY DEF Reach
<1>2. p \in Reach(E, p)
  BY <1>1
<1>3. ASSUME NEW e \in E, e[1] \in Reach(E, p)
      PROVE  e[2] \in Reach(E, p)
  <2>1. e[2] \in V
    OBVIOUS
  <2>2. ASSUME NEW C \in SUBSET V, p \in C, Closed(E, C)
        PROVE  e[2] \in C
    BY <1>1, <1>3, <2>2 DEF Closed
  <2> QED
    BY <1>1, <2>1, <2>2
<1>4. ASSUME NEW C, p \in C, Closed(E, C)
      PROVE  Reach(E, p) \subseteq C
  <2>1. (C \cap V) \in SUBSET V /\ p \in C \cap V
    BY <1>4
  <2>2. Closed(E, C \cap V)
    BY <1>4 DEF Closed
  <2> QED
    BY <1>1, <2>1, <2>2
<1> QED
  BY <1>2, <1>3, <1>4 DEF Closed

\* The edge t -> p that closes no cycle leaves the tasks an order to run in.
LEMMA AddingKeepsRunnable ==
  ASSUME NEW E, NEW T, Runnable(E, T), NEW t, NEW p, t # p, t \notin Reach(E, p)
  PROVE  Runnable(E \cup {<<t, p>>}, T)
<1> DEFINE R == Reach(E, p)
<1>1. p \in R /\ Closed(E, R)
  BY ReachIsLeast
<1> HIDE DEF R
<1> SUFFICES ASSUME NEW left \in SUBSET T, left # {}
             PROVE  \E u \in left : \A e \in E \cup {<<t, p>>} : e[1] = u => e[2] \notin left
  BY DEF Runnable
<1>2. CASE left \cap R # {}
  <2>1. PICK u \in left \cap R : \A e \in E : e[1] = u => e[2] \notin left \cap R
    BY <1>2 DEF Runnable
  <2>2. \A e \in E : e[1] = u => e[2] \notin left
    BY <1>1, <2>1 DEF Closed
  <2>3. u # t
    BY <2>1 DEF R
  <2> QED
    BY <2>1, <2>2, <2>3
<1>3. CASE left \cap R = {}
  <2>1. PICK u \in left : \A e \in E : e[1] = u => e[2] \notin left
    BY DEF Runnable
  <2> QED
    BY <1>1, <1>3, <2>1
<1> QED
  BY <1>2, <1>3

\* The edge that is turned away belongs to no graph that can be run.
LEMMA CycleIsNotRunnable ==
  ASSUME NEW E, NEW T, NEW t \in T, NEW p \in T,
         \A e \in E : e[1] \in T /\ e[2] \in T,
         t = p \/ t \in Reach(E, p)
  PROVE  ~Runnable(E \cup {<<t, p>>}, T)
<1> SUFFICES ASSUME Runnable(E \cup {<<t, p>>}, T)
             PROVE  FALSE
  OBVIOUS
<1>0. /\ <<t, p>> \in E \cup {<<t, p>>} /\ <<t, p>>[1] = t /\ <<t, p>>[2] = p
  OBVIOUS
<1>1. CASE t = p
  <2>1. {t} \in SUBSET T /\ {t} # {}
    OBVIOUS
  <2>2. PICK u \in {t} : \A e \in E \cup {<<t, p>>} : e[1] = u => e[2] \notin {t}
    BY <2>1 DEF Runnable
  <2> QED
    BY <1>0, <1>1, <2>2
<1>2. CASE t # p /\ t \in Reach(E, p)
  <2> DEFINE left == {v \in Reach(E, p) : t \in Reach(E, v)}
  <2>1. p \in left
    BY <1>2, ReachIsLeast
  <2>2. left \subseteq T
    <3>1. Closed(E, T)
      BY DEF Closed
    <3> QED
      BY <3>1, ReachIsLeast
  <2>3. PICK u \in left : \A e \in E \cup {<<t, p>>} : e[1] = u => e[2] \notin left
    <3> HIDE DEF left
    <3> QED
      BY <2>1, <2>2 DEF Runnable
  <2>4. u # t
    <3> HIDE DEF left
    <3> QED
      BY <1>0, <2>1, <2>3
  <2>5. \A e \in E : e[1] = u => t \notin Reach(E, e[2])
    BY <2>3, ReachIsLeast DEF Closed
  <2> DEFINE C == {u} \cup {x \in T : t \notin Reach(E, x)}
  <2>6. Closed(E, C)
    <3>1. ASSUME NEW e \in E, e[1] = u PROVE e[2] \in C
      BY <2>5, <3>1
    <3>2. ASSUME NEW e \in E, e[1] \in T, t \notin Reach(E, e[1]) PROVE e[2] \in C
      <4>1. e[2] \in Reach(E, e[1]) /\ Closed(E, Reach(E, e[1]))
        BY ReachIsLeast DEF Closed
      <4>2. Reach(E, e[2]) \subseteq Reach(E, e[1])
        BY <4>1, ReachIsLeast
      <4> QED
        BY <3>2, <4>2
    <3> QED
      BY <3>1, <3>2 DEF Closed
  <2>7. t \in C
    BY <2>3, <2>6, ReachIsLeast
  <2> QED
    BY <2>4, <2>7, ReachIsLeast
<1> QED
  BY <1>1, <1>2

\* A graph that can be run can be run with fewer edges.
LEMMA FewerEdges ==
  ASSUME NEW E, NEW F, E \subseteq F, NEW T, Runnable(F, T)
  PROVE  Runnable(E, T)
BY DEF Runnable

\* The steps of a document, and their ids.
LEMMA StepsById ==
  ASSUME NEW d, NEW i \in LeafSet(d), NEW j \in DOMAIN d[i].steps
  PROVE  <<i, j>> \in Steps(d) /\ StepAt(d, <<i, j>>) = d[i].steps[j]
         /\ d[i].steps[j].id \in Ids(d)
<1>1. <<i, j>> \in Steps(d)
  BY DEF Steps
<1>2. StepAt(d, <<i, j>>) = d[i].steps[j]
  BY DEF StepAt
<1> QED
  BY <1>1, <1>2 DEF Ids

LEMMA StepPlaces ==
  ASSUME NEW d, NEW s \in Steps(d)
  PROVE  s[1] \in LeafSet(d) /\ s[2] \in DOMAIN d[s[1]].steps /\ s = <<s[1], s[2]>>
BY DEF Steps

\* What the document says of sequences.
LEMMA DocumentShape ==
  ASSUME NEW d \in Documents
  PROVE  /\ Len(d) \in Nat /\ DOMAIN d = 1..Len(d)
         /\ \A i \in DOMAIN d : /\ Len(d[i].steps) \in Nat
                                /\ DOMAIN d[i].steps = 1..Len(d[i].steps)
                                /\ d[i].steps # <<>> => Len(d[i].steps) > 0
BY DocumentsAssumption DEF IsSequence

\* The previous group with steps.
LEMMA PreviousGroup ==
  ASSUME NEW d \in Documents, NEW i \in LeafSet(d), Before(d, i) # {}
  PROVE  /\ Max(Before(d, i)) \in Before(d, i)
         /\ \A k \in Before(d, i) : k <= Max(Before(d, i))
<1>1. i \in Nat /\ Before(d, i) \subseteq 0..i
  BY DocumentShape DEF Before, LeafSet
<1> QED
  BY <1>1, HasMax

\* Every edge of the graph is between two of its tasks.
LEMMA EdgesAreBetweenTasks ==
  ASSUME NEW d \in Documents, GraphSpecsOK(d), NEW e \in SpecEdges(d)
  PROVE  e = <<e[1], e[2]>> /\ e[1] \in Ids(d) /\ e[2] \in Ids(d)
<1>1. PICK s \in Steps(d) : e \in EdgesOf(d, s[1], s[2])
  BY DEF SpecEdges
<1> DEFINE i == s[1]
           j == s[2]
<1>2. i \in LeafSet(d) /\ j \in DOMAIN d[i].steps /\ s = <<i, j>>
  BY StepPlaces
<1>3. i \in DOMAIN d /\ DOMAIN d[i].steps = 1..Len(d[i].steps)
      /\ Len(d[i].steps) \in Nat
  BY <1>2, DocumentShape DEF LeafSet
<1>4. PICK p \in DependsOnOf(d, i, j) : e = <<d[i].steps[j].id, p>>
  BY <1>1 DEF EdgesOf
<1> HIDE DEF i, j
<1>5. d[i].steps[j].id \in Ids(d)
  BY <1>2, StepsById
<1>6. p \in Ids(d)
  <2>1. CASE d[i].steps[j].stated
    <3>1. StepAt(d, s).stated /\ p \in StepAt(d, s).after
      BY <1>2, <1>4, <2>1 DEF DependsOnOf, StepAt
    <3> QED
      BY <3>1 DEF GraphSpecsOK
  <2>2. CASE ~d[i].steps[j].stated /\ (d[i].kind = "ul" \/ j = 1)
    <3>1. p \in Terminals(d, i)
      BY <1>4, <2>2 DEF DependsOnOf
    <3>2. Before(d, i) # {}
      BY <3>1 DEF Terminals
    <3> DEFINE k == Max(Before(d, i))
    <3>3. k \in LeafSet(d) /\ d[k].steps # <<>>
      BY <1>2, <3>2, PreviousGroup DEF Before
    <3>4. Len(d[k].steps) \in DOMAIN d[k].steps
      BY <3>3, DocumentShape DEF LeafSet
    <3>5. PICK m \in DOMAIN d[k].steps : p = d[k].steps[m].id
      BY <3>1, <3>2, <3>4 DEF Terminals, LastStep
    <3> QED
      BY <3>3, <3>5, StepsById
  <2>3. CASE ~d[i].steps[j].stated /\ ~(d[i].kind = "ul" \/ j = 1)
    <3>1. p = d[i].steps[j - 1].id
      BY <1>4, <2>3 DEF DependsOnOf
    <3>2. j - 1 \in DOMAIN d[i].steps
      BY <1>2, <1>3, <2>3
    <3> QED
      BY <1>2, <3>1, <3>2, StepsById
  <2> QED
    BY <2>1, <2>2, <2>3
<1> QED
  BY <1>4, <1>5, <1>6

\* The open transaction: its edges so far leave the tasks an order to run in, and
\* with those it has still to add they are the document's.
TxInv ==
  imp = "writing" =>
    /\ GraphSpecsOK(doc)
    /\ txEdges \cup txLeft = SpecEdges(doc)
    /\ Runnable(txEdges, Ids(doc))

PlanInv ==
  /\ doc \in Documents
  /\ imp # "active" => graphTasks = {}
  /\ imp = "active" => GraphSpecsOK(doc)
  /\ TxInv
  /\ ImportIsExact

LEMMA GraphStep == PlanInv /\ [GraphNext]_graphVars => PlanInv'
<1> SUFFICES ASSUME PlanInv, [GraphNext]_graphVars
             PROVE  PlanInv'
  OBVIOUS
<1> USE DEF PlanInv
<1>1. ASSUME NEW b, Open(b), GraphSpecsOK(doc), imp \in {"none", "bare"}
      PROVE  PlanInv'
  <2>1. Runnable({}, Ids(doc))
    <3>1. ASSUME NEW left \in (SUBSET Ids(doc)) \ {{}}
          PROVE  \E t \in left : \A e \in {} : e[1] = t => e[2] \notin left
      <4>1. left # {}
        BY Zenon
      <4>2. PICK t \in left : TRUE
        BY <4>1
      <4> QED
        BY <4>2
    <3> HIDE DEF PlanInv
    <3> QED
      BY <3>1, Zenon DEF Runnable
  <2>2. /\ UNCHANGED <<doc, graphTasks, graphEdges>> /\ imp' = "writing"
        /\ txLeft' = SpecEdges(doc) /\ txEdges' = {} /\ graphTasks = {}
    BY <1>1 DEF Open
  <2>3. TxInv'
    BY <1>1, <2>1, <2>2 DEF TxInv
  <2> QED
    BY <2>2, <2>3 DEF ImportIsExact
<1>2. CASE ImportPlan
  <2>1. CASE ValidateForImport(doc) /\ GraphSpecsOK(doc)
    BY <1>1, <1>2, <2>1 DEF ImportPlan
  <2>2. CASE ~(ValidateForImport(doc) /\ GraphSpecsOK(doc))
    BY <1>2, <2>2 DEF ImportPlan, Rollback, TxInv, ImportIsExact
  <2> QED
    BY <2>1, <2>2
<1>3. CASE CreatePlan
  BY <1>3 DEF CreatePlan, TxInv, ImportIsExact
<1>4. CASE EnsurePlanGraph
  BY <1>1, <1>4 DEF EnsurePlanGraph
<1>5. CASE AddDep
  <2>1. PICK e \in NextEdges :
          IF e[1] = e[2] \/ WouldCreateCycle(e[1], e[2])
          THEN Rollback(IF onDispatch THEN "bare" ELSE "rejected")
          ELSE /\ txLeft' = txLeft \ {e} /\ txEdges' = txEdges \cup {e}
               /\ UNCHANGED <<doc, imp, onDispatch, graphTasks, graphEdges, ran>>
    BY <1>5 DEF AddDep
  <2>2. e \in txLeft /\ imp = "writing"
    BY <1>5 DEF AddDep, NextEdges
  <2>3. /\ GraphSpecsOK(doc) /\ txEdges \cup txLeft = SpecEdges(doc)
        /\ Runnable(txEdges, Ids(doc)) /\ e \in SpecEdges(doc)
    BY <2>2 DEF TxInv
  <2>4. \A f \in SpecEdges(doc) :
           f = <<f[1], f[2]>> /\ f[1] \in Ids(doc) /\ f[2] \in Ids(doc)
    BY <2>3, EdgesAreBetweenTasks
  <2>5. CASE e[1] = e[2] \/ WouldCreateCycle(e[1], e[2])
    <3>1. ~Runnable(txEdges \cup {<<e[1], e[2]>>}, Ids(doc))
      BY <2>3, <2>4, <2>5, CycleIsNotRunnable DEF WouldCreateCycle
    <3>2. txEdges \cup {<<e[1], e[2]>>} \subseteq SpecEdges(doc)
      BY <2>3, <2>4
    <3>3. ~Runnable(SpecEdges(doc), Ids(doc))
      BY <3>1, <3>2, FewerEdges
    <3>4. Rollback(IF onDispatch THEN "bare" ELSE "rejected")
      BY <2>1, <2>5
    <3> QED
      BY <2>2, <3>3, <3>4 DEF Rollback, TxInv, ImportIsExact
  <2>6. CASE ~(e[1] = e[2] \/ WouldCreateCycle(e[1], e[2]))
    <3>1. /\ txLeft' = txLeft \ {e} /\ txEdges' = txEdges \cup {e}
          /\ UNCHANGED <<doc, imp, onDispatch, graphTasks, graphEdges, ran>>
      BY <2>1, <2>6
    <3>2. Runnable(txEdges \cup {<<e[1], e[2]>>}, Ids(doc))
      BY <2>3, <2>6, AddingKeepsRunnable DEF WouldCreateCycle
    <3>3. e = <<e[1], e[2]>>
      BY <2>3, <2>4
    <3>4. Runnable(txEdges', Ids(doc))
      BY <3>1, <3>2, <3>3
    <3>5. txEdges' \cup txLeft' = SpecEdges(doc)
      BY <2>2, <2>3, <3>1
    <3> QED
      BY <2>3, <3>1, <3>4, <3>5 DEF TxInv, ImportIsExact
  <2> QED
    BY <2>5, <2>6
<1>6. CASE ImportCut
  BY <1>6 DEF ImportCut, Rollback, TxInv, ImportIsExact
<1>7. CASE CommitGraph
  <2>1. GraphSpecsOK(doc) /\ txEdges = SpecEdges(doc) /\ Runnable(txEdges, Ids(doc))
    BY <1>7 DEF CommitGraph, TxInv
  <2>2. Ids(doc) # {}
    BY <2>1 DEF GraphSpecsOK, Ids
  <2> QED
    BY <1>7, <2>1, <2>2 DEF CommitGraph, TxInv, ImportIsExact
<1>8. CASE RunTask
  BY <1>8 DEF RunTask, TxInv, ImportIsExact
<1>9. CASE UNCHANGED graphVars
  BY <1>9 DEF graphVars, TxInv, ImportIsExact
<1> QED
  BY <1>2, <1>3, <1>4, <1>5, <1>6, <1>7, <1>8, <1>9 DEF GraphNext

\* Adding the edges one by one behind addDepOn's search commits exactly the documents
\* whose tasks can be run in some order, and a graph as a whole or not at all, for
\* every document.
THEOREM ImportsAreExact == GraphSpec => []ImportIsExact
<1>1. GraphInit => PlanInv
  BY DEF GraphInit, PlanInv, TxInv, ImportIsExact
<1>2. PlanInv => ImportIsExact
  BY DEF PlanInv
<1> QED
  BY <1>1, <1>2, GraphStep, PTL DEF GraphSpec

-----------------------------------------------------------------------------
(* PlanGraph: document order                                               *)

\* The document leaves the order of its tasks to the headings and lists.
InDocumentOrder(d) ==
  GraphSpecsOK(d) /\ \A s \in Steps(d) : ~StepAt(d, s).stated

\* What has run, as running leaves it: nothing before what it depends on.
Settled(d, done) == \A e \in SpecEdges(d) : e[1] \in done => e[2] \in done

GroupRan(d, done, i) == \A j \in DOMAIN d[i].steps : d[i].steps[j].id \in done

\* The edges of one step.
LEMMA EdgesOfStep ==
  ASSUME NEW d \in Documents, InDocumentOrder(d),
         NEW i \in LeafSet(d), NEW j \in DOMAIN d[i].steps
  PROVE  /\ i \in DOMAIN d /\ j \in 1..Len(d[i].steps) /\ Len(d[i].steps) \in Nat
         /\ DOMAIN d[i].steps = 1..Len(d[i].steps)
         /\ \A p \in DependsOnOf(d, i, j) : <<d[i].steps[j].id, p>> \in SpecEdges(d)
         /\ DependsOnOf(d, i, j) = IF d[i].kind = "ul" \/ j = 1 THEN Terminals(d, i)
                                   ELSE {d[i].steps[j - 1].id}
<1>1. /\ i \in DOMAIN d /\ j \in 1..Len(d[i].steps) /\ Len(d[i].steps) \in Nat
      /\ DOMAIN d[i].steps = 1..Len(d[i].steps)
  BY DocumentShape DEF LeafSet
<1>2. <<i, j>> \in Steps(d) /\ StepAt(d, <<i, j>>) = d[i].steps[j]
  BY StepsById
<1>3. ASSUME NEW p \in DependsOnOf(d, i, j)
      PROVE  <<d[i].steps[j].id, p>> \in SpecEdges(d)
  <2>1. <<d[i].steps[j].id, p>> \in EdgesOf(d, i, j)
    BY DEF EdgesOf
  <2>2. EdgesOf(d, i, j) = EdgesOf(d, <<i, j>>[1], <<i, j>>[2])
    OBVIOUS
  <2> QED
    BY <1>2, <2>1, <2>2 DEF SpecEdges
<1>4. ~d[i].steps[j].stated
  BY <1>2 DEF InDocumentOrder
<1> QED
  BY <1>1, <1>3, <1>4 DEF DependsOnOf

\* The steps of an ordered list run from its first on.
LEMMA ListInOrder ==
  ASSUME NEW d \in Documents, InDocumentOrder(d), NEW done, Settled(d, done),
         NEW i \in LeafSet(d), d[i].kind # "ul",
         NEW j \in DOMAIN d[i].steps, d[i].steps[j].id \in done,
         NEW k \in DOMAIN d[i].steps, k <= j
  PROVE  d[i].steps[k].id \in done
<1> SUFFICES ASSUME d[i].steps[k].id \notin done
             PROVE  FALSE
  OBVIOUS
<1> DEFINE n == Len(d[i].steps)
           S == {m \in 0..n : m \in 1..n /\ m <= j /\ d[i].steps[m].id \notin done}
           x == Max(S)
<1>1. j \in 1..n /\ k \in 1..n /\ n \in Nat /\ DOMAIN d[i].steps = 1..n
  BY EdgesOfStep
<1>2. S \subseteq 0..n /\ k \in S
  BY <1>1
<1>3. x \in S /\ \A y \in S : y <= x
  BY <1>1, <1>2, HasMax
<1> HIDE DEF x
<1>4. x \in 1..n /\ x < j /\ d[i].steps[x].id \notin done
  BY <1>1, <1>3
<1>5. x + 1 \in 1..n /\ x + 1 <= j /\ x + 1 \notin S
  BY <1>1, <1>3, <1>4
<1>6. d[i].steps[x + 1].id \in done
  BY <1>1, <1>5
<1>7. /\ \A p \in DependsOnOf(d, i, x + 1) :
            <<d[i].steps[x + 1].id, p>> \in SpecEdges(d)
      /\ DependsOnOf(d, i, x + 1) =
           IF d[i].kind = "ul" \/ x + 1 = 1 THEN Terminals(d, i)
           ELSE {d[i].steps[(x + 1) - 1].id}
  BY <1>1, <1>5, EdgesOfStep
<1>8. d[i].steps[x].id \in DependsOnOf(d, i, x + 1)
  <2>1. x + 1 # 1 /\ (x + 1) - 1 = x
    BY <1>4
  <2> QED
    BY <1>7, <2>1
<1>9. <<d[i].steps[x + 1].id, d[i].steps[x].id>> \in SpecEdges(d)
  BY <1>7, <1>8
<1> QED
  BY <1>4, <1>6, <1>9 DEF Settled

\* A group that waits for nothing more waits for no step of the one before it.
LEMMA TerminalsStandForTheGroup ==
  ASSUME NEW d \in Documents, InDocumentOrder(d), NEW done, Settled(d, done),
         NEW i \in LeafSet(d), Before(d, i) # {}, Terminals(d, i) \subseteq done
  PROVE  GroupRan(d, done, Max(Before(d, i)))
<1> DEFINE m == Max(Before(d, i))
<1>1. m \in LeafSet(d) /\ d[m].steps # <<>>
  BY PreviousGroup DEF Before
<1>2. Terminals(d, i) = IF d[m].kind = "ul"
                        THEN {d[m].steps[j].id : j \in DOMAIN d[m].steps}
                        ELSE {LastStep(d[m]).id}
  BY DEF Terminals
<1> HIDE DEF m
<1>3. /\ Len(d[m].steps) \in Nat /\ DOMAIN d[m].steps = 1..Len(d[m].steps)
      /\ Len(d[m].steps) > 0
  BY <1>1, DocumentShape DEF LeafSet
<1>4. CASE d[m].kind = "ul"
  BY <1>2, <1>4 DEF GroupRan, m
<1>5. CASE d[m].kind # "ul"
  <2> DEFINE z == Len(d[m].steps)
  <2>1. d[m].steps[z].id \in done /\ z \in DOMAIN d[m].steps
    BY <1>2, <1>3, <1>5 DEF LastStep
  <2>2. ASSUME NEW k \in DOMAIN d[m].steps
        PROVE  d[m].steps[k].id \in done
    <3>1. k <= z
      BY <1>3
    <3> HIDE DEF z
    <3> QED
      BY <1>1, <1>5, <2>1, <3>1, ListInOrder
  <2> QED
    BY <2>2 DEF GroupRan, m
<1> QED
  BY <1>4, <1>5

\* Once a step of a group has run, so has the group before it.
LEMMA PreviousGroupRan ==
  ASSUME NEW d \in Documents, InDocumentOrder(d), NEW done, Settled(d, done),
         NEW i \in LeafSet(d), NEW j \in DOMAIN d[i].steps, d[i].steps[j].id \in done,
         Before(d, i) # {}
  PROVE  GroupRan(d, done, Max(Before(d, i)))
<1>1. PICK k \in DOMAIN d[i].steps : /\ d[i].kind = "ul" \/ k = 1
                                     /\ d[i].steps[k].id \in done
  <2>1. CASE d[i].kind = "ul"
    BY <2>1
  <2>2. CASE d[i].kind # "ul"
    <3>1. 1 \in DOMAIN d[i].steps /\ 1 <= j
      BY EdgesOfStep
    <3> QED
      BY <2>2, <3>1, ListInOrder
  <2> QED
    BY <2>1, <2>2
<1>2. DependsOnOf(d, i, k) = Terminals(d, i)
  BY <1>1, EdgesOfStep
<1>3. \A p \in Terminals(d, i) : <<d[i].steps[k].id, p>> \in SpecEdges(d)
  BY <1>2, EdgesOfStep
<1>4. Terminals(d, i) \subseteq done
  BY <1>1, <1>3 DEF Settled
<1> QED
  BY <1>4, TerminalsStandForTheGroup

\* Groups run one after another: once a step of one has run, all before it have.
LEMMA EarlierGroupsRan ==
  ASSUME NEW d \in Documents, InDocumentOrder(d), NEW done, Settled(d, done),
         NEW i \in LeafSet(d), NEW j \in DOMAIN d[i].steps, d[i].steps[j].id \in done,
         NEW k \in LeafSet(d), k < i
  PROVE  GroupRan(d, done, k)
<1> SUFFICES ASSUME ~GroupRan(d, done, k)
             PROVE  FALSE
  OBVIOUS
<1> DEFINE S == {m \in LeafSet(d) : m < i /\ ~GroupRan(d, done, m)}
           x == Max(S)
           N == {m \in LeafSet(d) : m > x /\ d[m].steps # <<>>}
<1>1. Len(d) \in Nat /\ LeafSet(d) \subseteq 1..Len(d)
  BY DocumentShape DEF LeafSet
<1>2. S \subseteq 0..Len(d) /\ S # {}
  BY <1>1
<1>3. x \in S /\ \A y \in S : y <= x
  BY <1>1, <1>2, HasMax
<1> HIDE DEF x
<1>4. x \in LeafSet(d) /\ x < i /\ ~GroupRan(d, done, x) /\ x \in Nat
  BY <1>1, <1>3
<1>5. d[x].steps # <<>>
  <2> SUFFICES ASSUME d[x].steps = <<>> PROVE FALSE
    OBVIOUS
  <2>1. DOMAIN d[x].steps = {}
    OBVIOUS
  <2> QED
    BY <1>4, <2>1 DEF GroupRan
<1>6. d[i].steps # <<>>
  OBVIOUS
<1>7. N \subseteq Nat /\ i \in N
  BY <1>1, <1>4, <1>6
<1>8. PICK y \in N : \A z \in N : y <= z
  BY <1>7, HasMin
<1>9. y \in LeafSet(d) /\ y > x /\ y <= i /\ d[y].steps # <<>> /\ y \in Nat /\ i \in Nat
  BY <1>7, <1>8
<1>10. Max(Before(d, y)) = x
  <2>1. x \in Before(d, y)
    BY <1>4, <1>5, <1>9 DEF Before
  <2>2. \A b \in Before(d, y) : b <= x
    <3> SUFFICES ASSUME NEW b \in Before(d, y), b > x
                 PROVE  FALSE
      BY <1>1, <1>4 DEF Before
    <3>1. b \in N /\ b < y /\ b \in Nat
      BY <1>7 DEF Before
    <3> QED
      BY <1>8, <1>9, <3>1
  <2>3. /\ Max(Before(d, y)) \in Before(d, y)
        /\ \A b \in Before(d, y) : b <= Max(Before(d, y))
    BY <1>9, <2>1, PreviousGroup
  <2>4. Max(Before(d, y)) \in Nat
    BY <1>1, <2>3 DEF Before
  <2> QED
    BY <1>4, <2>1, <2>2, <2>3, <2>4
<1>11. PICK q \in DOMAIN d[y].steps : d[y].steps[q].id \in done
  <2>1. CASE y = i
    BY <2>1
  <2>2. CASE y < i
    <3>1. GroupRan(d, done, y)
      BY <1>3, <1>4, <1>9, <2>2
    <3>2. 1 \in DOMAIN d[y].steps
      BY <1>9, DocumentShape DEF LeafSet
    <3> QED
      BY <3>1, <3>2 DEF GroupRan
  <2> QED
    BY <1>9, <2>1, <2>2
<1>12. Before(d, y) # {}
  BY <1>4, <1>5, <1>9 DEF Before
<1>13. GroupRan(d, done, Max(Before(d, y)))
  BY <1>9, <1>11, <1>12, PreviousGroupRan
<1> QED
  BY <1>4, <1>10, <1>13

\* The steps of a group that may run next: all that are left, or the first of them.
NextSteps(d, done, f) ==
  {j \in DOMAIN d[f].steps :
     /\ d[f].steps[j].id \notin done
     /\ \/ d[f].kind = "ul"
        \/ \A k \in DOMAIN d[f].steps : d[f].steps[k].id \notin done => j <= k}

\* What Decompose returns, when all groups before f have run.
LEMMA DecomposeByPlace ==
  ASSUME NEW d \in Documents, NEW done, NEW f \in LeafSet(d),
         NEW g \in DOMAIN d[f].steps, d[f].steps[g].id \notin done,
         \A k \in LeafSet(d) : k < f => GroupRan(d, done, k)
  PROVE  Decompose(d, done) = {d[f].steps[j].id : j \in NextSteps(d, done, f)}
<1> DEFINE todo(i) == {j \in DOMAIN d[i].steps : d[i].steps[j].id \notin done}
           unfinished == {i \in LeafSet(d) : todo(i) # {}}
           first == CHOOSE i \in unfinished : \A k \in unfinished : i <= k
<1>1. Len(d) \in Nat /\ LeafSet(d) \subseteq 1..Len(d)
  BY DocumentShape DEF LeafSet
<1>2. f \in unfinished
  OBVIOUS
<1>3. ASSUME NEW k \in unfinished
      PROVE  f <= k
  <2>1. ~GroupRan(d, done, k) /\ k \in LeafSet(d)
    BY DEF GroupRan
  <2> QED
    BY <1>1, <2>1
<1>4. first \in unfinished /\ \A k \in unfinished : first <= k
  BY <1>2, <1>3
<1>5. first = f
  <2> HIDE DEF first
  <2>1. first \in Nat /\ f \in Nat /\ first <= f /\ f <= first
    BY <1>1, <1>2, <1>3, <1>4
  <2> QED
    BY <2>1
<1>6. Decompose(d, done) =
        {d[f].steps[j].id : j \in {j \in todo(f) :
           d[f].kind = "ul" \/ \A k \in todo(f) : j <= k}}
  <2>1. Decompose(d, done) =
          IF unfinished = {} THEN {}
          ELSE {d[first].steps[j].id : j \in {j \in todo(first) :
                  d[first].kind = "ul" \/ \A k \in todo(first) : j <= k}}
    BY Zenon DEF Decompose
  <2> HIDE DEF first, unfinished
  <2> QED
    BY <1>2, <1>5, <2>1
<1> QED
  BY <1>6 DEF NextSteps

\* What the edge walk finds ready when `done` has run.
ReadyAfter(d, done) ==
  {t \in Ids(d) \ done : \A e \in SpecEdges(d) : e[1] = t => e[2] \in done}

\* A step of the first unfinished group that Decompose returns waits for nothing.
LEMMA DecomposedIsReady ==
  ASSUME NEW d \in Documents, InDocumentOrder(d), NEW done, Settled(d, done),
         NEW f \in LeafSet(d), \A k \in LeafSet(d) : k < f => GroupRan(d, done, k),
         NEW j \in DOMAIN d[f].steps, d[f].steps[j].id \notin done,
         \/ d[f].kind = "ul"
         \/ \A k \in DOMAIN d[f].steps : d[f].steps[k].id \notin done => j <= k
  PROVE  d[f].steps[j].id \in ReadyAfter(d, done)
<1>1. d[f].steps[j].id \in Ids(d)
  BY StepsById
<1>2. ASSUME NEW e \in SpecEdges(d), e[1] = d[f].steps[j].id
      PROVE  e[2] \in done
  <2>1. PICK s \in Steps(d) : e \in EdgesOf(d, s[1], s[2])
    BY DEF SpecEdges
  <2>2. e[1] = StepAt(d, s).id /\ e[2] \in DependsOnOf(d, s[1], s[2])
    BY <2>1 DEF EdgesOf, StepAt
  <2>3. s = <<f, j>>
    <3>1. <<f, j>> \in Steps(d) /\ StepAt(d, <<f, j>>).id = d[f].steps[j].id
      BY StepsById
    <3> QED
      BY <1>2, <2>2, <3>1 DEF InDocumentOrder, GraphSpecsOK
  <2>4. e[2] \in DependsOnOf(d, f, j)
    BY <2>2, <2>3
  <2>5. /\ j \in 1..Len(d[f].steps) /\ Len(d[f].steps) \in Nat
        /\ DOMAIN d[f].steps = 1..Len(d[f].steps)
        /\ DependsOnOf(d, f, j) = IF d[f].kind = "ul" \/ j = 1 THEN Terminals(d, f)
                                  ELSE {d[f].steps[j - 1].id}
    BY EdgesOfStep
  <2>6. CASE d[f].kind = "ul" \/ j = 1
    <3>1. e[2] \in Terminals(d, f) /\ Before(d, f) # {}
      BY <2>4, <2>5, <2>6 DEF Terminals
    <3> DEFINE m == Max(Before(d, f))
    <3>2. m \in LeafSet(d) /\ m < f /\ d[m].steps # <<>>
      BY <3>1, PreviousGroup DEF Before
    <3>3. GroupRan(d, done, m)
      BY <3>2
    <3>4. Len(d[m].steps) \in DOMAIN d[m].steps
      BY <3>2, DocumentShape DEF LeafSet
    <3>5. \E k \in DOMAIN d[m].steps : e[2] = d[m].steps[k].id
      BY <3>1, <3>4 DEF Terminals, LastStep
    <3> QED
      BY <3>3, <3>5 DEF GroupRan
  <2>7. CASE ~(d[f].kind = "ul" \/ j = 1)
    <3>1. e[2] = d[f].steps[j - 1].id
      BY <2>4, <2>5, <2>7
    <3>2. j - 1 \in DOMAIN d[f].steps /\ ~(j <= j - 1)
      BY <2>5, <2>7
    <3> QED
      BY <2>7, <3>1, <3>2
  <2> QED
    BY <2>6, <2>7
<1> QED
  BY <1>1, <1>2 DEF ReadyAfter

\* A step that waits for nothing is in the first unfinished group, and if its list is
\* ordered it is the first of those left.
LEMMA ReadyIsDecomposed ==
  ASSUME NEW d \in Documents, InDocumentOrder(d), NEW done, Settled(d, done),
         NEW f \in LeafSet(d), ~GroupRan(d, done, f),
         \A k \in LeafSet(d) : k < f => GroupRan(d, done, k),
         NEW i \in LeafSet(d), NEW j \in DOMAIN d[i].steps,
         d[i].steps[j].id \in ReadyAfter(d, done)
  PROVE  /\ i = f /\ d[i].steps[j].id \notin done
         /\ \/ d[i].kind = "ul"
            \/ \A k \in DOMAIN d[i].steps : d[i].steps[k].id \notin done => j <= k
<1>1. /\ j \in 1..Len(d[i].steps) /\ Len(d[i].steps) \in Nat
      /\ DOMAIN d[i].steps = 1..Len(d[i].steps)
      /\ \A p \in DependsOnOf(d, i, j) : <<d[i].steps[j].id, p>> \in SpecEdges(d)
      /\ DependsOnOf(d, i, j) = IF d[i].kind = "ul" \/ j = 1 THEN Terminals(d, i)
                                ELSE {d[i].steps[j - 1].id}
  BY EdgesOfStep
<1>2. d[i].steps[j].id \notin done /\ DependsOnOf(d, i, j) \subseteq done
  BY <1>1 DEF ReadyAfter
<1>3. Len(d) \in Nat /\ LeafSet(d) \subseteq 1..Len(d)
  BY DocumentShape DEF LeafSet
<1>4. ~GroupRan(d, done, i)
  BY <1>2 DEF GroupRan
<1>5. ~(i < f)
  BY <1>4
<1>6. ~(f < i)
  <2> SUFFICES ASSUME f < i
               PROVE  FALSE
    OBVIOUS
  <2>1. CASE d[i].kind = "ul" \/ j = 1
    <3> DEFINE m == Max(Before(d, i))
    <3>1. d[f].steps # <<>>
      <4> SUFFICES ASSUME d[f].steps = <<>> PROVE FALSE
        OBVIOUS
      <4>1. DOMAIN d[f].steps = {}
        OBVIOUS
      <4> QED
        BY <4>1 DEF GroupRan
    <3>2. f \in Before(d, i)
      BY <3>1 DEF Before
    <3>3. m \in Before(d, i) /\ f <= m
      BY <3>2, PreviousGroup
    <3>4. GroupRan(d, done, m)
      BY <1>1, <1>2, <2>1, <3>2, TerminalsStandForTheGroup
    <3> HIDE DEF m
    <3>5. m \in LeafSet(d) /\ d[m].steps # <<>>
      BY <3>3 DEF Before
    <3>6. 1 \in DOMAIN d[m].steps
      BY <3>5, DocumentShape DEF LeafSet
    <3>7. d[m].steps[1].id \in done
      BY <3>4, <3>6 DEF GroupRan
    <3>8. m # f
      BY <3>4
    <3>9. f < m
      BY <1>3, <3>3, <3>5, <3>8
    <3> QED
      BY <3>5, <3>6, <3>7, <3>9, EarlierGroupsRan
  <2>2. CASE ~(d[i].kind = "ul" \/ j = 1)
    <3>1. j - 1 \in DOMAIN d[i].steps /\ d[i].steps[j - 1].id \in done
      BY <1>1, <1>2, <2>2
    <3> QED
      BY <3>1, EarlierGroupsRan
  <2> QED
    BY <2>1, <2>2
<1>7. i = f
  BY <1>3, <1>5, <1>6
<1>8. ASSUME d[i].kind # "ul", NEW k \in DOMAIN d[i].steps,
             d[i].steps[k].id \notin done, ~(j <= k)
      PROVE  FALSE
  <2>1. j # 1 /\ j - 1 \in DOMAIN d[i].steps /\ k <= j - 1
    BY <1>1, <1>8
  <2>2. d[i].steps[j - 1].id \in done
    BY <1>1, <1>2, <1>8, <2>1
  <2>3. d[i].steps[k].id \in done
    BY <1>8, <2>1, <2>2, ListInOrder
  <2> QED
    BY <1>8, <2>3
<1> QED
  BY <1>2, <1>7, <1>8

\* The edge walk and Decompose agree on every plan in document order, whatever of it
\* has run.
LEMMA EdgesAreDecompose ==
  ASSUME NEW d \in Documents, InDocumentOrder(d), NEW done, Settled(d, done)
  PROVE  ReadyAfter(d, done) = Decompose(d, done)
<1> DEFINE U == {i \in LeafSet(d) : ~GroupRan(d, done, i)}
<1>1. Len(d) \in Nat /\ LeafSet(d) \subseteq 1..Len(d)
  BY DocumentShape DEF LeafSet
<1>2. CASE U = {}
  <2>1. ASSUME NEW i \in LeafSet(d), NEW j \in DOMAIN d[i].steps
        PROVE  d[i].steps[j].id \in done
    BY <1>2 DEF GroupRan
  <2>2. Ids(d) \subseteq done
    <3> SUFFICES ASSUME NEW s \in Steps(d)
                 PROVE  StepAt(d, s).id \in done
      BY DEF Ids
    <3> QED
      BY <2>1, StepPlaces DEF StepAt
  <2>3. Decompose(d, done) = {}
    BY <2>1 DEF Decompose
  <2> QED
    BY <2>2, <2>3 DEF ReadyAfter
<1>3. CASE U # {}
  <2>0. U \subseteq Nat
    BY <1>1
  <2>1. PICK f \in U : \A k \in U : f <= k
    BY <1>3, <2>0, HasMin
  <2>2. f \in LeafSet(d) /\ ~GroupRan(d, done, f)
    OBVIOUS
  <2>3. \A k \in LeafSet(d) : k < f => GroupRan(d, done, k)
    BY <1>1, <2>1
  <2>4. PICK g \in DOMAIN d[f].steps : d[f].steps[g].id \notin done
    BY <2>2 DEF GroupRan
  <2> DEFINE J == NextSteps(d, done, f)
  <2>5. Decompose(d, done) = {d[f].steps[j].id : j \in J}
    BY <2>2, <2>3, <2>4, DecomposeByPlace
  <2>6. ASSUME NEW j \in J
        PROVE  d[f].steps[j].id \in ReadyAfter(d, done)
    BY <2>2, <2>3, DecomposedIsReady DEF NextSteps
  <2>7. ASSUME NEW t \in ReadyAfter(d, done)
        PROVE  \E j \in J : t = d[f].steps[j].id
    <3>1. PICK s \in Steps(d) : t = StepAt(d, s).id
      BY DEF ReadyAfter, Ids
    <3>2. PICK i \in LeafSet(d) : \E j \in DOMAIN d[i].steps : t = d[i].steps[j].id
      BY <3>1, StepPlaces DEF StepAt
    <3>3. PICK j \in DOMAIN d[i].steps : t = d[i].steps[j].id
      BY <3>2
    <3>4. /\ i = f /\ d[i].steps[j].id \notin done
          /\ \/ d[i].kind = "ul"
             \/ \A k \in DOMAIN d[i].steps : d[i].steps[k].id \notin done => j <= k
      BY <2>2, <2>3, <3>3, ReadyIsDecomposed
    <3> QED
      BY <3>3, <3>4 DEF NextSteps
  <2> HIDE DEF J
  <2> QED
    BY <2>5, <2>6, <2>7
<1> QED
  BY <1>2, <1>3

\* The tasks that have run: none before the plan is active, and none before what it
\* depends on.
RanInv ==
  /\ imp # "active" => ran = {}
  /\ imp = "active" => \A e \in graphEdges : e[1] \in ran => e[2] \in ran

\* A plan that states no dependencies runs as Decompose reads it: the edges that
\* documentOrderEdges writes make the same tasks ready, for every document and in
\* every state that running it reaches.
THEOREM DocumentsRunInOrder == GraphSpec => []DocumentOrderIsDecompose
<1> DEFINE Inv == PlanInv /\ RanInv
<1>1. GraphInit => Inv
  BY DEF GraphInit, PlanInv, TxInv, ImportIsExact, RanInv
<1>2. Inv /\ [GraphNext]_graphVars => Inv'
  <2> SUFFICES ASSUME PlanInv, RanInv, [GraphNext]_graphVars
               PROVE  PlanInv' /\ RanInv'
    OBVIOUS
  <2>1. PlanInv'
    BY GraphStep
  <2> SUFFICES RanInv'
    BY <2>1
  <2>2. CASE ImportPlan \/ CreatePlan \/ EnsurePlanGraph \/ ImportCut
    BY <2>2 DEF ImportPlan, CreatePlan, EnsurePlanGraph, ImportCut, Open, Rollback, RanInv
  <2>3. CASE AddDep
    <3>1. ran' = ran /\ imp = "writing" /\ imp' # "active"
      BY <2>3 DEF AddDep, Rollback
    <3> QED
      BY <3>1 DEF RanInv
  <2>4. CASE CommitGraph
    BY <2>4 DEF CommitGraph, RanInv
  <2>5. CASE RunTask
    <3>1. PICK t \in GraphReady : ran' = ran \cup {t}
      BY <2>5 DEF RunTask
    <3>2. imp = "active" /\ imp' = imp /\ graphEdges' = graphEdges
      BY <2>5 DEF RunTask
    <3> QED
      BY <3>1, <3>2 DEF GraphReady, RanInv
  <2>6. CASE UNCHANGED graphVars
    BY <2>6 DEF graphVars, RanInv
  <2> QED
    BY <2>2, <2>3, <2>4, <2>5, <2>6 DEF GraphNext
<1>3. Inv => DocumentOrderIsDecompose
  <2> SUFFICES ASSUME PlanInv, RanInv, imp = "active",
                      \A s \in Steps(doc) : ~StepAt(doc, s).stated
               PROVE  GraphReady = Decompose(doc, ran)
    BY DEF DocumentOrderIsDecompose
  <2>1. doc \in Documents /\ graphTasks = Ids(doc) /\ graphEdges = SpecEdges(doc)
    BY DEF PlanInv, ImportIsExact
  <2>2. InDocumentOrder(doc)
    BY DEF PlanInv, InDocumentOrder
  <2>3. Settled(doc, ran)
    BY <2>1 DEF RanInv, Settled
  <2>4. GraphReady = ReadyAfter(doc, ran)
    BY <2>1 DEF GraphReady, ReadyAfter
  <2> QED
    BY <2>1, <2>2, <2>3, <2>4, EdgesAreDecompose
<1> QED
  BY <1>1, <1>2, <1>3, PTL DEF GraphSpec

-----------------------------------------------------------------------------
(* DispatchCursor                                                          *)

\* Taking a plan off the list leaves a list of plans.
LEMMA RemovingKeepsPlans ==
  ASSUME NEW l \in Seq(CursorPlan), NEW p
  PROVE  RemoveFirst(l, p) \in Seq(CursorPlan)
<1> DEFINE I == {i \in 1..Len(l) : l[i] = p}
<1>1. CASE I = {}
  BY <1>1 DEF RemoveFirst
<1>2. CASE I # {}
  <2>1. I \subseteq Nat
    OBVIOUS
  <2>2. \E x \in I : \A y \in I : x <= y
    BY <1>2, <2>1, HasMin
  <2>3. Min(I) \in I
    BY <2>2 DEF Min
  <2> DEFINE m == Min(I)
  <2>4. RemoveFirst(l, p) = SubSeq(l, 1, m - 1) \o SubSeq(l, m + 1, Len(l))
    BY <1>2 DEF RemoveFirst, RemoveAt, SelectInSeq
  <2>5. m \in 1..Len(l)
    BY <2>3
  <2> HIDE DEF m
  <2>6. SubSeq(l, 1, m - 1) \in Seq(CursorPlan)
    BY <2>5
  <2>7. SubSeq(l, m + 1, Len(l)) \in Seq(CursorPlan)
    BY <2>5
  <2> QED
    BY <2>4, <2>6, <2>7
<1> QED
  BY <1>1, <1>2

\* The remainder of a number below twice the divisor.
LEMMA ModWraps ==
  ASSUME NEW n \in Nat \ {0}, NEW a \in 0..(2 * n - 1)
  PROVE  (a < n => a % n = a) /\ (a >= n => a % n = a - n)
<1>1. a % n \in 0..(n - 1)
  OBVIOUS
<1>a. a \div n \in Int
  OBVIOUS
<1>b. a = n * (a \div n) + (a % n)
  OBVIOUS
<1> DEFINE q == a \div n
           r == a % n
<1>2. q \in Int /\ r \in 0..(n - 1) /\ a = n * q + r
  BY <1>1, <1>a, <1>b
<1> HIDE DEF q, r
<1>3. q < 2
  <2> SUFFICES ASSUME q >= 2 PROVE FALSE
    BY <1>2
  <2>1. n * q >= n * 2
    BY <1>2
  <2> QED
    BY <1>2, <2>1
<1>4. q > -1
  <2> SUFFICES ASSUME q <= -1 PROVE FALSE
    BY <1>2
  <2>1. n * q <= n * (-1)
    BY <1>2
  <2> QED
    BY <1>2, <2>1
<1>5. CASE q = 0
  BY <1>2, <1>5 DEF r
<1>6. CASE q = 1
  BY <1>2, <1>6 DEF r
<1> QED
  BY <1>2, <1>3, <1>4, <1>5, <1>6

CursorTypeOK ==
  /\ activeList \in Seq(CursorPlan) /\ dispatchCursor \in Nat
  /\ waited \in [CursorPlan -> Nat] /\ calm \in Nat

\* How far place j of n is from a window that starts at s.
Ahead(j, s, n) == IF j >= s THEN j - s ELSE j - s + n

\* Each pass brings every place nearer by a window, or serves it: until then a place
\* is as far ahead as the passes since the list changed, or since it was served,
\* have left of a round.
RotationInv ==
  \A j \in 0..(Len(activeList) - 1) :
    LET n == Len(activeList)
        far == Ahead(j, dispatchCursor % n, n)
    IN  \/ calm * Covered(n) + far <= n - 1
        \/ waited[activeList[j + 1]] * Covered(n) + far <= n - 1

CursorInv == CursorTypeOK /\ RotationInv

LEMMA CoveredInRange ==
  ASSUME NEW n \in Nat \ {0}
  PROVE  Covered(n) \in 1..n
BY CursorAssumption DEF Covered

LEMMA AheadInRange ==
  ASSUME NEW n \in Nat \ {0}, NEW j \in 0..(n - 1), NEW s \in 0..(n - 1)
  PROVE  Ahead(j, s, n) \in 0..(n - 1)
BY DEF Ahead

\* A place the window does not reach is nearer by the window afterwards.
LEMMA WindowMoves ==
  ASSUME NEW n \in Nat \ {0}, NEW j \in 0..(n - 1), NEW s \in 0..(n - 1)
  PROVE  /\ NextCursor(s, n) \in 0..(n - 1) /\ NextCursor(s, n) % n = NextCursor(s, n)
         /\ Ahead(j, s, n) < Covered(n) => (s + Ahead(j, s, n)) % n = j
         /\ Ahead(j, s, n) >= Covered(n) =>
              Ahead(j, NextCursor(s, n), n) = Ahead(j, s, n) - Covered(n)
<1> DEFINE k == Covered(n)
<1>1. k \in 1..n
  BY CoveredInRange
<1> HIDE DEF k
<1>2. (s + k) % n = IF s + k < n THEN s + k ELSE s + k - n
  <2>0. PICK a \in 0..(2 * n - 1) : a = s + k
    BY <1>1
  <2> DEFINE r == a % n
  <2>1. (a < n => r = a) /\ (a >= n => r = a - n)
    BY ModWraps
  <2>2. r = (s + k) % n
    BY <2>0, Zenon
  <2> HIDE DEF r
  <2>3. r = IF s + k < n THEN s + k ELSE s + k - n
    BY <1>1, <2>0, <2>1
  <2> QED
    BY <2>2, <2>3, Zenon
<1>3. NextCursor(s, n) = IF s + k < n THEN s + k ELSE s + k - n
  BY <1>2 DEF NextCursor, k
<1> DEFINE c == NextCursor(s, n)
<1>4. c \in 0..(n - 1)
  BY <1>1, <1>3
<1>5. c % n = c
  <2>1. c \in 0..(2 * n - 1)
    BY <1>4
  <2> HIDE DEF c
  <2> QED
    BY <1>4, <2>1, ModWraps
<1>6. (s + Ahead(j, s, n)) % n = j
  <2>1. s + Ahead(j, s, n) = IF j >= s THEN j ELSE j + n
    BY DEF Ahead
  <2>2. CASE j >= s
    <3>1. j \in 0..(2 * n - 1)
      OBVIOUS
    <3>3. j % n = j
      BY <3>1, ModWraps
    <3>4. s + Ahead(j, s, n) = j
      BY <2>1, <2>2
    <3> QED
      BY <3>3, <3>4, Zenon
  <2>3. CASE j < s
    <3>1. PICK a \in 0..(2 * n - 1) : a = j + n
      OBVIOUS
    <3>2. a % n = j
      BY <3>1, ModWraps
    <3>3. s + Ahead(j, s, n) = a
      BY <2>1, <2>3, <3>1
    <3> QED
      BY <3>2, <3>3, Zenon
  <2> QED
    BY <2>2, <2>3
<1>7. Ahead(j, s, n) >= k => Ahead(j, c, n) = Ahead(j, s, n) - k
  BY <1>1, <1>3 DEF Ahead
<1> QED
  BY <1>4, <1>5, <1>6, <1>7 DEF k

LEMMA OneMoreWindow ==
  ASSUME NEW c \in Nat, NEW k \in Nat
  PROVE  /\ OneMore(c) \in Nat /\ OneMore(c) * k \in Nat
         /\ OneMore(c) * k <= c * k + k
<1>1. (c + 1) * k = c * k + k /\ c * k \in Nat
  OBVIOUS
<1> QED
  BY <1>1 DEF OneMore

\* A pass serves the places of its window and brings the others nearer.
LEMMA PassStep ==
  ASSUME CursorInv, DispatchPass
  PROVE  CursorInv'
<1> DEFINE n == Len(activeList)
           s == dispatchCursor % n
           k == Covered(n)
<1>1. activeList \in Seq(CursorPlan) /\ n \in Nat \ {0} /\ activeList' = activeList
  BY DEF DispatchPass, CursorInv, CursorTypeOK
<1>2. s \in 0..(n - 1)
  BY <1>1 DEF CursorInv, CursorTypeOK
<1>3. k \in 1..n /\ k \in Nat
  BY <1>1, CoveredInRange
<1>4. /\ dispatchCursor' = NextCursor(s, n) /\ calm' = OneMore(calm)
      /\ waited' = [p \in CursorPlan |->
                      IF p \in Window(activeList, s) \/ p \notin ToSet(activeList)
                      THEN 0 ELSE OneMore(waited[p])]
  BY DEF DispatchPass
<1>5. calm \in Nat /\ waited \in [CursorPlan -> Nat]
  BY DEF CursorInv, CursorTypeOK
<1>6. Window(activeList, s) = {activeList[((s + i) % n) + 1] : i \in 0..(k - 1)}
  BY DEF Window
<1>0. \A j \in 0..(n - 1) : \/ calm * k + Ahead(j, s, n) <= n - 1
                           \/ waited[activeList[j + 1]] * k + Ahead(j, s, n) <= n - 1
  BY DEF CursorInv, RotationInv
<1> HIDE DEF n, s, k
<1>7. CursorTypeOK'
  <2>1. NextCursor(s, n) \in 0..(n - 1)
    BY <1>1, <1>2, WindowMoves
  <2>2. \A p \in CursorPlan : OneMore(waited[p]) \in Nat
    BY <1>3, <1>5, OneMoreWindow
  <2>3. OneMore(calm) \in Nat
    BY <1>3, <1>5, OneMoreWindow
  <2> QED
    BY <1>1, <1>4, <2>1, <2>2, <2>3 DEF CursorTypeOK
<1>8. ASSUME NEW j \in 0..(n - 1)
      PROVE  LET far == Ahead(j, dispatchCursor' % n, n) IN
             \/ calm' * k + far <= n - 1
             \/ waited'[activeList[j + 1]] * k + far <= n - 1
  <2> DEFINE p == activeList[j + 1]
             far == Ahead(j, s, n)
             near == Ahead(j, NextCursor(s, n), n)
  <2>1. p \in CursorPlan /\ p \in ToSet(activeList)
    BY <1>1 DEF ToSet, n
  <2>2. far \in 0..(n - 1)
    BY <1>1, <1>2, AheadInRange
  <2>3. /\ NextCursor(s, n) \in 0..(n - 1) /\ dispatchCursor' % n = NextCursor(s, n)
        /\ far < k => (s + far) % n = j
        /\ far >= k => near = far - k
    BY <1>1, <1>2, <1>4, WindowMoves DEF k
  <2>4. near \in 0..(n - 1)
    BY <1>1, <2>3, AheadInRange
  <2> HIDE DEF p, far, near
  <2>5. CASE far < k
    <3>1. far \in 0..(k - 1) /\ p = activeList[((s + far) % n) + 1]
      BY <1>3, <2>2, <2>3, <2>5 DEF p
    <3>2. p \in Window(activeList, s)
      BY <1>6, <3>1
    <3>3. waited'[p] = 0
      BY <1>4, <2>1, <3>2
    <3>4. waited'[p] * k + near <= n - 1
      BY <1>1, <1>3, <2>4, <3>3
    <3> QED
      BY <2>3, <3>4 DEF p, near
  <2>6. CASE far >= k
    <3>1. near = far - k
      BY <2>3, <2>6
    <3>2. calm * k + far <= n - 1 \/ waited[p] * k + far <= n - 1
      BY <1>0 DEF p, far
    <3>3. CASE calm * k + far <= n - 1
      <4> DEFINE a == calm * k
                 b == calm' * k
      <4>1. OneMore(calm) * k \in Nat /\ OneMore(calm) * k <= calm * k + k
        BY <1>3, <1>5, OneMoreWindow
      <4>2. b \in Nat /\ b <= a + k
        BY <1>4, <4>1
      <4>4. a \in Nat
        BY <1>3, <1>5
      <4>5. a + far <= n - 1
        BY <3>3
      <4> HIDE DEF a, b
      <4>3. b + near <= n - 1
        BY <1>1, <1>3, <2>2, <3>1, <4>2, <4>4, <4>5
      <4> QED
        BY <2>3, <4>3 DEF near, b
    <3>4. CASE waited[p] * k + far <= n - 1
      <4>1. waited[p] \in Nat
        BY <1>5, <2>1
      <4>2. waited'[p] \in {0, OneMore(waited[p])}
        BY <1>4, <2>1
      <4>3. waited'[p] \in Nat /\ waited'[p] * k <= waited[p] * k + k
        <5>1. OneMore(waited[p]) \in Nat /\ OneMore(waited[p]) * k <= waited[p] * k + k
          BY <1>3, <4>1, OneMoreWindow
        <5>2. 0 * k = 0 /\ waited[p] * k \in Nat
          BY <1>3, <4>1
        <5> QED
          BY <1>3, <4>2, <5>1, <5>2
      <4> DEFINE a == waited[p] * k
                 b == waited'[p] * k
      <4>4. a \in Nat /\ b \in Nat /\ b <= a + k /\ a + far <= n - 1
        BY <1>3, <3>4, <4>1, <4>3
      <4> HIDE DEF a, b
      <4>5. b + near <= n - 1
        BY <1>1, <1>3, <2>2, <3>1, <4>4
      <4> QED
        BY <2>3, <4>5 DEF near, p, b
    <3> QED
      BY <3>2, <3>3, <3>4
  <2> QED
    BY <1>3, <2>2, <2>5, <2>6
<1>9. RotationInv'
  BY <1>1, <1>8 DEF RotationInv, n, k
<1> QED
  BY <1>7, <1>9 DEF CursorInv

\* A list that has just changed is within its first round.
LEMMA FreshList ==
  ASSUME activeList \in Seq(CursorPlan), dispatchCursor \in Nat, calm = 0
  PROVE  RotationInv
<1> SUFFICES ASSUME NEW j \in 0..(Len(activeList) - 1)
             PROVE  calm * Covered(Len(activeList))
                      + Ahead(j, dispatchCursor % Len(activeList), Len(activeList))
                      <= Len(activeList) - 1
  BY DEF RotationInv
<1> DEFINE n == Len(activeList)
<1>1. n \in Nat \ {0} /\ j \in 0..(n - 1)
  OBVIOUS
<1>2. dispatchCursor % n \in 0..(n - 1)
  BY <1>1
<1>3. Ahead(j, dispatchCursor % n, n) \in 0..(n - 1)
  BY <1>1, <1>2, AheadInRange
<1>4. Covered(n) \in 1..n
  BY <1>1, CoveredInRange
<1> HIDE DEF n
<1>5. calm * Covered(n) = 0
  BY <1>1, <1>4
<1>6. calm * Covered(n) + Ahead(j, dispatchCursor % n, n) <= n - 1
  BY <1>1, <1>3, <1>5
<1> QED
  BY <1>6 DEF n

LEMMA CursorStep == CursorInv /\ [CursorNext]_cursorVars => CursorInv'
<1> SUFFICES ASSUME CursorInv, [CursorNext]_cursorVars
             PROVE  CursorInv'
  OBVIOUS
<1>0. CursorTypeOK
  BY DEF CursorInv
<1>1. CASE DispatchPass
  BY <1>1, PassStep
<1>2. ASSUME NEW p \in CursorPlan, Activate(p) \/ Deactivate(p)
      PROVE  CursorInv'
  <2>1. RemoveFirst(activeList, p) \in Seq(CursorPlan)
    BY <1>0, RemovingKeepsPlans DEF CursorTypeOK
  <2>2. CursorTypeOK'
    <3>1. activeList' \in Seq(CursorPlan)
      BY <1>2, <2>1 DEF Activate, Deactivate
    <3>2. dispatchCursor' = dispatchCursor /\ calm' = 0
      BY <1>2 DEF Activate, Deactivate
    <3>3. waited' \in [CursorPlan -> Nat]
      BY <1>0, <1>2 DEF Activate, Deactivate, CursorTypeOK
    <3> QED
      BY <1>0, <3>1, <3>2, <3>3 DEF CursorTypeOK
  <2>3. calm' = 0
    BY <1>2 DEF Activate, Deactivate
  <2>4. (activeList \in Seq(CursorPlan) /\ dispatchCursor \in Nat /\ calm = 0 => RotationInv)'
    BY FreshList, PTL
  <2> QED
    BY <2>2, <2>3, <2>4 DEF CursorInv, CursorTypeOK
<1>3. CASE UNCHANGED cursorVars
  BY <1>3 DEF cursorVars, CursorInv, CursorTypeOK, RotationInv
<1> QED
  BY <1>1, <1>2, <1>3 DEF CursorNext

\* As many passes as a round has cover every place.
LEMMA RoundsCover ==
  ASSUME NEW n \in Nat \ {0}, NEW c \in Nat, c >= Rounds(n)
  PROVE  c * Covered(n) >= n
<1> DEFINE k == Covered(n)
           m == n + k - 1
           R == m \div k
<1>1. k \in 1..n
  BY CoveredInRange
<1>2. R = Rounds(n)
  BY DEF Rounds
<1> HIDE DEF k
<1>3. m \in Nat
  BY <1>1
<1> HIDE DEF m
<1>4. m % k \in 0..(k - 1)
  BY <1>1, <1>3
<1>5. R \in Int
  BY <1>1, <1>3
<1>6. m = k * R + (m % k)
  BY <1>1, <1>3
<1> HIDE DEF R
<1>7. k * R >= n
  BY <1>1, <1>4, <1>5, <1>6 DEF m
<1>8. k * c >= k * R
  BY <1>1, <1>2, <1>5
<1>9. k * c >= n /\ c * k = k * c
  BY <1>1, <1>5, <1>7, <1>8
<1> QED
  BY <1>9 DEF k

\* Wherever earlier changes of the list left the offset, a list that stands still for a
\* round of passes has served each of its plans within the last round.
THEOREM PlansGetTheirTurn == CursorSpec => []EveryPlanGetsItsTurn
<1>1. CursorInit => CursorInv
  <2> SUFFICES ASSUME CursorInit
               PROVE  CursorInv
    OBVIOUS
  <2>1. CursorTypeOK
    BY DEF CursorInit, CursorTypeOK
  <2> QED
    BY <2>1, FreshList DEF CursorInit, CursorInv, CursorTypeOK
<1>2. CursorInv => EveryPlanGetsItsTurn
  <2> SUFFICES ASSUME CursorInv, NEW p \in ToSet(activeList),
                      calm >= Rounds(Len(activeList))
               PROVE  waited[p] < Rounds(Len(activeList))
    BY DEF EveryPlanGetsItsTurn
  <2> DEFINE n == Len(activeList)
  <2>1. PICK i \in DOMAIN activeList : p = activeList[i]
    BY DEF ToSet
  <2>2. n \in Nat \ {0} /\ i - 1 \in 0..(n - 1) /\ (i - 1) + 1 = i
    BY <2>1 DEF CursorInv, CursorTypeOK
  <2>3. p \in CursorPlan /\ waited[p] \in Nat /\ calm \in Nat
    BY <2>1 DEF CursorInv, CursorTypeOK
  <2>4. Ahead(i - 1, dispatchCursor % n, n) \in 0..(n - 1)
    <3>1. dispatchCursor % n \in 0..(n - 1)
      BY <2>2 DEF CursorInv, CursorTypeOK
    <3> QED
      BY <2>2, <3>1, AheadInRange
  <2>5. \/ calm * Covered(n) + Ahead(i - 1, dispatchCursor % n, n) <= n - 1
        \/ waited[p] * Covered(n) + Ahead(i - 1, dispatchCursor % n, n) <= n - 1
    BY <2>1, <2>2 DEF CursorInv, RotationInv
  <2>6. calm * Covered(n) >= n
    BY <2>2, <2>3, RoundsCover
  <2>9. waited[p] >= Rounds(n) => waited[p] * Covered(n) >= n
    BY <2>2, <2>3, RoundsCover
  <2>7. Covered(n) \in Nat
    BY <2>2, CoveredInRange
  <2>8. calm * Covered(n) \in Nat /\ waited[p] * Covered(n) \in Nat
    BY <2>3, <2>7
  <2>10. Rounds(n) \in Int
    <3>1. Covered(n) \in 1..n
      BY <2>2, CoveredInRange
    <3>2. n + Covered(n) - 1 \in Nat
      BY <2>2, <3>1
    <3> QED
      BY <3>1, <3>2 DEF Rounds
  <2>11. ~(waited[p] >= Rounds(n))
    <3> HIDE DEF n
    <3> QED
      BY <2>2, <2>4, <2>5, <2>6, <2>8, <2>9
  <2> QED
    BY <2>3, <2>10, <2>11
<1> QED
  BY <1>1, <1>2, CursorStep, PTL DEF CursorSpec

-----------------------------------------------------------------------------
(* Admission                                                               *)

Domains == {DomainOf[a] : a \in Alias} \cup {NotRun}

Admissions ==
  [pass : {"idle", "allowed", "pinned", "independent"},
   step : Step \cup {NoStep}, cand : Alias \cup {NoAlias}, seen : SUBSET Alias,
   peers : SUBSET Domains, left : Int, steady : BOOLEAN]

AdmTypeOK ==
  /\ adm \in Admissions
  /\ adm.pass # "idle" => adm.step \in Step /\ adm.cand \in Alias
  /\ ranOn \in [Step -> Alias \cup {NoAlias}]
  /\ ranDomain \in [Step -> Domains]

\* What the passes before this one have left true of the candidate.  The pin rotates
\* without another look at `providers`, so only a step without a pin keeps that.
PassInv ==
  /\ adm.pass = "pinned" /\ PinFor[adm.step] = NoPin
       => CheckAllowedProviders(adm.cand, adm.step)
  /\ adm.pass = "independent" =>
       /\ PinFor[adm.step] = NoPin /\ PeersOf[adm.step] = {}
            => CheckAllowedProviders(adm.cand, adm.step)
       /\ \A q \in PeersOf[adm.step] : ranDomain[q] # NotRun

\* What DeclarationsAreKept says of the bindings that are running.
BindingsKept ==
  \A s \in Step : ranOn[s] # NoAlias =>
    /\ PinFor[s] = NoPin \/ PeersOf[s] # {} => CheckAllowedProviders(ranOn[s], s)
    /\ PeersOf[s] # {} => DomainOf[ranOn[s]] # Unknown

\* And of the step that starts one.
StartsKept ==
  \A s \in Step : ranOn[s] = NoAlias /\ ranOn'[s] # NoAlias =>
    \A q \in PeersOf[s] :
      /\ ranDomain[q] # NotRun
      /\ ranDomain[q] = DomainOf[ranOn'[s]] => ranDomain[q] \notin adm.peers

AdmInv == AdmTypeOK /\ PassInv /\ BindingsKept

\* The pass that is under way, one by one.
LEMMA PassHoldsMeans ==
  /\ adm.pass = "allowed" /\ PassHolds => CheckAllowedProviders(adm.cand, adm.step)
  /\ adm.pass = "pinned" /\ CheckPinned(adm.cand, adm.step) /\ adm.left >= 0 => PassHolds
  /\ adm.pass = "independent" =>
       /\ PassHolds => CheckIndependent(adm.cand, adm.step, adm.peers)
       /\ CheckIndependent(adm.cand, adm.step, adm.peers) /\ adm.left >= 0 => PassHolds
<1>1. adm.pass = "allowed" =>
        (PassAdmits(adm.cand) = CheckAllowedProviders(adm.cand, adm.step))
  BY DEF PassAdmits
<1>2. adm.pass = "pinned" => (PassAdmits(adm.cand) = CheckPinned(adm.cand, adm.step))
  BY DEF PassAdmits
<1>3. adm.pass = "independent" =>
        (PassAdmits(adm.cand) = CheckIndependent(adm.cand, adm.step, adm.peers))
  BY DEF PassAdmits
<1> QED
  BY <1>1, <1>2, <1>3 DEF PassHolds

\* Whoever ends or cools a turn leaves the admission under way as it is, but for the
\* note that its list has changed.
LEMMA DisturbedKeeps ==
  ASSUME AdmTypeOK, NEW c, adm' = Disturbed(c)
  PROVE  /\ adm'.pass = adm.pass /\ adm'.step = adm.step /\ adm'.cand = adm.cand
         /\ adm'.peers = adm.peers /\ adm' \in Admissions
<1>1. adm' = adm \/ adm' = [adm EXCEPT !.steady = FALSE]
  BY DEF Disturbed
<1> QED
  BY <1>1 DEF AdmTypeOK, Admissions

LEMMA AdmStep ==
  ASSUME AdmInv, [AdmNext]_admVars
  PROVE  AdmInv' /\ StartsKept
<1> USE AdmissionAssumption
<1>0. AdmTypeOK /\ PassInv /\ BindingsKept
  BY DEF AdmInv
<1>1. ASSUME ranOn' = ranOn
      PROVE  BindingsKept' /\ StartsKept
  BY <1>0, <1>1 DEF BindingsKept, StartsKept, CheckAllowedProviders
<1>2. ASSUME NEW s \in Step, BeginAdmission(s)
      PROVE  AdmInv' /\ StartsKept
  <2>1. PICK a \in Alias : adm' = [Idle EXCEPT !.pass = "allowed", !.step = s,
                                    !.cand = a, !.left = MaxRotations]
    BY <1>2 DEF BeginAdmission
  <2>2. ranOn' = ranOn /\ ranDomain' = ranDomain
    BY <1>2 DEF BeginAdmission
  <2>0. adm' = [pass |-> "allowed", step |-> s, cand |-> a, seen |-> {}, peers |-> {},
                left |-> MaxRotations, steady |-> TRUE]
    BY <2>1 DEF Idle
  <2>4. adm'.pass = "allowed" /\ adm'.step = s /\ adm'.cand = a
    BY <2>0
  <2>6. adm' \in Admissions
    BY <2>0 DEF Admissions
  <2>3. AdmTypeOK'
    BY <1>0, <2>2, <2>4, <2>6 DEF AdmTypeOK
  <2>5. PassInv'
    BY <2>4 DEF PassInv
  <2> QED
    BY <1>1, <2>2, <2>3, <2>5 DEF AdmInv
<1>3. CASE AcceptCandidate
  <2>1. /\ adm.pass \in {"allowed", "pinned"} /\ PassHolds
        /\ ranOn' = ranOn /\ ranDomain' = ranDomain
    BY <1>3 DEF AcceptCandidate
  <2> DEFINE begun == [adm EXCEPT !.seen = {}, !.left = MaxRotations]
  <2>2. adm' = IF adm.pass = "allowed" THEN [begun EXCEPT !.pass = "pinned"]
               ELSE IF PeersKnown(adm.step)
               THEN [begun EXCEPT !.pass = "independent",
                                  !.peers = {ranDomain[q] : q \in PeersOf[adm.step]}]
               ELSE Idle
    BY <1>3 DEF AcceptCandidate
  <2>3. adm.step \in Step /\ adm.cand \in Alias
    BY <1>0, <2>1 DEF AdmTypeOK
  <2>4. CASE adm.pass = "allowed"
    <3>1. adm' = [begun EXCEPT !.pass = "pinned"]
      BY <2>2, <2>4
    <3>0. adm' = [pass |-> "pinned", step |-> adm.step, cand |-> adm.cand, seen |-> {},
                  peers |-> adm.peers, left |-> MaxRotations, steady |-> adm.steady]
      BY <1>0, <3>1 DEF AdmTypeOK, Admissions
    <3>2. adm'.pass = "pinned" /\ adm'.cand = adm.cand /\ adm'.step = adm.step
      BY <3>0
    <3>6. adm' \in Admissions
      BY <1>0, <3>0 DEF AdmTypeOK, Admissions
    <3>3. AdmTypeOK'
      BY <1>0, <2>1, <2>3, <3>2, <3>6 DEF AdmTypeOK
    <3>4. CheckAllowedProviders(adm.cand, adm.step)
      BY <2>1, <2>4, PassHoldsMeans
    <3>5. PassInv'
      BY <3>2, <3>4 DEF PassInv, CheckAllowedProviders
    <3> QED
      BY <1>1, <2>1, <3>3, <3>5 DEF AdmInv
  <2>5. CASE adm.pass = "pinned" /\ PeersKnown(adm.step)
    <3> DEFINE P == {ranDomain[q] : q \in PeersOf[adm.step]}
    <3>1. adm' = [begun EXCEPT !.pass = "independent", !.peers = P]
      BY <2>2, <2>5
    <3>0. P \subseteq Domains
      BY <1>0, <2>3 DEF AdmTypeOK
    <3> HIDE DEF P
    <3>6. adm' = [pass |-> "independent", step |-> adm.step, cand |-> adm.cand,
                  seen |-> {}, peers |-> P, left |-> MaxRotations, steady |-> adm.steady]
      BY <1>0, <3>1 DEF AdmTypeOK, Admissions
    <3>2. adm'.pass = "independent" /\ adm'.cand = adm.cand /\ adm'.step = adm.step
      BY <3>6
    <3>7. adm' \in Admissions
      BY <1>0, <3>0, <3>6 DEF AdmTypeOK, Admissions
    <3>3. AdmTypeOK'
      BY <1>0, <2>1, <2>3, <3>2, <3>7 DEF AdmTypeOK
    <3>4. \A q \in PeersOf[adm.step] : ranDomain'[q] # NotRun
      BY <2>1, <2>5 DEF PeersKnown
    <3>5. PassInv'
      BY <1>0, <2>5, <3>2, <3>4 DEF PassInv, CheckAllowedProviders
    <3> QED
      BY <1>1, <2>1, <3>3, <3>5 DEF AdmInv
  <2>6. CASE adm.pass = "pinned" /\ ~PeersKnown(adm.step)
    <3>1. adm' = Idle
      BY <2>2, <2>6
    <3>2. AdmTypeOK' /\ PassInv'
      BY <1>0, <2>1, <3>1 DEF AdmTypeOK, Admissions, PassInv, Idle
    <3> QED
      BY <1>1, <2>1, <3>2 DEF AdmInv
  <2> QED
    BY <2>1, <2>4, <2>5, <2>6
<1>4. CASE RotateCandidate
  <2>1. PICK a \in Alias :
          adm' = [adm EXCEPT !.seen = @ \cup {adm.cand}, !.cand = a, !.left = @ - 1]
    BY <1>4 DEF RotateCandidate
  <2>2. /\ adm.pass \in {"allowed", "pinned", "independent"} /\ ~PassHolds
        /\ adm.left >= 0 /\ ranOn' = ranOn /\ ranDomain' = ranDomain
    BY <1>0, <1>4 DEF RotateCandidate, Exhausted, AdmTypeOK, Admissions
  <2>3. adm.step \in Step /\ adm.cand \in Alias
    BY <1>0, <2>2 DEF AdmTypeOK
  <2>4. adm'.pass = adm.pass /\ adm'.step = adm.step /\ adm'.cand = a
    BY <1>0, <2>1 DEF AdmTypeOK, Admissions
  <2>0. adm' \in Admissions
    <3>1. adm' = [pass |-> adm.pass, step |-> adm.step, cand |-> a,
                  seen |-> adm.seen \cup {adm.cand}, peers |-> adm.peers,
                  left |-> adm.left - 1, steady |-> adm.steady]
      BY <1>0, <2>1 DEF AdmTypeOK, Admissions
    <3>2. adm.seen \cup {adm.cand} \in SUBSET Alias /\ adm.left - 1 \in Int
      BY <1>0, <2>3 DEF AdmTypeOK, Admissions
    <3> QED
      BY <1>0, <3>1, <3>2 DEF AdmTypeOK, Admissions
  <2>5. AdmTypeOK'
    BY <1>0, <2>0, <2>2, <2>3, <2>4 DEF AdmTypeOK
  <2>6. adm.pass = "pinned" => PinFor[adm.step] # NoPin
    BY <2>2, PassHoldsMeans DEF CheckPinned
  <2>7. adm.pass = "independent" => PeersOf[adm.step] # {}
    BY <2>2, PassHoldsMeans DEF CheckIndependent
  <2>8. PassInv'
    BY <1>0, <2>2, <2>4, <2>6, <2>7 DEF PassInv
  <2> QED
    BY <1>1, <2>2, <2>5, <2>8 DEF AdmInv
<1>5. CASE RefuseStep
  <2>1. adm' = Idle /\ ranOn' = ranOn /\ ranDomain' = ranDomain
    BY <1>5 DEF RefuseStep
  <2>2. AdmTypeOK' /\ PassInv'
    BY <1>0, <2>1 DEF AdmTypeOK, Admissions, PassInv, Idle
  <2> QED
    BY <1>1, <2>1, <2>2 DEF AdmInv
<1>6. CASE LaunchStep
  <2>1. /\ adm.pass = "independent" /\ PassHolds /\ adm' = Idle /\ ranDomain' = ranDomain
        /\ ranOn' = ranOn \/ ranOn' = [ranOn EXCEPT ![adm.step] = adm.cand]
    BY <1>6 DEF LaunchStep
  <2>2. adm.step \in Step /\ adm.cand \in Alias
    BY <1>0, <2>1 DEF AdmTypeOK
  <2>3. AdmTypeOK' /\ PassInv'
    BY <1>0, <2>1, <2>2 DEF AdmTypeOK, Admissions, PassInv, Idle
  <2>4. CASE ranOn' = ranOn
    BY <1>1, <2>3, <2>4 DEF AdmInv
  <2>5. CASE ranOn' = [ranOn EXCEPT ![adm.step] = adm.cand]
    <3>1. /\ \A s \in Step : s # adm.step => ranOn'[s] = ranOn[s]
          /\ ranOn'[adm.step] = adm.cand
      BY <1>0, <2>2, <2>5 DEF AdmTypeOK
    <3>2. CheckIndependent(adm.cand, adm.step, adm.peers)
      BY <2>1, PassHoldsMeans
    <3>3. PinFor[adm.step] = NoPin \/ PeersOf[adm.step] # {}
            => CheckAllowedProviders(adm.cand, adm.step)
      BY <1>0, <2>1, <3>2 DEF PassInv, CheckIndependent
    <3>4. PeersOf[adm.step] # {} =>
            DomainOf[adm.cand] # Unknown /\ DomainOf[adm.cand] \notin adm.peers
      BY <3>2 DEF CheckIndependent
    <3>5. \A q \in PeersOf[adm.step] : ranDomain[q] # NotRun
      BY <1>0, <2>1 DEF PassInv
    <3>6. BindingsKept'
      BY <1>0, <3>1, <3>3, <3>4 DEF BindingsKept, CheckAllowedProviders
    <3>7. StartsKept
      BY <3>1, <3>4, <3>5 DEF StartsKept
    <3> QED
      BY <2>3, <3>6, <3>7 DEF AdmInv
  <2> QED
    BY <2>1, <2>4, <2>5
<1>7. ASSUME NEW s \in Step, RecordProvenance(s)
      PROVE  AdmInv' /\ StartsKept
  <2>1. /\ ranOn[s] # NoAlias /\ adm' = adm /\ ranOn' = ranOn
        /\ ranDomain' = [ranDomain EXCEPT ![s] = DomainOf[ranOn[s]]]
    BY <1>7 DEF RecordProvenance
  <2>2. ranOn[s] \in Alias /\ DomainOf[ranOn[s]] \in Domains /\ DomainOf[ranOn[s]] # NotRun
    BY <1>0, <2>1 DEF AdmTypeOK, Domains
  <2>3. AdmTypeOK'
    BY <1>0, <2>1, <2>2 DEF AdmTypeOK
  <2>4. \A q \in Step : ranDomain[q] # NotRun => ranDomain'[q] # NotRun
    BY <1>0, <2>1, <2>2 DEF AdmTypeOK
  <2>5. adm.pass = "independent" => adm.step \in Step /\ PeersOf[adm.step] \subseteq Step
    BY <1>0 DEF AdmTypeOK
  <2>6. PassInv'
    BY <1>0, <2>1, <2>4, <2>5 DEF PassInv, CheckAllowedProviders
  <2> QED
    BY <1>1, <2>1, <2>3, <2>6 DEF AdmInv
<1>8. ASSUME NEW c, adm' = Disturbed(c), ranDomain' = ranDomain,
             ranOn' \in [Step -> Alias \cup {NoAlias}],
             \A s \in Step : ranOn'[s] \in {ranOn[s], NoAlias}
      PROVE  AdmInv' /\ StartsKept
  <2>1. /\ adm'.pass = adm.pass /\ adm'.step = adm.step /\ adm'.cand = adm.cand
        /\ adm' \in Admissions
    BY <1>0, <1>8, DisturbedKeeps
  <2>2. AdmTypeOK'
    BY <1>0, <1>8, <2>1 DEF AdmTypeOK
  <2>3. PassInv'
    BY <1>0, <1>8, <2>1 DEF PassInv, CheckAllowedProviders
  <2>4. BindingsKept' /\ StartsKept
    BY <1>0, <1>8 DEF BindingsKept, StartsKept, CheckAllowedProviders
  <2> QED
    BY <2>2, <2>3, <2>4 DEF AdmInv
<1>9. ASSUME NEW s \in Step, EndStepTurn(s)
      PROVE  AdmInv' /\ StartsKept
  <2>1. /\ adm' = Disturbed(cool') /\ ranDomain' = ranDomain
        /\ ranOn' = [ranOn EXCEPT ![s] = NoAlias]
    BY <1>9 DEF EndStepTurn
  <2>2. /\ ranOn' \in [Step -> Alias \cup {NoAlias}]
        /\ \A x \in Step : ranOn'[x] \in {ranOn[x], NoAlias}
    BY <1>0, <2>1 DEF AdmTypeOK
  <2> QED
    BY <1>8, <2>1, <2>2
<1>10. ASSUME NEW a \in Alias, EndOtherTurn(a)
       PROVE  AdmInv' /\ StartsKept
  <2>1. adm' = Disturbed(cool') /\ ranDomain' = ranDomain /\ ranOn' = ranOn
    BY <1>10 DEF EndOtherTurn
  <2>2. ranOn \in [Step -> Alias \cup {NoAlias}]
    BY <1>0 DEF AdmTypeOK
  <2> QED
    BY <1>8, <2>1, <2>2
<1>11. CASE CoolDown
  <2>1. adm' = Disturbed(cool') /\ ranDomain' = ranDomain /\ ranOn' = ranOn
    BY <1>11 DEF CoolDown
  <2>2. ranOn \in [Step -> Alias \cup {NoAlias}]
    BY <1>0 DEF AdmTypeOK
  <2> QED
    BY <1>8, <2>1, <2>2
<1>12. CASE UNCHANGED admVars
  <2>1. adm' = adm /\ ranDomain' = ranDomain /\ ranOn' = ranOn
    BY <1>12 DEF admVars
  <2>2. AdmTypeOK' /\ PassInv'
    BY <1>0, <2>1 DEF AdmTypeOK, PassInv, CheckAllowedProviders
  <2> QED
    BY <1>1, <2>1, <2>2 DEF AdmInv
<1> QED
  BY <1>2, <1>3, <1>4, <1>5, <1>6, <1>7, <1>9, <1>10, <1>11, <1>12 DEF AdmNext

LEMMA AdmInitInv == AdmInit => AdmInv
BY DEF AdmInit, AdmInv, AdmTypeOK, PassInv, BindingsKept, Idle, Domains, Admissions

\* A step runs only where its `providers`, its pin and its differentFrom allow, for
\* every pool, every calibration and whatever ends, fails or cools down meanwhile.
THEOREM DeclarationsHold == AdmSpec => DeclarationsAreKept
<1>1. AdmInit => AdmInv
  BY AdmInitInv
<1>2. AdmInv /\ [AdmNext]_admVars => AdmInv' /\ StartsKept
  BY AdmStep
<1>3. AdmInv => BindingsKept
  BY DEF AdmInv
<1> QED
  BY <1>1, <1>2, <1>3, PTL DEF AdmSpec, DeclarationsAreKept, BindingsKept, StartsKept

\* Numbers up to n can be listed in order: of the sets that could not be, take the
\* smallest and leave out its greatest member.
IsListing(s, I) ==
  /\ {s[k] : k \in DOMAIN s} = I
  /\ \A j, k \in DOMAIN s : j < k => s[j] < s[k]

LEMMA FiniteNumbers ==
  ASSUME NEW n \in Nat, NEW I, I \subseteq 1..n
  PROVE  /\ IsFiniteSet(I) /\ Cardinality(I) \in Nat /\ Cardinality(I) <= n
         /\ (I # {} => Cardinality(I) # 0)
<1>1. IsFiniteSet(1..n) /\ Cardinality(1..n) = n
  <2>1. n # 0 => 1 \in Int /\ n \in Int /\ ~(1 > n)
    OBVIOUS
  <2>2. CASE n = 0
    BY <2>2, FS_EmptySet
  <2>3. CASE n # 0
    BY <2>1, <2>3, FS_Interval
  <2> QED
    BY <2>2, <2>3
<1>2. IsFiniteSet(I) /\ Cardinality(I) <= n
  BY <1>1, FS_Subset
<1> QED
  BY <1>2, FS_CardinalityType, FS_EmptySet

LEMMA ListingExists ==
  ASSUME NEW b \in Nat, NEW S, S \subseteq 1..b
  PROVE  \E s \in [1..Cardinality(S) -> S] : IsListing(s, S)
<1> DEFINE Can(T) == \E s \in [1..Cardinality(T) -> T] : IsListing(s, T)
           Bad == {n \in Nat : \E T \in SUBSET (1..b) : Cardinality(T) = n /\ ~Can(T)}
<1> SUFFICES ASSUME ~Can(S)
             PROVE  FALSE
  OBVIOUS
<1>1. Cardinality(S) \in Bad
  BY FiniteNumbers
<1>2. PICK n \in Bad : \A m \in Bad : n <= m
  <2>1. Bad \subseteq Nat
    OBVIOUS
  <2> HIDE DEF Bad
  <2> QED
    BY <1>1, <2>1, HasMin
<1>3. n \in Nat
  OBVIOUS
<1>4. PICK T \in SUBSET (1..b) : Cardinality(T) = n /\ ~Can(T)
  OBVIOUS
<1>5. T # {}
  <2> SUFFICES ASSUME T = {}
               PROVE  Can(T)
    BY <1>4
  <2>1. Cardinality(T) = 0
    BY FS_EmptySet
  <2> DEFINE e == [i \in 1..0 |-> 0]
  <2>2. e \in [1..Cardinality(T) -> T] /\ DOMAIN e = {}
    BY <2>1
  <2>3. IsListing(e, T)
    BY <2>2 DEF IsListing
  <2> QED
    BY <2>2, <2>3
<1>6. PICK m \in T : \A y \in T : y # m => y < m
  <2>1. T \subseteq 0..b
    BY <1>4
  <2>2. Max(T) \in T /\ \A y \in T : y <= Max(T)
    BY <1>5, <2>1, HasMax
  <2>3. \A y \in T : y \in Nat
    BY <1>4
  <2>4. PICK x \in T : x = Max(T)
    BY <2>2
  <2>5. \A y \in T : y # x => y < x
    BY <2>2, <2>3, <2>4
  <2> HIDE DEF Bad, Can
  <2> QED
    BY <2>5
<1> DEFINE U == T \ {m}
<1>7. U \in SUBSET (1..b) /\ Cardinality(U) = n - 1 /\ n > 0
  <2>1. IsFiniteSet(T) /\ Cardinality(T) \in Nat
    BY <1>4, FiniteNumbers
  <2>2. Cardinality(U) = Cardinality(T) - 1
    BY <1>6, <2>1, FS_RemoveElement
  <2>3. Cardinality(U) \in Nat
    BY <1>4, FiniteNumbers
  <2> QED
    BY <1>3, <1>4, <2>2, <2>3
<1>8. Can(U)
  <2>1. n - 1 \in Nat /\ ~(n <= n - 1)
    BY <1>3, <1>7
  <2>2. n - 1 \notin Bad
    BY <1>2, <2>1
  <2> HIDE DEF Can
  <2> QED
    BY <1>7, <2>1, <2>2
<1>9. PICK s \in [1..(n - 1) -> U] : IsListing(s, U)
  BY <1>7, <1>8
<1> DEFINE t == [i \in 1..n |-> IF i = n THEN m ELSE s[i]]
<1> HIDE DEF U, Bad, Can
<1>10. \A i \in 1..n : i # n => i \in 1..(n - 1) /\ t[i] = s[i] /\ s[i] \in U
  BY <1>3, <1>9
<1>11. t \in [1..n -> T] /\ t[n] = m /\ n \in 1..n
  BY <1>3, <1>6, <1>7, <1>10 DEF U
<1>12. {t[k] : k \in 1..n} = T
  <2>1. \A r \in T : \E i \in 1..n : t[i] = r
    <3> SUFFICES ASSUME NEW r \in T, r # m
                 PROVE  \E i \in 1..n : t[i] = r
      BY <1>11
    <3>1. PICK i \in 1..(n - 1) : s[i] = r
      BY <1>9 DEF IsListing, U
    <3>2. i \in 1..n /\ t[i] = s[i]
      BY <1>3, <3>1
    <3> QED
      BY <3>1, <3>2
  <2> HIDE DEF t
  <2> QED
    BY <1>11, <2>1
<1>13. ASSUME NEW i \in 1..n, NEW j \in 1..n, i < j
       PROVE  t[i] < t[j]
  <2>1. i # n /\ i \in 1..(n - 1) /\ t[i] = s[i] /\ s[i] \in U
    BY <1>3, <1>10, <1>13
  <2>2. CASE j = n
    BY <1>6, <1>11, <2>1, <2>2 DEF U
  <2>3. CASE j # n
    <3>1. j \in 1..(n - 1) /\ t[j] = s[j]
      BY <1>10, <2>3
    <3> QED
      BY <1>9, <1>13, <2>1, <3>1 DEF IsListing
  <2> QED
    BY <2>2, <2>3
<1>14. IsListing(t, T)
  <2>1. DOMAIN t = 1..n
    OBVIOUS
  <2> HIDE DEF t
  <2> QED
    BY <1>12, <1>13, <2>1 DEF IsListing
<1>15. Can(T)
  <2> HIDE DEF t
  <2> QED
    BY <1>4, <1>11, <1>14 DEF Can
<1> QED
  BY <1>4, <1>15

\* A list to rotate over: members of the pool, none twice.
IsRotation(names) ==
  /\ names \in Seq(PoolSet) /\ names # <<>> /\ Len(names) <= Len(Pool)
  /\ \A i, j \in 1..Len(names) : names[i] = names[j] => i = j

LEMMA PoolIsRotation ==
  IsRotation(Pool) /\ PoolSet \subseteq Alias /\ DOMAIN Pool = 1..Len(Pool)
<1>1. Pool \in Seq(Alias) /\ Pool # <<>> /\ Len(Pool) \in Nat /\ DOMAIN Pool = 1..Len(Pool)
  BY AdmissionAssumption
<1>2. Pool \in Seq(PoolSet) /\ PoolSet \subseteq Alias
  BY <1>1 DEF PoolSet
<1> QED
  BY <1>1, <1>2, AdmissionAssumption DEF IsRotation

LEMMA FreeIsRotation ==
  ASSUME ~(PoolSet \subseteq Cooled)
  PROVE  IsRotation(Free)
<1> DEFINE kept == {i \in DOMAIN Pool : Pool[i] \notin Cooled}
           n == Cardinality(kept)
           place == CHOOSE s \in [1..n -> kept] : IsListing(s, kept)
<1>1. Len(Pool) \in Nat /\ DOMAIN Pool = 1..Len(Pool) /\ kept \subseteq 1..Len(Pool)
  BY PoolIsRotation, AdmissionAssumption
<1>2. kept # {}
  BY <1>1 DEF PoolSet
<1> HIDE DEF kept
<1>3. n \in Nat /\ n # 0 /\ n <= Len(Pool)
  BY <1>1, <1>2, FiniteNumbers
<1>4. \E s \in [1..n -> kept] : IsListing(s, kept)
  BY <1>1, ListingExists
<1>5. place \in [1..n -> kept] /\ IsListing(place, kept)
  BY <1>4
<1>6. Free = [k \in 1..n |-> Pool[place[k]]]
  BY Zenon DEF Free, kept, IsListing
<1> HIDE DEF n, place
<1>7. \A k \in 1..n : place[k] \in 1..Len(Pool) /\ Free[k] = Pool[place[k]]
  BY <1>1, <1>5, <1>6
<1>8. Free \in [1..n -> PoolSet]
  <2>1. \A k \in 1..n : Pool[place[k]] \in PoolSet
    BY <1>7 DEF PoolSet
  <2> QED
    BY <1>6, <2>1
<1>9. Free \in Seq(PoolSet) /\ Len(Free) = n /\ Free # <<>>
  BY <1>3, <1>8
<1>10. ASSUME NEW i \in 1..n, NEW j \in 1..n, Free[i] = Free[j]
       PROVE  i = j
  <2>1. place[i] = place[j]
    BY <1>1, <1>7, <1>10, AdmissionAssumption
  <2>2. place[i] \in Int
    BY <1>7, <1>1
  <2>3. ~(i < j) /\ ~(j < i)
    BY <1>5, <2>1, <2>2 DEF IsListing
  <2> QED
    BY <1>3, <2>3
<1> QED
  BY <1>3, <1>9, <1>10 DEF IsRotation

\* The list while some member of the pool is not cooled.
LEMMA NamesAreOne ==
  ASSUME ~(PoolSet \subseteq Cooled)
  PROVE  \E N : Names = {N} /\ IsRotation(N)
<1>1. CASE Len(Pool) = 1 \/ Cooled = {}
  BY <1>1, PoolIsRotation DEF Names
<1>2. CASE ~(Len(Pool) = 1 \/ Cooled = {})
  BY <1>2, FreeIsRotation DEF Names
<1> QED
  BY <1>1, <1>2

\* There is always a list, and it is of the pool unless all of that is cooled.
NamesSound ==
  /\ \A names \in Names :
       /\ names # <<>>
       /\ PoolSet \subseteq Cooled \/ \A i \in 1..Len(names) : names[i] \in PoolSet
  /\ Names # {}

LEMMA NamesAreSound ==
  ASSUME cool \in [Alias -> Nat]
  PROVE  NamesSound
<1>1. CASE ~(PoolSet \subseteq Cooled)
  <2>1. PICK N : Names = {N} /\ IsRotation(N)
    BY <1>1, NamesAreOne
  <2> QED
    BY <2>1 DEF NamesSound, IsRotation
<1>2. CASE PoolSet \subseteq Cooled
  <2>1. CASE Len(Pool) = 1 \/ Cooled = {}
    BY <1>2, <2>1, PoolIsRotation DEF Names, NamesSound, IsRotation
  <2>2. CASE ~(Len(Pool) = 1 \/ Cooled = {})
    <3>1. Names = {<<a>> : a \in EarliestExpiry}
      BY <1>2, <2>2 DEF Names
    <3> DEFINE T == {cool[a] : a \in Cooled}
    <3>2. T \subseteq Nat /\ T # {}
      BY <2>2 DEF Cooled
    <3>3. PICK m \in T : \A y \in T : m <= y
      BY <3>2, HasMin
    <3>4. PICK a \in Cooled : cool[a] = m
      BY <3>3
    <3>5. a \in EarliestExpiry
      BY <3>3, <3>4 DEF EarliestExpiry
    <3>6. \A names \in Names : names # <<>>
      <4> SUFFICES ASSUME NEW b \in EarliestExpiry
                   PROVE  <<b>> # <<>>
        BY <3>1
      <4> QED
        OBVIOUS
    <3> QED
      BY <1>2, <3>1, <3>5, <3>6 DEF NamesSound
  <2> QED
    BY <2>1, <2>2
<1> QED
  BY <1>1, <1>2

\* Division with remainder has one result.
LEMMA ModUnique ==
  ASSUME NEW n \in Nat \ {0}, NEW a \in Nat, NEW q \in Int, NEW r \in 0..(n - 1),
         a = n * q + r
  PROVE  a % n = r
<1>1. a % n \in 0..(n - 1)
  OBVIOUS
<1>2. a \div n \in Int
  OBVIOUS
<1>3. a = n * (a \div n) + (a % n)
  OBVIOUS
<1> DEFINE p == a \div n
           s == a % n
<1>4. p \in Int /\ s \in 0..(n - 1) /\ n * p + s = n * q + r
  BY <1>1, <1>2, <1>3
<1> HIDE DEF p, s
<1>5. ~(p >= q + 1)
  <2> SUFFICES ASSUME p >= q + 1
               PROVE  FALSE
    OBVIOUS
  <2>1. n * p >= n * (q + 1)
    BY <1>4
  <2>2. n * (q + 1) = n * q + n
    OBVIOUS
  <2> QED
    BY <1>4, <2>1, <2>2
<1>6. ~(q >= p + 1)
  <2> SUFFICES ASSUME q >= p + 1
               PROVE  FALSE
    OBVIOUS
  <2>1. n * q >= n * (p + 1)
    BY <1>4
  <2>2. n * (p + 1) = n * p + n
    BY <1>4
  <2> QED
    BY <1>4, <2>1, <2>2
<1>7. p = q
  BY <1>4, <1>5, <1>6
<1> QED
  BY <1>4, <1>7 DEF s

\* One place further, round the end.
Wrap(n, x) == IF x >= n THEN x - n ELSE x

LEMMA ModNext ==
  ASSUME NEW n \in Nat \ {0}, NEW c \in Nat
  PROVE  c % n \in 0..(n - 1) /\ (c + 1) % n = Wrap(n, (c % n) + 1)
<1>1. c % n \in 0..(n - 1)
  OBVIOUS
<1>2. c \div n \in Int
  OBVIOUS
<1>3. c = n * (c \div n) + (c % n)
  OBVIOUS
<1> DEFINE q == c \div n
           r == c % n
<1>4. q \in Int /\ r \in 0..(n - 1) /\ c = n * q + r
  BY <1>1, <1>2, <1>3
<1> HIDE DEF q, r
<1>5. CASE r + 1 < n
  <2>1. r + 1 \in 0..(n - 1) /\ c + 1 = n * q + (r + 1) /\ c + 1 \in Nat
    BY <1>4, <1>5
  <2>2. (c + 1) % n = r + 1
    BY <1>4, <2>1, ModUnique
  <2> QED
    BY <1>1, <1>4, <1>5, <2>2 DEF Wrap, r
<1>6. CASE r + 1 = n
  <2>1. n * (q + 1) = n * q + n
    BY <1>4
  <2>2. 0 \in 0..(n - 1) /\ q + 1 \in Int /\ c + 1 = n * (q + 1) + 0 /\ c + 1 \in Nat
    BY <1>4, <1>6, <2>1
  <2>3. (c + 1) % n = 0
    BY <2>2, ModUnique
  <2> QED
    BY <1>1, <1>4, <1>6, <2>3 DEF Wrap, r
<1> QED
  BY <1>4, <1>5, <1>6

\* The cursor, as the list sees it.
LEMMA CursorNextPlace ==
  ASSUME cursor \in 0..(CursorPeriod - 1), NEW n \in 1..Len(Pool),
         cursor' = (cursor + 1) % CursorPeriod
  PROVE  /\ cursor' \in 0..(CursorPeriod - 1) /\ cursor % n \in 0..(n - 1)
         /\ cursor' % n = Wrap(n, (cursor % n) + 1)
<1>0. CursorPeriod \in Nat \ {0} /\ CursorPeriod % n = 0 /\ n \in Nat \ {0} /\ cursor \in Nat
  BY AdmissionAssumption
<1>1. /\ cursor % n \in 0..(n - 1) /\ (cursor + 1) % n = Wrap(n, (cursor % n) + 1)
      /\ cursor % CursorPeriod \in 0..(CursorPeriod - 1)
      /\ (cursor + 1) % CursorPeriod = Wrap(CursorPeriod, (cursor % CursorPeriod) + 1)
  BY <1>0, ModNext
<1>2. cursor % CursorPeriod = cursor
  <2>1. 0 \in Int /\ cursor = CursorPeriod * 0 + cursor
    BY <1>0
  <2> QED
    BY <1>0, <2>1, ModUnique
<1>3. CASE cursor + 1 < CursorPeriod
  <2>1. cursor' = cursor + 1
    BY <1>0, <1>1, <1>2, <1>3 DEF Wrap
  <2> QED
    BY <1>0, <1>1, <1>3, <2>1
<1>4. CASE cursor + 1 = CursorPeriod
  <2>1. cursor' = 0
    BY <1>0, <1>1, <1>2, <1>4 DEF Wrap
  <2>2. 0 % n = 0
    <3>1. 0 \in Int /\ 0 \in 0..(n - 1) /\ 0 = n * 0 + 0
      BY <1>0
    <3> QED
      BY <1>0, <3>1, ModUnique
  <2>3. (cursor + 1) % n = 0
    BY <1>0, <1>4
  <2> QED
    BY <1>0, <1>1, <2>1, <2>2, <2>3
<1> QED
  BY <1>0, <1>3, <1>4

\* Where a pass stands in its list: it began at place p, has gone n places on without a
\* wrap, and has turned down every name on the way.
Rotated(N) ==
  LET L == Len(N)
      n == MaxRotations - adm.left
  IN  \E p \in 0..(L - 1) :
        /\ n \in 0..L
        /\ adm.cand = N[Wrap(L, p + n) + 1]
        /\ cursor % L = Wrap(L, Wrap(L, p + n) + 1)
        /\ adm.seen = {N[Wrap(L, p + k) + 1] : k \in 0..(n - 1)}
        /\ \A a \in adm.seen : ~PassAdmits(a)

RotationKept ==
  adm.pass # "idle" /\ adm.steady /\ ~(PoolSet \subseteq Cooled)
    => \A N \in Names : Rotated(N)

CoolTypeOK ==
  /\ cursor \in 0..(CursorPeriod - 1)
  /\ cool \in [Alias -> Nat] /\ failures \in [Alias -> 0..Len(Backoff)]

RefusalInv == AdmInv /\ CoolTypeOK /\ RotationKept

\* What RefusalIsExhaustive says of the step that refuses.
RefusalStep ==
  adm.pass \in {"allowed", "pinned", "independent"} /\ adm' = Idle
    /\ ~PassHolds /\ adm.steady /\ ~(PoolSet \subseteq Cooled)
  => \A names \in Names : \A i \in 1..Len(names) : ~PassAdmits(names[i])

LEMMA CooldownTypes ==
  ASSUME CoolTypeOK, NEW a \in Alias, RecordFailure(a) \/ RecordSuccess(a)
  PROVE  cool' \in [Alias -> Nat] /\ failures' \in [Alias -> 0..Len(Backoff)]
<1>1. /\ Len(Backoff) \in Nat \ {0} /\ \A i \in 1..Len(Backoff) : Backoff[i] \in Nat
      /\ failures[a] \in 0..Len(Backoff)
  BY AdmissionAssumption DEF CoolTypeOK
<1> DEFINE n == IF failures[a] < Len(Backoff) THEN failures[a] + 1 ELSE failures[a]
<1>2. n \in 1..Len(Backoff)
  BY <1>1
<1> HIDE DEF n
<1>3. CASE RecordFailure(a)
  <2>1. failures' = [failures EXCEPT ![a] = n] /\ cool' = [cool EXCEPT ![a] = Backoff[n]]
    BY <1>3 DEF RecordFailure, n
  <2> QED
    BY <1>1, <1>2, <2>1 DEF CoolTypeOK
<1>4. CASE RecordSuccess(a)
  BY <1>1, <1>4 DEF RecordSuccess, CoolTypeOK
<1> QED
  BY <1>3, <1>4

LEMMA NamesSame ==
  ASSUME cool' = cool
  PROVE  Names' = Names /\ Cooled' = Cooled /\ PoolSet' = PoolSet
<1>1. Cooled' = Cooled /\ PoolSet' = PoolSet
  BY DEF Cooled, PoolSet
<1>2. Free' = Free
  BY <1>1 DEF Free
<1>3. EarliestExpiry' = EarliestExpiry
  BY <1>1 DEF EarliestExpiry
<1> QED
  BY <1>1, <1>2, <1>3 DEF Names

\* What a name has to satisfy depends on the pass, the step and the peers alone.
LEMMA AdmitsSame ==
  ASSUME adm'.pass = adm.pass, adm'.step = adm.step, adm'.peers = adm.peers, NEW a
  PROVE  PassAdmits(a)' = PassAdmits(a)
BY DEF PassAdmits, CheckAllowedProviders, CheckPinned, CheckIndependent

LEMMA RotationSame ==
  ASSUME RotationKept, adm' = adm, cursor' = cursor, cool' = cool
  PROVE  RotationKept'
<1>1. Names' = Names /\ Cooled' = Cooled /\ PoolSet' = PoolSet
  BY NamesSame
<1>2. ASSUME NEW N, Rotated(N)
      PROVE  Rotated(N)'
  <2>1. \A a : PassAdmits(a)' = PassAdmits(a)
    BY AdmitsSame
  <2> QED
    BY <1>2, <2>1 DEF Rotated, Wrap
<1> QED
  BY <1>1, <1>2 DEF RotationKept

\* A pass begins at the candidate, with nothing turned down.
LEMMA PassBegins ==
  ASSUME NEW N, IsRotation(N), NEW p \in 0..(Len(N) - 1),
         adm'.left = MaxRotations, adm'.seen = {}, adm'.cand = N[p + 1],
         cursor' % Len(N) = Wrap(Len(N), p + 1)
  PROVE  Rotated(N)'
<1> DEFINE L == Len(N)
<1>1. L \in Nat \ {0} /\ MaxRotations \in Nat
  BY AdmissionAssumption DEF IsRotation
<1>2. MaxRotations - adm'.left = 0 /\ 0 \in 0..L /\ p + 0 = p /\ Wrap(L, p) = p
  BY <1>1 DEF Wrap
<1>3. {N[Wrap(L, p + k) + 1] : k \in 0..(0 - 1)} = {}
  OBVIOUS
<1> HIDE DEF L
<1>4. /\ 0 \in 0..L /\ adm'.cand = N[Wrap(L, p + 0) + 1]
      /\ cursor' % L = Wrap(L, Wrap(L, p + 0) + 1)
      /\ adm'.seen = {N[Wrap(L, p + k) + 1] : k \in 0..(0 - 1)}
      /\ \A a \in adm'.seen : ~PassAdmits(a)'
  BY <1>2, <1>3 DEF L
<1> QED
  BY <1>2, <1>4 DEF Rotated, L

\* One more name is turned down.
LEMMA PassRotates ==
  ASSUME NEW N, IsRotation(N), Rotated(N), adm \in Admissions, ~Exhausted,
         ~PassAdmits(adm.cand),
         adm'.pass = adm.pass, adm'.step = adm.step, adm'.peers = adm.peers,
         adm'.left = adm.left - 1, adm'.seen = adm.seen \cup {adm.cand},
         adm'.cand = N[(cursor % Len(N)) + 1],
         cursor' % Len(N) = Wrap(Len(N), (cursor % Len(N)) + 1)
  PROVE  Rotated(N)'
<1> DEFINE L == Len(N)
           n == MaxRotations - adm.left
           At(x) == N[Wrap(L, x) + 1]
<1>1. L \in Nat \ {0} /\ MaxRotations \in Nat /\ adm.left \in Int
  BY AdmissionAssumption DEF IsRotation, Admissions
<1>2. PICK p \in 0..(L - 1) :
        /\ n \in 0..L
        /\ adm.cand = At(p + n)
        /\ cursor % L = Wrap(L, Wrap(L, p + n) + 1)
        /\ adm.seen = {At(p + k) : k \in 0..(n - 1)}
        /\ \A a \in adm.seen : ~PassAdmits(a)
  BY DEF Rotated
<1>3. MaxRotations - adm'.left = n + 1
  BY <1>1
<1> HIDE DEF n
<1>4. n # L
  <2> SUFFICES ASSUME n = L
               PROVE  adm.cand \in adm.seen
    BY DEF Exhausted
  <2>1. Wrap(L, p + n) = p /\ Wrap(L, p + 0) = p /\ 0 \in 0..(n - 1)
    BY <1>1 DEF Wrap
  <2>2. At(p + n) = At(p + 0)
    BY <2>1
  <2> HIDE DEF At
  <2> QED
    BY <1>2, <2>1, <2>2
<1>5. n + 1 \in 0..L
  BY <1>1, <1>2, <1>4
<1>6. Wrap(L, Wrap(L, p + n) + 1) = Wrap(L, p + (n + 1))
  BY <1>1, <1>2, <1>5 DEF Wrap
<1>7. adm'.cand = At(p + (n + 1))
  BY <1>2, <1>6
<1>8. cursor' % L = Wrap(L, Wrap(L, p + (n + 1)) + 1)
  BY <1>2, <1>6
<1> HIDE DEF At, L
<1>9. adm'.seen = {At(p + k) : k \in 0..((n + 1) - 1)}
  <2>1. \A k : k \in 0..((n + 1) - 1) <=> (k \in 0..(n - 1) \/ k = n)
    BY <1>2, <1>1
  <2> QED
    BY <1>2, <2>1
<1>10. \A a \in adm'.seen : ~PassAdmits(a)'
  <2>1. \A a : PassAdmits(a)' = PassAdmits(a)
    BY AdmitsSame
  <2> QED
    BY <1>2, <2>1
<1>11. \E x \in 0..(L - 1) :
         /\ n + 1 \in 0..L
         /\ adm'.cand = N[Wrap(L, x + (n + 1)) + 1]
         /\ cursor' % L = Wrap(L, Wrap(L, x + (n + 1)) + 1)
         /\ adm'.seen = {N[Wrap(L, x + k) + 1] : k \in 0..((n + 1) - 1)}
         /\ \A a \in adm'.seen : ~PassAdmits(a)'
  BY <1>5, <1>7, <1>8, <1>9, <1>10 DEF At
<1> QED
  BY <1>3, <1>11 DEF Rotated, L

\* Once round, or at the bound if the pool fits: every name was turned down.
LEMMA AllTurnedDown ==
  ASSUME NEW N, IsRotation(N), Rotated(N), adm \in Admissions, Exhausted, PoolFits
  PROVE  \A i \in 1..Len(N) : ~PassAdmits(N[i])
<1> DEFINE L == Len(N)
           n == MaxRotations - adm.left
<1>1. /\ L \in Nat \ {0} /\ MaxRotations \in Nat /\ adm.left \in Int
      /\ L <= Len(Pool) /\ Len(Pool) \in Nat
  BY AdmissionAssumption DEF IsRotation, Admissions
<1>2. PICK p \in 0..(L - 1) :
        /\ n \in 0..L
        /\ adm.cand = N[Wrap(L, p + n) + 1]
        /\ adm.seen = {N[Wrap(L, p + k) + 1] : k \in 0..(n - 1)}
        /\ \A a \in adm.seen : ~PassAdmits(a)
  BY DEF Rotated
<1>3. n = L
  <2>1. CASE adm.left < 0
    BY <1>1, <1>2, <2>1 DEF PoolFits
  <2>2. CASE adm.cand \in adm.seen
    <3> HIDE DEF n
    <3>1. PICK k \in 0..(n - 1) : N[Wrap(L, p + n) + 1] = N[Wrap(L, p + k) + 1]
      BY <1>2, <2>2
    <3>2. Wrap(L, p + n) + 1 \in 1..L /\ Wrap(L, p + k) + 1 \in 1..L
      BY <1>1, <1>2, <3>1 DEF Wrap
    <3>3. Wrap(L, p + n) + 1 = Wrap(L, p + k) + 1
      BY <3>1, <3>2 DEF IsRotation
    <3> QED
      BY <1>1, <1>2, <3>1, <3>3 DEF Wrap
  <2> QED
    BY <2>1, <2>2 DEF Exhausted
<1> HIDE DEF n
<1>4. ASSUME NEW i \in 1..L
      PROVE  N[i] \in adm.seen
  <2> DEFINE k == IF i - 1 >= p THEN i - 1 - p ELSE i - 1 - p + L
  <2>1. k \in 0..(n - 1) /\ Wrap(L, p + k) + 1 = i
    BY <1>1, <1>2, <1>3 DEF Wrap
  <2> HIDE DEF k
  <2>2. N[i] = N[Wrap(L, p + k) + 1]
    BY <2>1
  <2> QED
    BY <1>2, <2>1, <2>2
<1> QED
  BY <1>2, <1>4

\* A resolution: the next name of the list, and the cursor one place on.
LEMMA NextName ==
  ASSUME CoolTypeOK, NEW N, Names = {N}, IsRotation(N), NEW a, NextBinding(a)
  PROVE  /\ a = N[(cursor % Len(N)) + 1] /\ cursor % Len(N) \in 0..(Len(N) - 1)
         /\ cursor' % Len(N) = Wrap(Len(N), (cursor % Len(N)) + 1)
<1>1. Len(N) \in 1..Len(Pool)
  BY AdmissionAssumption DEF IsRotation
<1>2. a = N[(cursor % Len(N)) + 1] /\ cursor' = (cursor + 1) % CursorPeriod
  BY DEF NextBinding
<1> QED
  BY <1>1, <1>2, CursorNextPlace DEF CoolTypeOK

LEMMA CursorInRange ==
  ASSUME CoolTypeOK, NEW a, NextBinding(a)
  PROVE  cursor' \in 0..(CursorPeriod - 1)
<1>1. 1 \in 1..Len(Pool)
  BY AdmissionAssumption
<1> QED
  BY <1>1, CursorNextPlace DEF CoolTypeOK, NextBinding

\* A change of the cooldowns during an admission is noted.
LEMMA CooldownStep ==
  ASSUME RefusalInv, adm' = Disturbed(cool'), cursor' = cursor
  PROVE  RotationKept' /\ (adm.pass # "idle" => adm' # Idle)
<1>0. AdmTypeOK /\ RotationKept
  BY DEF RefusalInv, AdmInv
<1>1. CASE cool' = cool
  <2>1. adm' = adm
    BY <1>1 DEF Disturbed
  <2> QED
    BY <1>0, <1>1, <2>1, RotationSame DEF Idle
<1>2. CASE cool' # cool /\ adm = Idle
  <2>1. adm' = Idle
    BY <1>2 DEF Disturbed
  <2> QED
    BY <1>2, <2>1 DEF RotationKept, Idle
<1>3. CASE cool' # cool /\ adm # Idle
  <2>1. adm' = [adm EXCEPT !.steady = FALSE]
    BY <1>3 DEF Disturbed
  <2>2. adm'.steady = FALSE /\ adm'.pass = adm.pass
    BY <1>0, <2>1 DEF AdmTypeOK, Admissions
  <2> QED
    BY <2>2 DEF RotationKept, Idle
<1> QED
  BY <1>1, <1>2, <1>3

LEMMA RefusalInvStep ==
  ASSUME RefusalInv, [AdmNext]_admVars, PoolFits
  PROVE  CoolTypeOK' /\ RotationKept' /\ RefusalStep
<1>0. AdmTypeOK /\ CoolTypeOK /\ RotationKept /\ adm \in Admissions
  BY DEF RefusalInv, AdmInv, AdmTypeOK
<1>1. ASSUME cool' = cool, failures' = failures, cursor' \in 0..(CursorPeriod - 1)
      PROVE  CoolTypeOK'
  BY <1>0, <1>1 DEF CoolTypeOK
<1>2. cursor \in 0..(CursorPeriod - 1)
  BY <1>0 DEF CoolTypeOK
<1>3. Idle.pass = "idle"
  BY DEF Idle
<1>4. ASSUME NEW s \in Step, BeginAdmission(s)
      PROVE  CoolTypeOK' /\ RotationKept' /\ RefusalStep
  <2>1. PICK a \in Alias :
          /\ NextBinding(a)
          /\ adm' = [Idle EXCEPT !.pass = "allowed", !.step = s, !.cand = a,
                                 !.left = MaxRotations]
    BY <1>4 DEF BeginAdmission
  <2>2. adm = Idle /\ cool' = cool /\ failures' = failures
    BY <1>4 DEF BeginAdmission
  <2>3. adm'.left = MaxRotations /\ adm'.seen = {} /\ adm'.cand = a
    BY <2>1 DEF Idle
  <2>4. CoolTypeOK'
    BY <1>0, <1>1, <2>1, <2>2, CursorInRange
  <2>5. RotationKept'
    <3> SUFFICES ASSUME ~(PoolSet \subseteq Cooled)
                 PROVE  \A N \in Names : Rotated(N)'
      BY <2>2, NamesSame DEF RotationKept
    <3>1. PICK N : Names = {N} /\ IsRotation(N)
      BY NamesAreOne
    <3>2. /\ a = N[(cursor % Len(N)) + 1] /\ cursor % Len(N) \in 0..(Len(N) - 1)
          /\ cursor' % Len(N) = Wrap(Len(N), (cursor % Len(N)) + 1)
      BY <1>0, <2>1, <3>1, NextName
    <3>3. Rotated(N)'
      BY <2>3, <3>1, <3>2, PassBegins
    <3> QED
      BY <3>1, <3>3
  <2> QED
    BY <1>3, <2>2, <2>4, <2>5 DEF RefusalStep
<1>5. CASE AcceptCandidate
  <2>1. /\ adm.pass \in {"allowed", "pinned"} /\ PassHolds
        /\ cursor' = cursor /\ cool' = cool /\ failures' = failures
    BY <1>5 DEF AcceptCandidate
  <2> DEFINE begun == [adm EXCEPT !.seen = {}, !.left = MaxRotations]
  <2>2. \/ adm' = [begun EXCEPT !.pass = "pinned"]
        \/ adm' = [begun EXCEPT !.pass = "independent",
                                !.peers = {ranDomain[q] : q \in PeersOf[adm.step]}]
        \/ adm' = Idle
    BY <1>5 DEF AcceptCandidate
  <2>3. CASE adm' = Idle
    BY <1>1, <1>2, <1>3, <2>1, <2>3 DEF RotationKept, RefusalStep
  <2>4. CASE adm' # Idle
    <3>1. /\ adm'.left = MaxRotations /\ adm'.seen = {} /\ adm'.cand = adm.cand
          /\ adm'.steady = adm.steady
      BY <1>0, <2>2, <2>4 DEF Admissions
    <3>2. RotationKept'
      <4> SUFFICES ASSUME ~(PoolSet \subseteq Cooled), adm.steady
                   PROVE  \A N \in Names : Rotated(N)'
        BY <2>1, <3>1, NamesSame DEF RotationKept
      <4>1. PICK N : Names = {N} /\ IsRotation(N)
        BY NamesAreOne
      <4>2. Rotated(N)
        BY <1>0, <2>1, <4>1 DEF RotationKept
      <4>3. PICK p \in 0..(Len(N) - 1) :
              /\ MaxRotations - adm.left \in 0..Len(N)
              /\ adm.cand = N[Wrap(Len(N), p + (MaxRotations - adm.left)) + 1]
              /\ cursor % Len(N) =
                   Wrap(Len(N), Wrap(Len(N), p + (MaxRotations - adm.left)) + 1)
        BY <4>2 DEF Rotated
      <4>4. PICK j : j = Wrap(Len(N), p + (MaxRotations - adm.left))
        OBVIOUS
      <4>5. j \in 0..(Len(N) - 1)
        <5>1. Len(N) \in Nat \ {0} /\ MaxRotations - adm.left \in 0..Len(N)
          BY <4>1, <4>3 DEF IsRotation
        <5>2. p + (MaxRotations - adm.left) \in 0..(2 * Len(N) - 1)
          BY <5>1
        <5> QED
          BY <4>4, <5>1, <5>2 DEF Wrap
      <4>6. adm'.cand = N[j + 1] /\ cursor' % Len(N) = Wrap(Len(N), j + 1)
        BY <2>1, <3>1, <4>3, <4>4
      <4>7. Rotated(N)'
        BY <3>1, <4>1, <4>5, <4>6, PassBegins
      <4> QED
        BY <4>1, <4>7
    <3> QED
      BY <1>1, <1>2, <2>1, <2>4, <3>2 DEF RefusalStep
  <2> QED
    BY <2>3, <2>4
<1>6. CASE RotateCandidate
  <2>1. PICK a \in Alias :
          /\ NextBinding(a)
          /\ adm' = [adm EXCEPT !.seen = @ \cup {adm.cand}, !.cand = a, !.left = @ - 1]
    BY <1>6 DEF RotateCandidate
  <2>2. /\ adm.pass \in {"allowed", "pinned", "independent"} /\ ~PassHolds /\ ~Exhausted
        /\ cool' = cool /\ failures' = failures
    BY <1>6 DEF RotateCandidate
  <2>3. /\ adm'.pass = adm.pass /\ adm'.step = adm.step /\ adm'.peers = adm.peers
        /\ adm'.left = adm.left - 1 /\ adm'.seen = adm.seen \cup {adm.cand}
        /\ adm'.cand = a /\ adm'.steady = adm.steady
    BY <1>0, <2>1 DEF Admissions
  <2>4. ~PassAdmits(adm.cand)
    BY <1>0, <2>2 DEF PassHolds, Exhausted, Admissions
  <2>5. CoolTypeOK'
    BY <1>0, <1>1, <2>1, <2>2, CursorInRange
  <2>6. RotationKept'
    <3> SUFFICES ASSUME ~(PoolSet \subseteq Cooled), adm.steady
                 PROVE  \A N \in Names : Rotated(N)'
      BY <2>2, <2>3, NamesSame DEF RotationKept
    <3>1. PICK N : Names = {N} /\ IsRotation(N)
      BY NamesAreOne
    <3>2. Rotated(N)
      BY <1>0, <2>2, <3>1 DEF RotationKept
    <3>3. /\ a = N[(cursor % Len(N)) + 1]
          /\ cursor' % Len(N) = Wrap(Len(N), (cursor % Len(N)) + 1)
      BY <1>0, <2>1, <3>1, NextName
    <3>4. Rotated(N)'
      BY <1>0, <2>2, <2>3, <2>4, <3>1, <3>2, <3>3, PassRotates
    <3> QED
      BY <3>1, <3>4
  <2>7. adm' # Idle
    BY <1>3, <2>2, <2>3
  <2> QED
    BY <2>5, <2>6, <2>7 DEF RefusalStep
<1>7. CASE RefuseStep
  <2>1. /\ adm.pass \in {"allowed", "pinned", "independent"} /\ Exhausted /\ adm' = Idle
        /\ cursor' = cursor /\ cool' = cool /\ failures' = failures
    BY <1>7 DEF RefuseStep
  <2>2. CoolTypeOK' /\ RotationKept'
    BY <1>1, <1>2, <1>3, <2>1 DEF RotationKept
  <2>3. RefusalStep
    <3> SUFFICES ASSUME ~(PoolSet \subseteq Cooled), adm.steady
                 PROVE  \A N \in Names : \A i \in 1..Len(N) : ~PassAdmits(N[i])
      BY DEF RefusalStep
    <3>1. PICK N : Names = {N} /\ IsRotation(N)
      BY NamesAreOne
    <3>2. Rotated(N)
      BY <1>0, <2>1, <3>1 DEF RotationKept
    <3>3. \A i \in 1..Len(N) : ~PassAdmits(N[i])
      BY <1>0, <2>1, <3>1, <3>2, AllTurnedDown
    <3> QED
      BY <3>1, <3>3
  <2> QED
    BY <2>2, <2>3
<1>8. CASE LaunchStep
  <2>1. /\ PassHolds /\ adm' = Idle
        /\ cursor' = cursor /\ cool' = cool /\ failures' = failures
    BY <1>8 DEF LaunchStep
  <2> QED
    BY <1>1, <1>2, <1>3, <2>1 DEF RotationKept, RefusalStep
<1>9. ASSUME adm' = adm, cursor' = cursor, cool' = cool, failures' = failures
      PROVE  CoolTypeOK' /\ RotationKept' /\ RefusalStep
  <2>1. adm.pass # "idle" => adm' # Idle
    BY <1>3, <1>9
  <2> QED
    BY <1>0, <1>1, <1>2, <1>9, <2>1, RotationSame DEF RefusalStep
<1>10. ASSUME NEW s \in Step, RecordProvenance(s)
       PROVE  CoolTypeOK' /\ RotationKept' /\ RefusalStep
  BY <1>9, <1>10 DEF RecordProvenance
<1>11. ASSUME adm' = Disturbed(cool'), cursor' = cursor,
              cool' \in [Alias -> Nat], failures' \in [Alias -> 0..Len(Backoff)]
       PROVE  CoolTypeOK' /\ RotationKept' /\ RefusalStep
  <2>1. RotationKept' /\ (adm.pass # "idle" => adm' # Idle)
    BY <1>11, CooldownStep
  <2>2. CoolTypeOK'
    BY <1>2, <1>11 DEF CoolTypeOK
  <2> QED
    BY <2>1, <2>2 DEF RefusalStep
<1>12. ASSUME NEW s \in Step, EndStepTurn(s)
       PROVE  CoolTypeOK' /\ RotationKept' /\ RefusalStep
  <2>1. adm' = Disturbed(cool') /\ cursor' = cursor /\ ranOn[s] \in Alias
    BY <1>0, <1>12 DEF EndStepTurn, AdmTypeOK
  <2>2. CASE RecordSuccess(ranOn[s]) \/ RecordFailure(ranOn[s])
    BY <1>0, <1>11, <2>1, <2>2, CooldownTypes
  <2>3. CASE UNCHANGED <<cool, failures>>
    BY <1>0, <1>11, <2>1, <2>3 DEF CoolTypeOK
  <2> QED
    BY <1>12, <2>2, <2>3 DEF EndStepTurn
<1>13. ASSUME NEW a \in Alias, EndOtherTurn(a)
       PROVE  CoolTypeOK' /\ RotationKept' /\ RefusalStep
  <2>1. adm' = Disturbed(cool') /\ cursor' = cursor /\ RecordFailure(a)
    BY <1>13 DEF EndOtherTurn
  <2> QED
    BY <1>0, <1>11, <2>1, CooldownTypes
<1>14. CASE CoolDown
  <2>1. /\ adm' = Disturbed(cool') /\ cursor' = cursor /\ failures' = failures
        /\ cool' = [a \in Alias |-> IF cool[a] > 0 THEN cool[a] - 1 ELSE 0]
    BY <1>14 DEF CoolDown
  <2>2. cool' \in [Alias -> Nat]
    BY <1>0, <2>1 DEF CoolTypeOK
  <2> QED
    BY <1>0, <1>11, <2>1, <2>2 DEF CoolTypeOK
<1>15. CASE UNCHANGED admVars
  BY <1>9, <1>15 DEF admVars
<1> QED
  BY <1>4, <1>5, <1>6, <1>7, <1>8, <1>10, <1>12, <1>13, <1>14, <1>15 DEF AdmNext

\* No false refusal: for every pool that fits the bound on resolutions, cooldowns leave
\* something to try, and an admission that no cooldown disturbed gives up only after
\* every name of the list was turned down, from whatever place the rotation began.
THEOREM RefusalsAreExhaustive == PoolFits /\ AdmSpec => RefusalIsExhaustive
<1> SUFFICES ASSUME PoolFits
             PROVE  AdmSpec => RefusalIsExhaustive
  OBVIOUS
<1>1. AdmInit => RefusalInv
  <2>1. AdmInit => AdmInv
    BY AdmInitInv
  <2>2. AdmInit => CoolTypeOK /\ RotationKept
    BY AdmissionAssumption DEF AdmInit, CoolTypeOK, RotationKept, Idle
  <2> QED
    BY <2>1, <2>2 DEF RefusalInv
<1>2. RefusalInv /\ [AdmNext]_admVars => RefusalInv' /\ RefusalStep
  BY AdmStep, RefusalInvStep DEF RefusalInv
<1>3. RefusalInv => NamesSound
  BY NamesAreSound DEF RefusalInv, CoolTypeOK
<1> QED
  BY <1>1, <1>2, <1>3, PTL DEF AdmSpec, RefusalIsExhaustive, NamesSound, RefusalStep
=============================================================================
