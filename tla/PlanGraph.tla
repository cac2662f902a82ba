----------------------------- MODULE PlanGraph ------------------------------
(* How a markdown plan becomes a graph of tasks: Parse and ValidateForImport *)
(* (internal/plan), graphSpecs and documentOrderEdges (internal/orch), and   *)
(* CreatePlanGraph or MaterializePlanGraph (internal/store), which write the *)
(* tasks and then the edges one by one, each behind addDepOn's cycle check,  *)
(* in one transaction.                                                       *)
(*                                                                           *)
(* A document is the sequence of its headings, each with what is under it up *)
(* to the next heading: its level, the kind of its first list ("ol", "ul" or *)
(* "none"), the steps of its lists, and whether a paragraph comes first or   *)
(* ordered and unordered lists are mixed.  A step is its id, the ids of      *)
(* `after` and whether the key is there, the ids of differentFrom, and what  *)
(* is wrong with its ralph-task block.                                       *)
EXTENDS Integers, Sequences, FiniteSets, FiniteSetsExt

CONSTANTS
  Documents,        \* the plans that may be imported
  MaxImportFaults   \* bound on imports that are cut short

\* A document is a sequence, and so are the steps under each of its headings.
IsSequence(s) == s \in Seq({s[i] : i \in DOMAIN s})

ASSUME DocumentsAssumption ==
  \A d \in Documents : IsSequence(d) /\ \A i \in DOMAIN d : IsSequence(d[i].steps)

VARIABLES
  doc,
  imp,           \* "none", "bare", "writing", "active", "rejected"
  onDispatch,    \* the graph is written by a dispatch pass, not by an import
  txLeft,        \* edges the open transaction has still to add
  txEdges,       \* edges it has added
  graphTasks, graphEdges,   \* committed rows of tasks and task_deps
  ran,           \* tasks that are done
  importFaults

graphVars == <<doc, imp, onDispatch, txLeft, txEdges, graphTasks, graphEdges,
               ran, importFaults>>
-----------------------------------------------------------------------------
(* Parse *)

\* findSectionEnd, and buildGroup's test for a subheading.
SectionEnd(d, i) ==
  CHOOSE j \in (i + 1)..(Len(d) + 1) :
    /\ j = Len(d) + 1 \/ d[j].level <= d[i].level
    /\ \A k \in (i + 1)..(j - 1) : d[k].level > d[i].level

IsLeaf(d, i) == SectionEnd(d, i) = i + 1

\* The leaf groups; a list above a subheading is narrative.
LeafSet(d) == {i \in DOMAIN d : IsLeaf(d, i)}

\* The steps: the group and the place in it.
Steps(d) == UNION {{<<i, j>> : j \in DOMAIN d[i].steps} : i \in LeafSet(d)}

StepAt(d, s) == d[s[1]].steps[s[2]]

\* parseTaskMetadataBlock: one block per step, no key twice, no unknown key,
\* nothing after the object, no null, an id, and no id with blanks around it.
ParseTaskMetadataBlock(s) ==
  s.flaws \cap {"several", "duplicate", "unknown", "trailing", "null", "noID",
                "padded"} = {}

Parse(d) == \A s \in Steps(d) : ParseTaskMetadataBlock(StepAt(d, s))

Ids(d) == {StepAt(d, s).id : s \in Steps(d)}

\* Decompose: the first group with unfinished work, all of its steps or the next.
Decompose(d, done) ==
  LET todo(i) == {j \in DOMAIN d[i].steps : d[i].steps[j].id \notin done}
      unfinished == {i \in LeafSet(d) : todo(i) # {}}
      first == CHOOSE i \in unfinished : \A k \in unfinished : i <= k
  IN  IF unfinished = {} THEN {}
      ELSE {d[first].steps[j].id : j \in {j \in todo(first) :
              d[first].kind = "ul" \/ \A k \in todo(first) : j <= k}}
-----------------------------------------------------------------------------
(* Reachability, for the two searches that look for a cycle *)

Closed(edges, C) == \A e \in edges : e[1] \in C => e[2] \in C

\* What a search from there visits: the least set of tasks that holds `from` and
\* whatever its members depend on.
Reach(edges, from) ==
  LET V == {from} \cup {e[2] : e \in edges}
  IN  {v \in V : \A C \in SUBSET V : from \in C /\ Closed(edges, C) => v \in C}

\* validateDifferentFromAcyclic
PeerEdges(d) ==
  UNION {{<<StepAt(d, s).id, p>> : p \in StepAt(d, s).different \cap Ids(d)} :
           s \in Steps(d)}

DifferentFromAcyclic(d) ==
  ~\E e \in PeerEdges(d) : e[1] # e[2] /\ e[1] \in Reach(PeerEdges(d), e[2])

\* validateDifferentFrom: every peer is another task of the plan.
ValidateDifferentFrom(d) ==
  /\ \A s \in Steps(d) : StepAt(d, s).different \subseteq Ids(d) \ {StepAt(d, s).id}
  /\ DifferentFromAcyclic(d)

\* Validate: a leaf has one kind of list, and nothing before it.
Validate(d) ==
  \A i \in DOMAIN d : IsLeaf(d, i) =>
    d[i].kind # "none" /\ ~d[i].leading /\ ~d[i].mixed

ValidateForImport(d) ==
  /\ Parse(d) /\ Validate(d)
  /\ Steps(d) # {}
  /\ ValidateDifferentFrom(d)
-----------------------------------------------------------------------------
(* graphSpecs *)

\* The leaves with steps before leaf i: the last of them is what leaf i waits for.
Before(d, i) == {k \in LeafSet(d) : k < i /\ d[k].steps # <<>>}

LastStep(g) == g.steps[Len(g.steps)]

\* Mutant: only the last step of the previous group is waited for.
TerminalsLast(d, i) ==
  IF Before(d, i) = {} THEN {} ELSE {LastStep(d[Max(Before(d, i))]).id}

Terminals(d, i) ==
  IF Before(d, i) = {} THEN {}
  ELSE LET g == d[Max(Before(d, i))] IN
       IF g.kind = "ul" THEN {g.steps[j].id : j \in DOMAIN g.steps}
                        ELSE {LastStep(g).id}

\* documentOrderEdges, then `after` where it is stated.
DependsOnOf(d, i, j) ==
  LET s == d[i].steps[j] IN
  IF s.stated THEN s.after
  ELSE IF d[i].kind = "ul" \/ j = 1 THEN Terminals(d, i)
  ELSE {d[i].steps[j - 1].id}

EdgesOf(d, i, j) == {<<d[i].steps[j].id, p>> : p \in DependsOnOf(d, i, j)}

SpecEdges(d) == UNION {EdgesOf(d, s[1], s[2]) : s \in Steps(d)}

\* Ids are unique and every id of an `after` is a task.
GraphSpecsOK(d) ==
  /\ Steps(d) # {}
  /\ \A s, t \in Steps(d) : StepAt(d, s).id = StepAt(d, t).id => s = t
  /\ \A s \in Steps(d) : StepAt(d, s).stated => StepAt(d, s).after \subseteq Ids(d)

\* The tasks as the document lists them.
Listed(d, a, b) ==
  \E s, t \in Steps(d) :
    /\ StepAt(d, s).id = a /\ StepAt(d, t).id = b
    /\ s[1] < t[1] \/ (s[1] = t[1] /\ s[2] < t[2])
-----------------------------------------------------------------------------
(* The store *)

Open(dispatching) ==
  /\ imp' = "writing" /\ onDispatch' = dispatching
  /\ txLeft' = SpecEdges(doc) /\ txEdges' = {}
  /\ UNCHANGED <<doc, graphTasks, graphEdges, ran, importFaults>>

\* Mutant: every row is committed as it is written.
RollbackNothing(state) ==
  /\ imp' = state
  /\ txLeft' = {} /\ txEdges' = {}
  /\ graphTasks' = Ids(doc) /\ graphEdges' = txEdges
  /\ UNCHANGED <<doc, onDispatch, ran>>

\* Nothing of a transaction that fails is left.
Rollback(state) ==
  /\ imp' = state
  /\ txLeft' = {} /\ txEdges' = {}
  /\ UNCHANGED <<doc, onDispatch, graphTasks, graphEdges, ran>>

ImportPlan ==
  /\ imp = "none"
  /\ IF ValidateForImport(doc) /\ GraphSpecsOK(doc)
     THEN Open(FALSE)
     ELSE Rollback("rejected") /\ UNCHANGED importFaults

\* A plan row written without a graph: CreatePlan, or an earlier version.
CreatePlan ==
  /\ imp = "none"
  /\ imp' = "bare"
  /\ UNCHANGED <<doc, onDispatch, txLeft, txEdges, graphTasks, graphEdges, ran,
                 importFaults>>

\* ensurePlanGraph; a document it cannot turn into a graph is tried every pass.
EnsurePlanGraph ==
  /\ imp = "bare" /\ graphTasks = {} /\ Parse(doc) /\ GraphSpecsOK(doc)
  /\ Open(TRUE)

\* Mutant: the search sees what was committed before this import.
WouldCreateCycleOnCommitted(t, p) == t \in Reach(graphEdges, p)

\* wouldCreateCycleOn, on the transaction's own rows.
WouldCreateCycle(t, p) == t \in Reach(txEdges, p)

\* writeGraphTasksOn adds the edges task by task; those of one task in any order.
NextEdges == {e \in txLeft : ~\E f \in txLeft : Listed(doc, f[1], e[1])}

AddDep ==
  /\ imp = "writing"
  /\ \E e \in NextEdges :
       IF e[1] = e[2] \/ WouldCreateCycle(e[1], e[2])
       THEN Rollback(IF onDispatch THEN "bare" ELSE "rejected")
       ELSE /\ txLeft' = txLeft \ {e} /\ txEdges' = txEdges \cup {e}
            /\ UNCHANGED <<doc, imp, onDispatch, graphTasks, graphEdges, ran>>
  /\ UNCHANGED importFaults

\* The context is cancelled, or the process dies, before the commit.
ImportCut ==
  /\ imp = "writing" /\ importFaults < MaxImportFaults
  /\ importFaults' = importFaults + 1
  /\ Rollback(IF onDispatch THEN "bare" ELSE "none")

CommitGraph ==
  /\ imp = "writing" /\ txLeft = {}
  /\ imp' = "active"
  /\ graphTasks' = Ids(doc) /\ graphEdges' = txEdges
  /\ UNCHANGED <<doc, onDispatch, txLeft, txEdges, ran, importFaults>>

\* The edge walk of ReadyPartitions.
GraphReady ==
  {t \in graphTasks \ ran : \A e \in graphEdges : e[1] = t => e[2] \in ran}

\* Admission refuses a task whose differentFrom peers have not run.
PeersRan(t) == \A e \in PeerEdges(doc) : e[1] = t => e[2] \in ran

RunTask ==
  /\ imp = "active"
  /\ \E t \in GraphReady : PeersRan(t) /\ ran' = ran \cup {t}
  /\ UNCHANGED <<doc, imp, onDispatch, txLeft, txEdges, graphTasks, graphEdges,
                 importFaults>>

GraphInit ==
  /\ doc \in Documents
  /\ imp = "none" /\ onDispatch = FALSE
  /\ txLeft = {} /\ txEdges = {}
  /\ graphTasks = {} /\ graphEdges = {} /\ ran = {}
  /\ importFaults = 0

GraphNext ==
  \/ ImportPlan \/ CreatePlan \/ EnsurePlanGraph
  \/ AddDep \/ ImportCut \/ CommitGraph \/ RunTask

GraphSpec == GraphInit /\ [][GraphNext]_graphVars
-----------------------------------------------------------------------------
\* The tasks can be run one after another: of any of them that are left, one
\* depends on none of the others.
Runnable(edges, tasks) ==
  \A left \in (SUBSET tasks) \ {{}} :
    \E t \in left : \A e \in edges : e[1] = t => e[2] \notin left

\* Import is exact: adding the edges one at a time, each behind a search of those
\* before it, commits a graph that can be run in some order and turns away no
\* document whose dependencies have one; and whatever cuts it short, the graph is
\* there as a whole or not at all.
ImportIsExact ==
  /\ imp = "active" => graphTasks # {} /\ Runnable(graphEdges, graphTasks)
  /\ imp = "rejected" => \/ ~ValidateForImport(doc) \/ ~GraphSpecsOK(doc)
                         \/ ~Runnable(SpecEdges(doc), Ids(doc))
  /\ graphTasks # {} => graphTasks = Ids(doc) /\ graphEdges = SpecEdges(doc)

\* A plan that states no dependencies runs exactly as Decompose reads it: in
\* every state that running it reaches, the tasks the edge walk finds ready are
\* the ones of the first unfinished group.
DocumentOrderIsDecompose ==
  imp = "active" /\ (\A s \in Steps(doc) : ~StepAt(doc, s).stated)
    => GraphReady = Decompose(doc, ran)

\* An imported plan never comes to a stand: as long as a task has not run, one
\* can be admitted.  The comment on validateDifferentFromAcyclic says that the
\* plans for which it is not so are "caught at import".  It fails: a task whose
\* differentFrom names a task that waits for it is accepted.
ImportedPlansRun ==
  imp = "active" /\ ~onDispatch /\ ran # graphTasks
    => \E t \in GraphReady : PeersRan(t)
=============================================================================
