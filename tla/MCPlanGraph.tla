---------------------------- MODULE MCPlanGraph ----------------------------
(* Plan documents for PlanGraph: every shape of three sections of one or two *)
(* plain steps, every explicit `after` of three steps, documents that must   *)
(* be refused, and one whose steps can never all run.                        *)
EXTENDS PlanGraph

Plain(i) == [id |-> i, stated |-> FALSE, after |-> {}, different |-> {},
              flaws |-> {}]

Section(l, k, steps) ==
  [level |-> l, kind |-> k, steps |-> steps, leading |-> FALSE, mixed |-> FALSE]

ShapedDocs ==
  {[i \in 1..3 |-> Section(s[i].level, s[i].kind,
                           [j \in 1..s[i].n |-> Plain(10 * i + j)])] :
     s \in [1..3 -> [level : {1, 2}, kind : {"ol", "ul"}, n : {1, 2}]]}

Stating(i) ==
  {Plain(i)} \cup {[Plain(i) EXCEPT !.stated = TRUE, !.after = A] : A \in SUBSET (1..3)}

AfterDocs == {<<Section(1, "ol", <<a, b, c>>)>> :
                a \in Stating(1), b \in Stating(2), c \in Stating(3)}

EmptyDocument == <<Section(1, "none", <<>>)>>

OddDocs ==
  {<<[Section(1, "ul", <<Plain(1)>>) EXCEPT !.leading = TRUE]>>,
   EmptyDocument,
   <<Section(1, "ol", <<[Plain(1) EXCEPT !.flaws = {"duplicate"}], Plain(2)>>)>>,
   <<Section(1, "ul", <<Plain(1), Plain(1)>>)>>,
   <<Section(1, "ol", <<[Plain(1) EXCEPT !.different = {2}],
                        [Plain(2) EXCEPT !.different = {1}]>>)>>,
   <<Section(1, "ol", <<Plain(1), [Plain(2) EXCEPT !.different = {1}]>>)>>}

MCDocuments == ShapedDocs \cup AfterDocs \cup OddDocs

\* The first of two ordered steps must run where the second, which waits for it,
\* did not.
CrossedDocument ==
  {<<Section(1, "ol", <<[Plain(1) EXCEPT !.different = {2}], Plain(2)>>)>>}
=============================================================================
