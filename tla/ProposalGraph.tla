--------------------------- MODULE ProposalGraph ---------------------------
(***************************************************************************)
(* The approval of a proposal: the dependency lint check_proposal          *)
(* (nc/proposals.py) and what approve_proposal (nc/state.py) makes of its  *)
(* findings and of the batch's references.                                 *)
(*                                                                         *)
(* A behaviour is one approval, in one transaction.  The proposal is any   *)
(* list of N tasks with an optional local id and references to ids; the    *)
(* text of the tasks is one more reason for findings, given or not.  A     *)
(* task's references are a set: the order in which the depth-first search  *)
(* takes them is arbitrary, as is the order of depends_on.                 *)
(***************************************************************************)
EXTENDS Integers, Sequences, FiniteSets

CONSTANTS
  N,         \* number of tasks in the proposal
  Ids,       \* the ids that tasks may have and references may name
  NoId,      \* no id of its own
  Existing   \* ids of the tasks there already are

ASSUME GraphAssumption == N \in Nat /\ NoId \notin Ids /\ Existing \subseteq Ids

Nodes == 1..N
White == 0
Gray == 1
Black == 2

VARIABLES
  ids,        \* specs[n].id
  refs,       \* specs[n].depends_on
  textual,    \* whether the text of the specs gives findings
  force,      \* nc approve --force
  pc,         \* "next": take a start or pop the stack; "scan": the loop over graph[node]
  start,      \* the starts taken so far
  stack,      \* entries <<node, exiting>>, the top last
  colors,
  node,       \* the node just entered
  todo,       \* its dependencies still to be looked at
  cycles,     \* "dependency cycle inside proposal" findings: the edges node -> dep
  clock,      \* history: how many nodes have been left
  rank,       \*   and when a node was left
  status      \* proposal.status, "refused" if the approval raised

batch == <<ids, refs, textual, force>>
search == <<start, stack, colors, node, todo, cycles, clock, rank>>
vars == <<batch, pc, search, status>>

LocalIds == {ids[n] : n \in Nodes} \ {NoId}

\* local: a later task with the same id hides an earlier one.
Local(r, n) == ids[n] = r /\ r # NoId /\ \A k \in Nodes : ids[k] = r => k <= n

\* graph[n]
Deps(n) == {d \in Nodes : \E r \in refs[n] : Local(r, d)}

Ambiguous ==
  \E n \in Nodes : ids[n] # NoId /\ (ids[n] \in Existing \/ \E k \in Nodes : k < n /\ ids[k] = ids[n])
Unknown == \E n \in Nodes : ~(refs[n] \subseteq LocalIds \cup Existing)

TypeOK ==
  /\ ids \in [Nodes -> Ids \cup {NoId}]
  /\ refs \in [Nodes -> SUBSET Ids]
  /\ textual \in BOOLEAN /\ force \in BOOLEAN
  /\ pc \in {"next", "scan", "decide", "end"}
  /\ start \in 0..N
  /\ stack \in Seq(Nodes \X BOOLEAN)
  /\ colors \in [Nodes -> {White, Gray, Black}]
  /\ node \in Nodes \cup {0}
  /\ todo \subseteq Nodes
  /\ cycles \subseteq Nodes \X Nodes
  /\ clock \in Nat
  /\ rank \in [Nodes -> Nat]
  /\ status \in {"pending", "approved", "refused"}

Init ==
  /\ ids \in [Nodes -> Ids \cup {NoId}]
  /\ refs \in [Nodes -> SUBSET Ids]
  /\ textual \in BOOLEAN /\ force \in BOOLEAN
  /\ pc = "next" /\ start = 0 /\ stack = <<>>
  /\ colors = [n \in Nodes |-> White]
  /\ node = 0 /\ todo = {} /\ cycles = {}
  /\ clock = 0 /\ rank = [n \in Nodes |-> 0]
  /\ status = "pending"

Top == stack[Len(stack)]
Rest == SubSeq(stack, 1, Len(stack) - 1)

\* for start in range(len(specs))
NextStart ==
  /\ pc = "next" /\ stack = <<>> /\ start < N
  /\ start' = start + 1
  /\ stack' = <<<<start + 1, FALSE>>>>
  /\ UNCHANGED <<batch, pc, colors, node, todo, cycles, clock, rank, status>>

\* exiting
Exit ==
  /\ pc = "next" /\ stack # <<>> /\ Top[2]
  /\ stack' = Rest
  /\ colors' = [colors EXCEPT ![Top[1]] = Black]
  /\ clock' = clock + 1
  /\ rank' = [rank EXCEPT ![Top[1]] = clock + 1]
  /\ UNCHANGED <<batch, pc, start, node, todo, cycles, status>>

\* Mutant of Enter: a node is finished as soon as it is entered.
EnterMutant ==
  /\ pc = "next" /\ stack # <<>> /\ ~Top[2] /\ colors[Top[1]] = White
  /\ colors' = [colors EXCEPT ![Top[1]] = Black]
  /\ stack' = Append(Rest, <<Top[1], TRUE>>)
  /\ node' = Top[1] /\ todo' = Deps(Top[1])
  /\ pc' = "scan"
  /\ UNCHANGED <<batch, start, cycles, clock, rank, status>>

\* Mutant of Enter: a node is not marked when it is entered.
EnterMutant2 ==
  /\ pc = "next" /\ stack # <<>> /\ ~Top[2] /\ colors[Top[1]] = White
  /\ stack' = Append(Rest, <<Top[1], TRUE>>)
  /\ node' = Top[1] /\ todo' = Deps(Top[1])
  /\ pc' = "scan"
  /\ UNCHANGED <<batch, start, colors, cycles, clock, rank, status>>

Enter ==
  /\ pc = "next" /\ stack # <<>> /\ ~Top[2] /\ colors[Top[1]] = White
  /\ colors' = [colors EXCEPT ![Top[1]] = Gray]
  /\ stack' = Append(Rest, <<Top[1], TRUE>>)
  /\ node' = Top[1] /\ todo' = Deps(Top[1])
  /\ pc' = "scan"
  /\ UNCHANGED <<batch, start, cycles, clock, rank, status>>

Skip ==
  /\ pc = "next" /\ stack # <<>> /\ ~Top[2] /\ colors[Top[1]] # White
  /\ stack' = Rest
  /\ UNCHANGED <<batch, pc, start, colors, node, todo, cycles, clock, rank, status>>

\* for dep in reversed(graph[node])
Look(d) ==
  /\ pc = "scan" /\ d \in todo
  /\ todo' = todo \ {d}
  /\ cycles' = IF colors[d] = Gray THEN cycles \cup {<<node, d>>} ELSE cycles
  /\ stack' = IF colors[d] = White THEN Append(stack, <<d, FALSE>>) ELSE stack
  /\ UNCHANGED <<batch, pc, start, colors, node, clock, rank, status>>

Looked ==
  /\ pc = "scan" /\ todo = {}
  /\ pc' = "next"
  /\ UNCHANGED <<batch, search, status>>

Searched ==
  /\ pc = "next" /\ stack = <<>> /\ start = N
  /\ pc' = "decide"
  /\ UNCHANGED <<batch, search, status>>

\* Mutant of NoFindings: a reference to no task at all is let pass.
NoFindingsMutant == cycles = {} /\ ~Ambiguous /\ ~textual

NoFindings == cycles = {} /\ ~Ambiguous /\ ~Unknown /\ ~textual

\* findings and not force: nothing is created.
Decide ==
  /\ pc = "decide"
  /\ status' = IF NoFindings \/ force THEN "approved" ELSE "refused"
  /\ pc' = "end"
  /\ UNCHANGED <<batch, search>>

Next ==
  \/ NextStart \/ Exit \/ Enter \/ Skip
  \/ \E d \in Nodes : Look(d)
  \/ Looked \/ Searched \/ Decide

Spec == Init /\ [][Next]_vars
----------------------------------------------------------------------------
(* Properties.                                                             *)

\* Reference: a set of tasks each of which waits for another of the set.
Cyclic(S) == S # {} /\ \A n \in S : Deps(n) \cap S # {}

\* The search reports a cycle exactly when the batch has one.
CycleFoundIffCyclic ==
  pc \in {"decide", "end"} => (cycles # {} <=> \E S \in SUBSET Nodes : Cyclic(S))

\* What is still to be done: nodes to enter, starts to take, entries to pop and
\* dependencies to look at.
Unentered == {n \in Nodes : colors[n] = White}
Togo(p) == [scan |-> 3, next |-> 2, decide |-> 1, end |-> 0][p]
StepsLeft ==
  (2 * N + 2) * Cardinality(Unentered) + 2 * (N - start) + Len(stack) + 2 * Cardinality(todo)
    + Togo(pc)

\* The search ends, on cyclic batches too: a node is entered once, whatever refers
\* to it, and the entries for it that are still on the stack are passed over.
SearchEnds == [][StepsLeft' < StepsLeft]_vars

\* An approved batch can be worked off, unless the owner forced it: what a task
\* waits for exists already or is a task of the batch that comes before it.
ApprovedCanFinish ==
  status = "approved" /\ ~force =>
    \A n \in Nodes :
      /\ \A d \in Deps(n) : rank[d] < rank[n]
      /\ \A r \in refs[n] : r \in Existing \/ \E d \in Deps(n) : ids[d] = r
=============================================================================
