------------------------- MODULE ProposalGraphProofs -------------------------
(***************************************************************************)
(* The dependency lint of a proposal is right: for any number of tasks, any *)
(* ids and any references, it reports a cycle exactly when there is one,   *)
(* and what it lets pass can be worked off.                                *)
(***************************************************************************)
EXTENDS ProposalGraph, SequenceTheorems, FiniteSetTheorems, TLAPS

(***************************************************************************)
(* The inductive invariant of the search.                                  *)
(***************************************************************************)

Height == Len(stack)
Who(i) == stack[i][1]
Open == {i \in 1..Height : stack[i][2] = TRUE}   \* the entries of nodes that are not finished

\* The gray nodes are those with an open entry, one each, and no entry that was
\* pushed before a node was entered is above the node's open entry.
GrayInv ==
  /\ \A n \in Nodes : colors[n] = Gray <=> \E i \in Open : Who(i) = n
  /\ \A i, j \in Open : Who(i) = Who(j) => i = j
  /\ \A k \in 1..Height : k \notin Open => \A j \in Open : Who(k) = Who(j) => k < j

\* The open entries are a path of dependencies; what lies above one is a dependency.
PathInv ==
  /\ \A k \in Open, m \in 1..Height :
       k < m /\ (\A q \in Open : ~(k < q /\ q < m)) => Who(m) \in Deps(Who(k))
  /\ \A k \in Open :
       \/ \A m \in Open : m <= k
       \/ \E m \in Open : k < m /\ \A q \in Open : ~(k < q /\ q < m)

ScanInv ==
  pc = "scan" =>
    /\ \E j \in Open : Who(j) = node /\ \A k \in Open : k <= j
    /\ todo \subseteq Deps(node)

\* As long as no cycle was found: every dependency of an unfinished node is finished,
\* or will still be looked at or entered before the node is finished ...
AheadInv ==
  cycles = {} =>
    \A i \in Open : \A d \in Deps(Who(i)) :
      \/ colors[d] = Black
      \/ pc = "scan" /\ node = Who(i) /\ d \in todo
      \/ \E k \in 1..Height : i < k /\ Who(k) = d

\* ... so that a finished node comes after its dependencies, and belongs to no cycle.
BlackInv ==
  /\ \A n \in Nodes : colors[n] = Black => rank[n] <= clock
  /\ cycles = {} =>
       /\ \A n \in Nodes : colors[n] = Black =>
            \A d \in Deps(n) : colors[d] = Black /\ rank[d] < rank[n]
       /\ \A S \in SUBSET Nodes : Cyclic(S) => \A n \in S : colors[n] # Black

\* Every node that was a start is finished or on the stack; in the end all are finished.
StartInv ==
  /\ \A n \in 1..start : colors[n] = Black \/ \E i \in 1..Height : Who(i) = n
  /\ pc \in {"decide", "end"} => \A n \in Nodes : colors[n] = Black

CyclesAreReal == cycles # {} => \E S \in SUBSET Nodes : Cyclic(S)

ApprovedInv == status = "approved" => pc = "end" /\ (NoFindings \/ force)

SearchInv ==
  /\ TypeOK /\ GrayInv /\ PathInv /\ ScanInv /\ AheadInv /\ BlackInv /\ StartInv
  /\ CyclesAreReal /\ ApprovedInv

(***************************************************************************)
(* The stack.                                                              *)
(***************************************************************************)

LEMMA DepsInNodes == ASSUME NEW n PROVE Deps(n) \subseteq Nodes
  BY DEF Deps

LEMMA EntryTyped ==
  ASSUME TypeOK, NEW i \in 1..Height
  PROVE  stack[i] \in Nodes \X BOOLEAN /\ Who(i) \in Nodes /\ stack[i][2] \in BOOLEAN
<1>1. stack[i] \in Nodes \X BOOLEAN
  BY ElementOfSeq DEF TypeOK, Height
<1> QED
  BY <1>1 DEF Who

LEMMA HeightTyped == TypeOK => Height \in Nat /\ (stack # <<>> <=> Height > 0) /\ Open \subseteq 1..Height
<1> SUFFICES ASSUME TypeOK PROVE Height \in Nat /\ (stack # <<>> <=> Height > 0)
  BY DEF Open
<1> QED
  BY LenProperties, EmptySeq DEF TypeOK, Height

LEMMA Popped ==
  ASSUME TypeOK, stack # <<>>, stack' = Rest
  PROVE  /\ stack' \in Seq(Nodes \X BOOLEAN)
         /\ Height' = Height - 1
         /\ \A i \in 1..(Height - 1) : stack'[i] = stack[i]
<1>1. Height \in Nat \ {0}
  BY HeightTyped
<1>2. \A i \in 1..(Height - 1) : stack[i] \in Nodes \X BOOLEAN
  BY <1>1, EntryTyped
<1>3. stack' = SubSeq(stack, 1, Height - 1)
  BY DEF Rest, Height
<1>4. /\ stack' \in Seq(Nodes \X BOOLEAN)
      /\ Len(stack') = IF 1 <= Height - 1 THEN Height - 1 - 1 + 1 ELSE 0
      /\ \A i \in 1..(Height - 1 - 1 + 1) : stack'[i] = stack[1 + i - 1]
  BY <1>1, <1>2, <1>3, SubSeqProperties
<1>5. Height' = Len(stack')
  BY DEF Height
<1> QED
  BY <1>1, <1>4, <1>5

LEMMA Pushed ==
  ASSUME NEW old \in Seq(Nodes \X BOOLEAN), NEW e \in Nodes \X BOOLEAN, stack' = Append(old, e)
  PROVE  /\ stack' \in Seq(Nodes \X BOOLEAN)
         /\ Height' = Len(old) + 1
         /\ \A i \in 1..Len(old) : stack'[i] = old[i]
         /\ stack'[Len(old) + 1] = e
<1>1. /\ stack' \in Seq(Nodes \X BOOLEAN) /\ Len(stack') = Len(old) + 1
      /\ \A i \in 1..Len(old) : stack'[i] = old[i]
      /\ stack'[Len(old) + 1] = e
  BY AppendProperties
<1>2. Height' = Len(stack')
  BY DEF Height
<1> QED
  BY <1>1, <1>2

\* What a pop, a push and an entry leave of the view that the invariant has of the stack.
LEMMA PopView ==
  ASSUME TypeOK, stack # <<>>, stack' = Rest
  PROVE  /\ stack' \in Seq(Nodes \X BOOLEAN)
         /\ Height' = Height - 1
         /\ \A i \in 1..(Height - 1) : Who(i)' = Who(i)
         /\ Open' = Open \ {Height}
<1>1. Height \in Nat \ {0}
  BY HeightTyped
<1>2. Open' = {i \in 1..(Height - 1) : stack[i][2] = TRUE}
  BY Popped, Zenon DEF Open
<1> QED
  BY <1>1, <1>2, Popped DEF Who, Open

LEMMA PushView ==
  ASSUME TypeOK, NEW d \in Nodes, stack' = Append(stack, <<d, FALSE>>)
  PROVE  /\ stack' \in Seq(Nodes \X BOOLEAN)
         /\ Height' = Height + 1
         /\ \A i \in 1..Height : Who(i)' = Who(i)
         /\ \A i : i = Height + 1 => Who(i)' = d
         /\ Open' = Open
<1>1. Height \in Nat
  BY HeightTyped
<1>2. /\ stack' \in Seq(Nodes \X BOOLEAN)
      /\ Height' = Height + 1
      /\ \A i \in 1..Height : stack'[i] = stack[i]
      /\ stack'[Height + 1] = <<d, FALSE>>
  <2>1. stack \in Seq(Nodes \X BOOLEAN) /\ <<d, FALSE>> \in Nodes \X BOOLEAN
    BY DEF TypeOK
  <2> QED
    BY <2>1, Pushed, Zenon DEF Height
<1>3. stack'[Height + 1][2] = FALSE /\ stack'[Height + 1][1] = d
  <2>1. <<d, FALSE>>[1] = d /\ <<d, FALSE>>[2] = FALSE
    OBVIOUS
  <2> QED
    BY <1>2, <2>1, Zenon
<1>4. Open' = Open
  <2>1. Open' = {i \in 1..(Height + 1) : stack'[i][2] = TRUE}
    BY <1>2, Zenon DEF Open
  <2>2. \A i \in 1..(Height + 1) : i \in 1..Height \/ i = Height + 1
    BY <1>1
  <2>3. \A i \in 1..Height : i \in 1..(Height + 1)
    BY <1>1
  <2>4. ASSUME NEW i PROVE i \in Open' <=> i \in Open
    BY <1>2, <1>3, <2>1, <2>2, <2>3, Zenon DEF Open
  <2> QED
    BY <2>4, Zenon
<1> QED
  BY <1>2, <1>3, <1>4, Zenon DEF Who

LEMMA EnterView ==
  ASSUME TypeOK, stack # <<>>, stack' = Append(Rest, <<Top[1], TRUE>>)
  PROVE  /\ stack' \in Seq(Nodes \X BOOLEAN)
         /\ Height' = Height
         /\ \A i \in 1..Height : Who(i)' = Who(i)
         /\ Open' = Open \cup {Height}
<1>1. Height \in Nat \ {0} /\ Height \in 1..Height
  BY HeightTyped
<1>2. Top[1] = Who(Height) /\ Who(Height) \in Nodes
  BY <1>1, EntryTyped DEF Top, Who, Height
<1>3. /\ Rest \in Seq(Nodes \X BOOLEAN)
      /\ Len(Rest) = Height - 1
      /\ \A i \in 1..(Height - 1) : Rest[i] = stack[i]
  <2>1. \A i \in 1..(Height - 1) : stack[i] \in Nodes \X BOOLEAN
    BY <1>1, EntryTyped
  <2>2. Rest = SubSeq(stack, 1, Height - 1)
    BY DEF Rest, Height
  <2>3. /\ Rest \in Seq(Nodes \X BOOLEAN)
        /\ Len(Rest) = IF 1 <= Height - 1 THEN Height - 1 - 1 + 1 ELSE 0
        /\ \A i \in 1..(Height - 1 - 1 + 1) : Rest[i] = stack[1 + i - 1]
    BY <1>1, <2>1, <2>2, SubSeqProperties
  <2> QED
    BY <1>1, <2>3
<1>4. /\ stack' \in Seq(Nodes \X BOOLEAN)
      /\ Height' = Len(Rest) + 1
      /\ \A i \in 1..Len(Rest) : stack'[i] = Rest[i]
      /\ stack'[Len(Rest) + 1] = <<Top[1], TRUE>>
  BY <1>2, <1>3, Pushed, Zenon
<1>5. /\ Height' = Height
      /\ \A i \in 1..(Height - 1) : stack'[i] = stack[i]
      /\ stack'[Height] = <<Top[1], TRUE>>
  <2>1. Len(Rest) + 1 = Height /\ Len(Rest) = Height - 1
    BY <1>1, <1>3
  <2> QED
    BY <1>3, <1>4, <2>1, Zenon
<1>6. stack'[Height][2] = TRUE /\ stack'[Height][1] = Who(Height)
  <2>1. <<Top[1], TRUE>>[1] = Top[1] /\ <<Top[1], TRUE>>[2] = TRUE
    OBVIOUS
  <2> QED
    BY <1>2, <1>5, <2>1, Zenon
<1>7. \A i \in 1..Height : i \in 1..(Height - 1) \/ i = Height
  BY <1>1
<1>8. \A i \in 1..Height : stack'[i][1] = stack[i][1]
  BY <1>5, <1>6, <1>7, Zenon DEF Who
<1>9. ASSUME NEW i PROVE i \in Open' <=> i \in Open \cup {Height}
  <2>1. \A k \in 1..(Height - 1) : k \in 1..Height /\ k # Height
    BY <1>1
  <2> QED
    BY <1>1, <1>5, <1>6, <1>7, <2>1, Zenon DEF Open
<1> QED
  BY <1>4, <1>5, <1>8, <1>9, Zenon DEF Who

LEMMA SameGraph ==
  ASSUME UNCHANGED batch
  PROVE  /\ \A n : Deps(n)' = Deps(n)
         /\ \A S : Cyclic(S)' <=> Cyclic(S)
         /\ NoFindings' <=> cycles' = {} /\ ~Ambiguous /\ ~Unknown /\ ~textual
         /\ force' = force
<1>1. \A n : Deps(n)' = Deps(n)
  BY DEF batch, Deps, Local
<1>2. \A S : Cyclic(S)' <=> Cyclic(S)
  BY <1>1 DEF Cyclic
<1>3. (Ambiguous' <=> Ambiguous) /\ (Unknown' <=> Unknown) /\ (textual' <=> textual) /\ force' = force
  BY DEF batch, Ambiguous, Unknown, LocalIds
<1> QED
  BY <1>1, <1>2, <1>3, Zenon DEF NoFindings

(***************************************************************************)
(* The steps.                                                              *)
(***************************************************************************)

LEMMA InitSearch == Init => SearchInv
<1> SUFFICES ASSUME Init PROVE SearchInv
  OBVIOUS
<1> USE GraphAssumption
<1>1. stack \in Seq(Nodes \X BOOLEAN) /\ Height = 0 /\ stack = <<>>
  BY EmptySeq DEF Init, Height
<1>2. Open = {}
  BY <1>1 DEF Open
<1>3. TypeOK
  BY <1>1 DEF Init, TypeOK, White, Gray, Black
<1>4. GrayInv /\ PathInv /\ AheadInv
  BY <1>1, <1>2 DEF Init, GrayInv, PathInv, AheadInv, White, Gray
<1>5. ScanInv /\ BlackInv /\ StartInv /\ CyclesAreReal /\ ApprovedInv
  BY DEF Init, ScanInv, BlackInv, StartInv, CyclesAreReal, ApprovedInv, White, Black
<1> QED
  BY <1>3, <1>4, <1>5 DEF SearchInv

LEMMA StepTypes == ASSUME TypeOK, ScanInv, [Next]_vars PROVE TypeOK'
<1> USE GraphAssumption DEF batch, search, White, Gray, Black
<1>1. CASE NextStart
  <2>1. start + 1 \in Nodes
    BY <1>1 DEF NextStart, TypeOK, Nodes
  <2>2. stack' = Append(stack, <<start + 1, FALSE>>)
    BY <1>1 DEF NextStart
  <2>3. stack' \in Seq(Nodes \X BOOLEAN)
    BY <2>1, <2>2, PushView
  <2> QED
    BY <1>1, <2>3 DEF NextStart, TypeOK
<1>2. stack # <<>> => Top[1] \in Nodes
  BY HeightTyped, EntryTyped DEF Top, Who, Height
<1>3. CASE Exit
  <2>1. stack' \in Seq(Nodes \X BOOLEAN)
    BY <1>3, PopView DEF Exit
  <2> QED
    BY <1>2, <1>3, <2>1 DEF Exit, TypeOK
<1>4. CASE Enter
  <2>1. stack' \in Seq(Nodes \X BOOLEAN)
    BY <1>4, EnterView DEF Enter
  <2>2. todo' \subseteq Nodes
    BY <1>4, DepsInNodes DEF Enter
  <2> QED
    BY <1>2, <1>4, <2>1, <2>2 DEF Enter, TypeOK
<1>5. CASE Skip
  <2>1. stack' \in Seq(Nodes \X BOOLEAN)
    BY <1>5, PopView DEF Skip
  <2> QED
    BY <1>5, <2>1 DEF Skip, TypeOK
<1>6. ASSUME NEW d \in Nodes, Look(d) PROVE TypeOK'
  <2>1. stack' \in Seq(Nodes \X BOOLEAN)
    <3>1. CASE colors[d] = White
      BY <1>6, <3>1, PushView DEF Look
    <3>2. CASE colors[d] # White
      BY <1>6, <3>2 DEF Look, TypeOK
    <3> QED
      BY <3>1, <3>2
  <2>2. cycles' \subseteq Nodes \X Nodes
    <3>1. node \in Nodes
      BY <1>6, HeightTyped, EntryTyped DEF ScanInv, Look
    <3> QED
      BY <1>6, <3>1 DEF Look, TypeOK
  <2> QED
    BY <1>6, <2>1, <2>2 DEF Look, TypeOK
<1>7. CASE Looked \/ Searched \/ Decide
  BY <1>7 DEF Looked, Searched, Decide, TypeOK
<1>8. CASE UNCHANGED vars
  BY <1>8 DEF vars, TypeOK
<1> QED
  BY <1>1, <1>3, <1>4, <1>5, <1>6, <1>7, <1>8 DEF Next

\* A new start, on the empty stack.
LEMMA StepNextStart == ASSUME SearchInv, NextStart PROVE SearchInv'
<1> USE GraphAssumption
<1>1. /\ TypeOK /\ GrayInv /\ PathInv /\ ScanInv /\ AheadInv /\ BlackInv /\ StartInv
      /\ CyclesAreReal /\ ApprovedInv
  BY DEF SearchInv
<1>2. /\ pc = "next" /\ stack = <<>> /\ start < N /\ start' = start + 1
      /\ stack' = Append(stack, <<start + 1, FALSE>>)
      /\ UNCHANGED <<batch, pc, colors, node, todo, cycles, clock, rank, status>>
  BY DEF NextStart
<1>3. start + 1 \in Nodes /\ start \in Nat
  BY <1>1, <1>2 DEF TypeOK, Nodes
<1>4. Height = 0 /\ Open = {}
  BY <1>1, <1>2, HeightTyped DEF Open
<1>5. Height' = 1 /\ Open' = {} /\ (\A i : i = 1 => Who(i)' = start + 1)
  BY <1>1, <1>2, <1>3, <1>4, PushView
<1>6. TypeOK'
  BY <1>1, StepTypes DEF Next
<1>7. /\ \A n : Deps(n)' = Deps(n)
      /\ \A S : Cyclic(S)' <=> Cyclic(S)
      /\ NoFindings' <=> NoFindings
      /\ force' = force
  BY <1>2, SameGraph, Zenon DEF NoFindings
<1>8. GrayInv' /\ PathInv' /\ AheadInv' /\ ScanInv'
  BY <1>1, <1>2, <1>4, <1>5 DEF GrayInv, PathInv, AheadInv, ScanInv
<1>9. BlackInv' /\ CyclesAreReal'
  BY <1>1, <1>2, <1>7, Zenon DEF BlackInv, CyclesAreReal
<1>10. ApprovedInv'
  BY <1>1, <1>2, <1>7, Zenon DEF ApprovedInv
<1>11. StartInv'
  BY <1>1, <1>2, <1>3, <1>4, <1>5 DEF StartInv
<1> QED
  BY <1>6, <1>8, <1>9, <1>10, <1>11 DEF SearchInv

\* A finished node: its dependencies are, because nothing is above its open entry.
LEMMA StepExit == ASSUME SearchInv, Exit PROVE SearchInv'
<1> USE GraphAssumption
<1>1. /\ TypeOK /\ GrayInv /\ PathInv /\ ScanInv /\ AheadInv /\ BlackInv /\ StartInv
      /\ CyclesAreReal /\ ApprovedInv
  BY DEF SearchInv
<1> DEFINE x == Who(Height)
<1>2. Height \in Nat \ {0} /\ Height \in 1..Height /\ Open \subseteq 1..Height
  BY <1>1, HeightTyped DEF Exit
<1>3. x \in Nodes /\ Top = stack[Height] /\ Top[1] = x
  BY <1>1, <1>2, EntryTyped DEF Top, Height, Who
<1>4. Height \in Open
  <2>1. stack[Height][2] \in BOOLEAN /\ stack[Height][2]
    BY <1>1, <1>2, <1>3, EntryTyped, Zenon DEF Exit
  <2>2. stack[Height][2] = TRUE
    BY <2>1, Zenon
  <2> QED
    BY <1>2, <2>2 DEF Open
<1>5. /\ pc = "next" /\ stack # <<>> /\ stack' = Rest
      /\ UNCHANGED <<batch, pc, start, node, todo, cycles, status>>
      /\ colors' = [colors EXCEPT ![x] = Black]
      /\ clock' = clock + 1 /\ rank' = [rank EXCEPT ![x] = clock + 1]
  BY <1>3 DEF Exit
<1>6. /\ Height' = Height - 1
      /\ \A i \in 1..(Height - 1) : Who(i)' = Who(i)
      /\ Open' = Open \ {Height}
  BY <1>1, <1>5, PopView
<1>7. /\ \A n \in Nodes : /\ colors'[n] = IF n = x THEN Black ELSE colors[n]
                          /\ rank'[n] = IF n = x THEN clock + 1 ELSE rank[n]
      /\ rank \in [Nodes -> Nat] /\ clock \in Nat
  BY <1>3, <1>5, <1>1 DEF TypeOK
<1>8. TypeOK'
  BY <1>1, StepTypes DEF Next
<1>9. /\ \A n : Deps(n)' = Deps(n) /\ Deps(n) \subseteq Nodes
      /\ \A S : Cyclic(S)' <=> Cyclic(S)
      /\ NoFindings' <=> NoFindings
      /\ force' = force
  BY <1>5, SameGraph, DepsInNodes, Zenon DEF NoFindings
<1> HIDE DEF x
<1>10. \A i \in Open' : i \in Open /\ i \in 1..(Height - 1) /\ Who(i)' = Who(i) /\ Who(i) # x
  <2>1. \A i \in Open' : i \in Open /\ i \in 1..(Height - 1)
    BY <1>2, <1>6
  <2> QED
    BY <1>1, <1>2, <1>4, <1>6, <2>1 DEF GrayInv, x
<1>11. \A i \in Open : i # Height => i \in Open'
  BY <1>6
<1>12. colors[x] = Gray
  BY <1>1, <1>3, <1>4 DEF GrayInv, x
<1>13. cycles = {} => \A d \in Deps(x) : colors[d] = Black /\ d # x
  BY <1>1, <1>2, <1>4, <1>5, <1>12 DEF AheadInv, x, Gray, Black
<1>14. GrayInv'
  <2>1. \A n \in Nodes : colors'[n] = Gray <=> \E i \in Open' : Who(i)' = n
    BY <1>1, <1>7, <1>10, <1>11 DEF GrayInv, x, Gray, Black
  <2>2. \A i, j \in Open' : Who(i)' = Who(j)' => i = j
    BY <1>1, <1>10 DEF GrayInv
  <2>3. \A k \in 1..Height' : k \in 1..Height /\ k \in 1..(Height - 1) /\ k # Height
    BY <1>2, <1>6
  <2>4. \A k \in 1..Height' : k \notin Open' => \A j \in Open' : Who(k)' = Who(j)' => k < j
    BY <1>1, <1>6, <1>10, <1>11, <2>3 DEF GrayInv
  <2> QED
    BY <2>1, <2>2, <2>4 DEF GrayInv
<1>15. PathInv'
  <2>1. ASSUME NEW k \in Open', NEW m \in 1..Height', k < m, \A q \in Open' : ~(k < q /\ q < m)
        PROVE  Who(m)' \in Deps(Who(k))'
    <3>1. m \in 1..Height /\ m \in 1..(Height - 1) /\ Who(m)' = Who(m) /\ m < Height
      BY <1>2, <1>6, <2>1
    <3>2. \A q \in Open : ~(k < q /\ q < m)
      BY <1>2, <1>11, <2>1, <3>1
    <3>3. Who(m) \in Deps(Who(k))
      BY <1>1, <1>10, <2>1, <3>1, <3>2 DEF PathInv
    <3> QED
      BY <1>9, <1>10, <2>1, <3>1, <3>3, Zenon
  <2>2. ASSUME NEW k \in Open'
        PROVE  \/ \A m \in Open' : m <= k
               \/ \E m \in Open' : k < m /\ \A q \in Open' : ~(k < q /\ q < m)
    <3>1. CASE \A m \in Open : m <= k
      BY <1>10, <3>1
    <3>2. ASSUME NEW m \in Open, k < m, \A q \in Open : ~(k < q /\ q < m)
          PROVE  \/ \A j \in Open' : j <= k
                 \/ \E j \in Open' : k < j /\ \A q \in Open' : ~(k < q /\ q < j)
      <4>1. CASE m = Height
        BY <1>2, <1>10, <3>2, <4>1
      <4>2. CASE m # Height
        BY <1>10, <1>11, <3>2, <4>2
      <4> QED
        BY <4>1, <4>2
    <3> QED
      BY <1>1, <1>10, <3>1, <3>2 DEF PathInv
  <2> QED
    BY <2>1, <2>2 DEF PathInv
<1>16. AheadInv'
  <2> SUFFICES ASSUME cycles' = {}, NEW i \in Open', NEW d \in Deps(Who(i)),
                      colors'[d] # Black
               PROVE  \E k \in 1..Height' : i < k /\ Who(k)' = d
    BY <1>9, <1>10 DEF AheadInv
  <2>1. d \in Nodes /\ d # x /\ colors[d] # Black
    BY <1>7, <1>9
  <2>2. PICK k \in 1..Height : i < k /\ Who(k) = d
    BY <1>1, <1>5, <1>10, <2>1 DEF AheadInv
  <2>3. k \in 1..(Height - 1) /\ k \in 1..Height'
    BY <1>2, <1>6, <2>1, <2>2 DEF x
  <2> QED
    BY <1>6, <2>2, <2>3
<1>17. BlackInv'
  <2>1. \A n \in Nodes : colors'[n] = Black => rank'[n] <= clock'
    BY <1>1, <1>5, <1>7 DEF BlackInv
  <2>2. ASSUME cycles' = {}, NEW n \in Nodes, colors'[n] = Black, NEW d \in Deps(n)
        PROVE  colors'[d] = Black /\ rank'[d] < rank'[n]
    <3>1. d \in Nodes
      BY <1>9
    <3>2. CASE n = x
      BY <1>1, <1>5, <1>7, <1>13, <2>2, <3>1, <3>2 DEF BlackInv
    <3>3. CASE n # x
      BY <1>1, <1>5, <1>7, <1>12, <2>2, <3>1, <3>3 DEF BlackInv, Gray, Black
    <3> QED
      BY <3>2, <3>3
  <2>3. ASSUME cycles' = {}, NEW S \in SUBSET Nodes, Cyclic(S), NEW n \in S
        PROVE  colors'[n] # Black
    <3>1. \A k \in S : colors[k] # Black
      BY <1>1, <1>5, <2>3 DEF BlackInv
    <3>2. CASE n = x
      BY <1>5, <1>13, <2>3, <3>1, <3>2 DEF Cyclic
    <3> QED
      BY <1>7, <3>1, <3>2
  <2> QED
    BY <1>9, <2>1, <2>2, <2>3 DEF BlackInv
<1>18. StartInv'
  <2>1. ASSUME NEW n \in 1..start PROVE colors'[n] = Black \/ \E i \in 1..Height' : Who(i)' = n
    <3>1. n \in Nodes
      BY <1>1 DEF TypeOK, Nodes
    <3>2. CASE n # x /\ colors[n] # Black
      <4>1. PICK i \in 1..Height : Who(i) = n
        BY <1>1, <3>2 DEF StartInv
      <4>2. i \in 1..(Height - 1) /\ i \in 1..Height'
        BY <1>2, <1>6, <3>2, <4>1 DEF x
      <4> QED
        BY <1>6, <4>1, <4>2
    <3> QED
      BY <1>7, <3>1, <3>2
  <2> QED
    BY <1>5, <2>1 DEF StartInv
<1>19. ScanInv'
  BY <1>5 DEF ScanInv
<1>20. CyclesAreReal' /\ ApprovedInv'
  BY <1>1, <1>5, <1>9, Zenon DEF CyclesAreReal, ApprovedInv
<1> QED
  BY <1>8, <1>14, <1>15, <1>16, <1>17, <1>18, <1>19, <1>20 DEF SearchInv

\* A white node is entered: it has no open entry, and the one it gets is the topmost.
LEMMA StepEnter == ASSUME SearchInv, Enter PROVE SearchInv'
<1> USE GraphAssumption
<1>1. /\ TypeOK /\ GrayInv /\ PathInv /\ ScanInv /\ AheadInv /\ BlackInv /\ StartInv
      /\ CyclesAreReal /\ ApprovedInv
  BY DEF SearchInv
<1> DEFINE x == Who(Height)
<1>2. Height \in Nat \ {0} /\ Height \in 1..Height /\ Open \subseteq 1..Height
  BY <1>1, HeightTyped DEF Enter
<1>3. x \in Nodes /\ Top = stack[Height] /\ Top[1] = x
  BY <1>1, <1>2, EntryTyped DEF Top, Height, Who
<1>4. Height \notin Open
  BY <1>1, <1>3, Zenon DEF Enter, Open
<1>5. /\ pc = "next" /\ stack # <<>> /\ colors[x] = White
      /\ stack' = Append(Rest, <<Top[1], TRUE>>)
      /\ colors' = [colors EXCEPT ![x] = Gray]
      /\ node' = x /\ todo' = Deps(x) /\ pc' = "scan"
      /\ UNCHANGED <<batch, start, cycles, clock, rank, status>>
  BY <1>3 DEF Enter
<1>6. /\ Height' = Height
      /\ \A i \in 1..Height : Who(i)' = Who(i)
      /\ Open' = Open \cup {Height}
  BY <1>1, <1>5, EnterView
<1>7. \A n \in Nodes : colors'[n] = IF n = x THEN Gray ELSE colors[n]
  BY <1>3, <1>5, <1>1 DEF TypeOK
<1>8. TypeOK'
  BY <1>1, StepTypes DEF Next
<1>9. /\ \A n : Deps(n)' = Deps(n) /\ Deps(n) \subseteq Nodes
      /\ \A S : Cyclic(S)' <=> Cyclic(S)
      /\ NoFindings' <=> NoFindings
      /\ force' = force
  BY <1>5, SameGraph, DepsInNodes, Zenon DEF NoFindings
<1>10. \A i \in Open' : i \in 1..Height /\ Who(i)' = Who(i) /\ (i \in Open \/ i = Height)
  BY <1>2, <1>6
<1>11. \A i \in Open : i < Height /\ Who(i) \in Nodes /\ Who(i) # x
  <2>1. \A i \in Open : colors[Who(i)] = Gray /\ Who(i) \in Nodes
    BY <1>1, <1>2, EntryTyped DEF GrayInv
  <2> QED
    BY <1>2, <1>4, <1>5, <2>1 DEF White, Gray
<1>12. Who(Height)' = x
  BY <1>2, <1>6
<1>13. \A i : i = Height => Who(i)' = x
  BY <1>2, <1>6
<1>14. GrayInv'
  <2>1. \A n \in Nodes : colors'[n] = Gray <=> \E i \in Open' : Who(i)' = n
    BY <1>1, <1>2, <1>6, <1>7, <1>10, <1>13 DEF GrayInv, x
  <2>2. \A i, j \in Open' : Who(i)' = Who(j)' => i = j
    BY <1>1, <1>10, <1>11 DEF GrayInv, x
  <2>3. ASSUME NEW k \in 1..Height', k \notin Open', NEW j \in Open', Who(k)' = Who(j)'
        PROVE  k < j
    <3>1. k \in 1..Height /\ k \notin Open /\ k # Height /\ Who(k) = Who(j)
      BY <1>6, <1>10, <2>3
    <3>2. CASE j \in Open
      BY <1>1, <3>1, <3>2 DEF GrayInv
    <3>3. CASE j = Height
      BY <1>2, <3>1, <3>3
    <3> QED
      BY <1>10, <3>2, <3>3
  <2> QED
    BY <2>1, <2>2, <2>3 DEF GrayInv
<1>15. PathInv'
  <2>1. ASSUME NEW k \in Open', NEW m \in 1..Height', k < m, \A q \in Open' : ~(k < q /\ q < m)
        PROVE  Who(m)' \in Deps(Who(k))'
    <3>1. m \in 1..Height /\ Who(m)' = Who(m) /\ k \in Open /\ Who(k)' = Who(k)
      BY <1>2, <1>6, <1>10, <2>1
    <3>2. \A q \in Open : ~(k < q /\ q < m)
      BY <1>6, <2>1
    <3>3. Who(m) \in Deps(Who(k))
      BY <1>1, <2>1, <3>1, <3>2 DEF PathInv
    <3> QED
      BY <1>9, <3>1, <3>3, Zenon
  <2>2. ASSUME NEW k \in Open'
        PROVE  \/ \A m \in Open' : m <= k
               \/ \E m \in Open' : k < m /\ \A q \in Open' : ~(k < q /\ q < m)
    <3>1. CASE k = Height
      BY <1>2, <1>10, <1>11, <3>1
    <3>2. CASE k \in Open /\ \A m \in Open : m <= k
      BY <1>2, <1>6, <1>10, <1>11, <3>2
    <3>3. CASE k \in Open /\ \E m \in Open : k < m /\ \A q \in Open : ~(k < q /\ q < m)
      BY <1>2, <1>6, <1>10, <1>11, <3>3
    <3> QED
      BY <1>1, <1>10, <3>1, <3>2, <3>3 DEF PathInv
  <2> QED
    BY <2>1, <2>2 DEF PathInv
<1>16. AheadInv'
  <2> SUFFICES ASSUME cycles' = {}, NEW i \in Open', NEW d \in Deps(Who(i)), colors'[d] # Black
               PROVE  \/ pc' = "scan" /\ node' = Who(i)' /\ d \in todo'
                      \/ \E k \in 1..Height' : i < k /\ Who(k)' = d
    BY <1>9, <1>10 DEF AheadInv
  <2>1. CASE i = Height
    BY <1>5, <1>10, <2>1
  <2>2. CASE i \in Open
    <3>1. d \in Nodes /\ colors[d] # Black
      BY <1>5, <1>7, <1>9 DEF White, Black
    <3>2. PICK k \in 1..Height : i < k /\ Who(k) = d
      BY <1>1, <1>5, <2>2, <3>1 DEF AheadInv
    <3> QED
      BY <1>6, <3>2
  <2> QED
    BY <1>10, <2>1, <2>2
<1>17. BlackInv'
  <2>1. \A n \in Nodes : colors'[n] = Black <=> colors[n] = Black
    BY <1>5, <1>7 DEF White, Gray, Black
  <2> QED
    BY <1>1, <1>5, <1>9, <2>1 DEF BlackInv
<1>18. StartInv'
  <2>1. \A n \in 1..start : n \in Nodes
    BY <1>1 DEF TypeOK, Nodes
  <2>2. \A n \in Nodes : colors[n] = Black => colors'[n] = Black
    BY <1>5, <1>7 DEF White, Black
  <2> QED
    BY <1>1, <1>5, <1>6, <2>1, <2>2 DEF StartInv
<1>19. ScanInv'
  <2>1. Height \in Open' /\ \A k \in Open' : k <= Height
    BY <1>2, <1>6, <1>10
  <2>2. todo' \subseteq Deps(node)'
    BY <1>5, <1>9
  <2> QED
    BY <1>5, <1>13, <2>1, <2>2 DEF ScanInv
<1>20. CyclesAreReal' /\ ApprovedInv'
  BY <1>1, <1>5, <1>9 DEF CyclesAreReal, ApprovedInv
<1> QED
  BY <1>8, <1>14, <1>15, <1>16, <1>17, <1>18, <1>19, <1>20 DEF SearchInv

\* An entry of a node that is not white any more: it is finished, for the open entry of
\* a gray one would be above.
LEMMA StepSkip == ASSUME SearchInv, Skip PROVE SearchInv'
<1> USE GraphAssumption
<1>1. /\ TypeOK /\ GrayInv /\ PathInv /\ ScanInv /\ AheadInv /\ BlackInv /\ StartInv
      /\ CyclesAreReal /\ ApprovedInv
  BY DEF SearchInv
<1> DEFINE x == Who(Height)
<1>2. Height \in Nat \ {0} /\ Height \in 1..Height /\ Open \subseteq 1..Height
  BY <1>1, HeightTyped DEF Skip
<1>3. x \in Nodes /\ Top = stack[Height] /\ Top[1] = x
  BY <1>1, <1>2, EntryTyped DEF Top, Height, Who
<1>4. Height \notin Open
  BY <1>1, <1>3, Zenon DEF Skip, Open
<1>5. /\ pc = "next" /\ stack # <<>> /\ colors[x] # White /\ stack' = Rest
      /\ UNCHANGED <<batch, pc, start, colors, node, todo, cycles, clock, rank, status>>
  BY <1>3 DEF Skip
<1>6. /\ Height' = Height - 1
      /\ \A i \in 1..(Height - 1) : Who(i)' = Who(i)
      /\ Open' = Open
  BY <1>1, <1>4, <1>5, PopView
<1>7. colors[x] = Black
  <2>1. \A j \in Open : Who(j) # x
    BY <1>1, <1>2, <1>4 DEF GrayInv, x
  <2>2. colors[x] # Gray
    BY <1>1, <1>3, <2>1 DEF GrayInv
  <2> QED
    BY <1>1, <1>3, <1>5, <2>2 DEF TypeOK
<1>8. TypeOK'
  BY <1>1, StepTypes DEF Next
<1>9. /\ \A n : Deps(n)' = Deps(n) /\ Deps(n) \subseteq Nodes
      /\ \A S : Cyclic(S)' <=> Cyclic(S)
      /\ NoFindings' <=> NoFindings
      /\ force' = force
  BY <1>5, SameGraph, DepsInNodes, Zenon DEF NoFindings
<1> HIDE DEF x
<1>10. \A i \in Open : i \in 1..(Height - 1) /\ Who(i)' = Who(i)
  BY <1>2, <1>4, <1>6
<1>11. \A k \in 1..Height' : k \in 1..Height /\ Who(k)' = Who(k)
  BY <1>2, <1>6
<1>12. GrayInv'
  BY <1>1, <1>5, <1>6, <1>10, <1>11 DEF GrayInv
<1>13. PathInv'
  <2>1. ASSUME NEW k \in Open, NEW m \in 1..Height', k < m, \A q \in Open : ~(k < q /\ q < m)
        PROVE  Who(m)' \in Deps(Who(k))'
    <3>1. m \in 1..Height /\ Who(m)' = Who(m) /\ Who(k)' = Who(k)
      BY <1>10, <1>11
    <3>2. Who(m) \in Deps(Who(k))
      BY <1>1, <2>1, <3>1 DEF PathInv
    <3> QED
      BY <1>9, <3>1, <3>2, Zenon
  <2> QED
    BY <1>1, <1>6, <2>1 DEF PathInv
<1>14. AheadInv'
  <2> SUFFICES ASSUME cycles' = {}, NEW i \in Open, NEW d \in Deps(Who(i)), colors'[d] # Black
               PROVE  \E k \in 1..Height' : i < k /\ Who(k)' = d
    BY <1>6, <1>9, <1>10 DEF AheadInv
  <2>1. PICK k \in 1..Height : i < k /\ Who(k) = d
    BY <1>1, <1>5 DEF AheadInv
  <2>2. k # Height
    BY <1>5, <1>7, <2>1 DEF x
  <2>3. k \in 1..(Height - 1) /\ k \in 1..Height'
    BY <1>2, <1>6, <2>2
  <2> QED
    BY <1>6, <2>1, <2>3
<1>15. StartInv'
  <2>1. ASSUME NEW n \in 1..start, colors[n] # Black PROVE \E i \in 1..Height' : Who(i)' = n
    <3>1. PICK i \in 1..Height : Who(i) = n
      BY <1>1, <2>1 DEF StartInv
    <3>2. i # Height
      BY <1>7, <2>1, <3>1 DEF x
    <3>3. i \in 1..(Height - 1) /\ i \in 1..Height'
      BY <1>2, <1>6, <3>2
    <3> QED
      BY <1>6, <3>1, <3>3
  <2> QED
    BY <1>1, <1>5, <2>1 DEF StartInv
<1>16. BlackInv' /\ ScanInv'
  BY <1>1, <1>5, <1>9 DEF BlackInv, ScanInv
<1>17. CyclesAreReal' /\ ApprovedInv'
  BY <1>1, <1>5, <1>9, Zenon DEF CyclesAreReal, ApprovedInv
<1> QED
  BY <1>8, <1>12, <1>13, <1>14, <1>15, <1>16, <1>17 DEF SearchInv

\* A gray dependency closes a cycle: the open entries from its own up to the topmost.
LEMMA GrayClosesCycle ==
  ASSUME SearchInv, pc = "scan", NEW d \in todo, colors[d] = Gray
  PROVE  \E S \in SUBSET Nodes : Cyclic(S)
<1>1. TypeOK /\ GrayInv /\ PathInv /\ ScanInv
  BY DEF SearchInv
<1>2. d \in Nodes /\ Open \subseteq 1..Height /\ Height \in Nat
  BY <1>1, HeightTyped DEF TypeOK
<1>3. PICK i \in Open : Who(i) = d
  BY <1>1, <1>2 DEF GrayInv
<1>4. PICK j \in Open : Who(j) = node /\ \A k \in Open : k <= j
  BY <1>1 DEF ScanInv
<1>5. d \in Deps(node)
  BY <1>1 DEF ScanInv
<1> DEFINE S == {Who(k) : k \in {q \in Open : i <= q}}
<1>6. S \in SUBSET Nodes
  BY <1>1, <1>2, EntryTyped
<1>7. d \in S
  BY <1>2, <1>3
<1>8. ASSUME NEW k \in Open, i <= k PROVE Deps(Who(k)) \cap S # {}
  <2>1. CASE \A m \in Open : m <= k
    <3>1. k = j
      BY <1>2, <1>4, <2>1
    <3> QED
      BY <1>4, <1>5, <1>7, <3>1
  <2>2. ASSUME NEW m \in Open, k < m, \A q \in Open : ~(k < q /\ q < m)
        PROVE  Deps(Who(k)) \cap S # {}
    <3>1. Who(m) \in Deps(Who(k))
      BY <1>1, <1>2, <2>2 DEF PathInv
    <3>2. i <= m
      BY <1>2, <1>8, <2>2
    <3> QED
      BY <3>1, <3>2
  <2> QED
    BY <1>1, <2>1, <2>2 DEF PathInv
<1>9. Cyclic(S)
  BY <1>7, <1>8 DEF Cyclic
<1> QED
  BY <1>6, <1>9

\* A dependency is looked at: pushed, a cycle, or finished.
LEMMA StepLook == ASSUME SearchInv, NEW d \in Nodes, Look(d) PROVE SearchInv'
<1> USE GraphAssumption
<1>1. /\ TypeOK /\ GrayInv /\ PathInv /\ ScanInv /\ AheadInv /\ BlackInv /\ StartInv
      /\ CyclesAreReal /\ ApprovedInv
  BY DEF SearchInv
<1>2. /\ pc = "scan" /\ d \in todo /\ todo' = todo \ {d}
      /\ cycles' = IF colors[d] = Gray THEN cycles \cup {<<node, d>>} ELSE cycles
      /\ stack' = IF colors[d] = White THEN Append(stack, <<d, FALSE>>) ELSE stack
      /\ UNCHANGED <<batch, pc, start, colors, node, clock, rank, status>>
  BY DEF Look
<1>3. Height \in Nat /\ Open \subseteq 1..Height
  BY <1>1, HeightTyped
<1>4. PICK j \in Open : Who(j) = node /\ \A k \in Open : k <= j
  BY <1>1, <1>2 DEF ScanInv
<1>5. d \in Deps(node) /\ todo \subseteq Deps(node)
  BY <1>1, <1>2 DEF ScanInv
<1>6. TypeOK'
  BY <1>1, StepTypes DEF Next
<1>7. /\ \A n : Deps(n)' = Deps(n) /\ Deps(n) \subseteq Nodes
      /\ \A S : Cyclic(S)' <=> Cyclic(S)
  BY <1>2, SameGraph, DepsInNodes, Zenon
<1>8. CyclesAreReal'
  <2>1. \E S \in SUBSET Nodes : Cyclic(S) \/ cycles' = {}
    BY <1>1, <1>2, GrayClosesCycle DEF CyclesAreReal
  <2> QED
    BY <1>7, <2>1 DEF CyclesAreReal
<1>9. cycles' = {} => cycles = {} /\ colors[d] # Gray
  BY <1>2
<1>10. BlackInv' /\ ApprovedInv'
  BY <1>1, <1>2, <1>7, <1>9 DEF BlackInv, ApprovedInv
<1>11. CASE colors[d] # White
  <2>1. /\ stack' = stack /\ Height' = Height /\ Open' = Open
        /\ \A i : Who(i)' = Who(i)
    BY <1>2, <1>11 DEF Height, Open, Who
  <2>2. GrayInv' /\ StartInv'
    BY <1>1, <1>2, <2>1 DEF GrayInv, StartInv
  <2>3. PathInv'
    BY <1>1, <1>7, <2>1, Zenon DEF PathInv
  <2>4. ScanInv'
    BY <1>2, <1>4, <1>5, <1>7, <2>1 DEF ScanInv
  <2>5. AheadInv'
    <3>1. cycles' = {} => colors[d] = Black
      BY <1>1, <1>9, <1>11 DEF TypeOK
    <3> QED
      BY <1>1, <1>2, <1>7, <1>9, <2>1, <3>1 DEF AheadInv
  <2> QED
    BY <1>6, <1>8, <1>10, <2>2, <2>3, <2>4, <2>5 DEF SearchInv
<1>12. CASE colors[d] = White
  <2>1. stack' = Append(stack, <<d, FALSE>>) /\ cycles' = cycles
    BY <1>2, <1>12 DEF White, Gray
  <2>2. /\ Height' = Height + 1 /\ Open' = Open
        /\ \A i \in 1..Height : Who(i)' = Who(i)
        /\ \A i : i = Height + 1 => Who(i)' = d
    BY <1>1, <2>1, PushView
  <2>3. \A k \in 1..Height' : k \in 1..Height \/ k = Height + 1
    BY <1>3, <2>2
  <2>4. \A k \in 1..Height : k \in 1..Height' /\ k < Height + 1
    BY <1>3, <2>2
  <2>5. \A i \in Open : Who(i)' = Who(i) /\ Who(i) # d
    BY <1>1, <1>3, <1>12, <2>2 DEF GrayInv, White, Gray
  <2>6. GrayInv'
    BY <1>1, <1>2, <2>2, <2>3, <2>5 DEF GrayInv
  <2>7. PathInv'
    <3>1. ASSUME NEW k \in Open, NEW m \in 1..Height', k < m, \A q \in Open : ~(k < q /\ q < m)
          PROVE  Who(m)' \in Deps(Who(k))'
      <4>1. CASE m \in 1..Height
        <5>1. Who(m) \in Deps(Who(k))
          BY <1>1, <3>1, <4>1 DEF PathInv
        <5> QED
          BY <1>7, <2>2, <2>5, <4>1, <5>1, Zenon
      <4>2. CASE m = Height + 1
        <5>1. k = j
          BY <1>3, <1>4, <2>4, <3>1, <4>2
        <5> QED
          BY <1>4, <1>5, <1>7, <2>2, <2>5, <4>2, <5>1, Zenon
      <4> QED
        BY <2>3, <4>1, <4>2
    <3> QED
      BY <1>1, <2>2, <3>1 DEF PathInv
  <2>8. ScanInv'
    BY <1>2, <1>4, <1>5, <1>7, <2>2, <2>5 DEF ScanInv
  <2>9. AheadInv'
    <3> SUFFICES ASSUME cycles' = {}, NEW i \in Open, NEW e \in Deps(Who(i)), colors[e] # Black
                 PROVE  \/ pc' = "scan" /\ node' = Who(i)' /\ e \in todo'
                        \/ \E k \in 1..Height' : i < k /\ Who(k)' = e
      BY <1>2, <1>7, <2>2, <2>5 DEF AheadInv
    <3>1. CASE e = d
      <4>1. Height + 1 \in 1..Height' /\ i < Height + 1
        BY <1>3, <2>2, <2>4
      <4> QED
        BY <2>2, <3>1, <4>1
    <3>2. CASE pc = "scan" /\ node = Who(i) /\ e \in todo /\ e # d
      BY <1>2, <2>5, <3>2
    <3>3. CASE \E k \in 1..Height : i < k /\ Who(k) = e
      BY <2>2, <2>4, <3>3
    <3> QED
      BY <1>1, <1>9, <3>1, <3>2, <3>3 DEF AheadInv
  <2>10. StartInv'
    BY <1>1, <1>2, <2>2, <2>4 DEF StartInv
  <2> QED
    BY <1>6, <1>8, <1>10, <2>6, <2>7, <2>8, <2>9, <2>10 DEF SearchInv
<1> QED
  BY <1>11, <1>12

LEMMA StepEnd == ASSUME SearchInv, Looked \/ Searched \/ Decide \/ UNCHANGED vars PROVE SearchInv'
<1> USE GraphAssumption DEF search, batch
<1>1. /\ TypeOK /\ GrayInv /\ PathInv /\ ScanInv /\ AheadInv /\ BlackInv /\ StartInv
      /\ CyclesAreReal /\ ApprovedInv
  BY DEF SearchInv
<1>2. UNCHANGED <<batch, search>>
  BY DEF Looked, Searched, Decide, vars
<1>3. TypeOK'
  BY <1>1, StepTypes DEF Next
<1>4. /\ \A n : Deps(n)' = Deps(n)
      /\ \A S : Cyclic(S)' <=> Cyclic(S)
      /\ NoFindings' <=> NoFindings
      /\ force' = force
  BY <1>2, SameGraph, Zenon DEF NoFindings
<1>5. Height' = Height /\ Open' = Open /\ (\A i : Who(i)' = Who(i))
  BY <1>2 DEF Height, Open, Who
<1>6. GrayInv'
  BY <1>1, <1>2, <1>5 DEF GrayInv
<1>7. PathInv'
  BY <1>1, <1>4, <1>5, Zenon DEF PathInv
<1>8. BlackInv' /\ CyclesAreReal'
  BY <1>1, <1>2, <1>4 DEF BlackInv, CyclesAreReal
<1>9. ScanInv'
  <2>1. pc' = "scan" => pc = "scan"
    BY DEF Looked, Searched, Decide, vars
  <2> QED
    BY <1>1, <1>2, <1>4, <1>5, <2>1 DEF ScanInv
<1>10. AheadInv'
  <2>1. pc' = "scan" \/ pc # "scan" \/ todo = {}
    BY DEF Looked, Searched, Decide, vars
  <2>2. pc' = "scan" => pc = "scan"
    BY DEF Looked, Searched, Decide, vars
  <2> QED
    BY <1>1, <1>2, <1>4, <1>5, <2>1, <2>2 DEF AheadInv
<1>11. StartInv'
  <2>1. CASE Searched
    <3>1. Height = 0 /\ start = N
      BY <1>1, <2>1, HeightTyped DEF Searched
    <3>2. \A n \in Nodes : colors[n] = Black
      BY <1>1, <3>1 DEF StartInv, Nodes
    <3> QED
      BY <1>1, <1>2, <1>5, <3>2 DEF StartInv
  <2>2. CASE ~Searched
    <3>1. pc' \in {"decide", "end"} => pc \in {"decide", "end"}
      BY <2>2 DEF Looked, Decide, vars
    <3> QED
      BY <1>1, <1>2, <1>5, <3>1 DEF StartInv
  <2> QED
    BY <2>1, <2>2
<1>12. ApprovedInv'
  <2>1. CASE Decide
    <3>1. pc' = "end" /\ (status' = "approved" => NoFindings \/ force)
      BY <2>1 DEF Decide
    <3> QED
      BY <1>4, <3>1, Zenon DEF ApprovedInv
  <2>2. CASE ~Decide
    <3>1. status' = status /\ (pc = "end" => pc' = "end")
      BY <2>2 DEF Looked, Searched, vars
    <3> QED
      BY <1>1, <1>4, <3>1, Zenon DEF ApprovedInv
  <2> QED
    BY <2>1, <2>2
<1> QED
  BY <1>3, <1>6, <1>7, <1>8, <1>9, <1>10, <1>11, <1>12 DEF SearchInv

(***************************************************************************)
(* What is still to be done.                                               *)
(***************************************************************************)

\* Sets of nodes are finite, and the counts that StepsLeft is made of are numbers.
LEMMA NodeSets ==
  ASSUME NEW S \in SUBSET Nodes
  PROVE  IsFiniteSet(S) /\ Cardinality(S) \in Nat /\ Cardinality(S) <= N
<1>1. IsFiniteSet(Nodes) /\ Cardinality(Nodes) = N
  BY GraphAssumption, FS_Interval DEF Nodes
<1>2. IsFiniteSet(S) /\ Cardinality(S) <= Cardinality(Nodes)
  BY <1>1, FS_Subset
<1> QED
  BY <1>1, <1>2, FS_CardinalityType

\* The weight of a node that was not entered: it pays for looking at its dependencies.
Weight(w) == (2 * N + 2) * w

LEMMA WeightFacts ==
  ASSUME NEW w \in Nat
  PROVE  /\ Weight(w) \in Nat
         /\ \A v \in Nat : v <= w => Weight(v) <= Weight(w)
         /\ w > 0 => Weight(w) = Weight(w - 1) + 2 * N + 2
<1> DEFINE k == 2 * N + 2
<1>1. k \in Nat
  BY GraphAssumption
<1>2. ASSUME NEW v \in Nat, v <= w PROVE k * v <= k * w
  <2>1. k * (w - v) \in Nat
    BY <1>1, <1>2
  <2>2. k * (w - v) = k * w - k * v
    BY <1>1, <1>2
  <2> QED
    BY <1>1, <2>1, <2>2
<1>3. k * w \in Nat /\ k * (w - 1) = k * w - k
  BY <1>1
<1> QED
  BY <1>1, <1>2, <1>3, GraphAssumption DEF Weight

\* The counts that StepsLeft adds up.
Counts(w, t, h, s) ==
  /\ w \in Nat /\ t \in Nat /\ h \in Nat /\ s \in Nat /\ Togo(pc) \in Nat
  /\ StepsLeft = Weight(w) + 2 * s + h + 2 * t + Togo(pc)

CountsOK == Counts(Cardinality(Unentered), Cardinality(todo), Len(stack), N - start)

LEMMA CountsTyped == TypeOK => CountsOK
<1> SUFFICES ASSUME TypeOK PROVE CountsOK
  OBVIOUS
<1>1. Cardinality(Unentered) \in Nat /\ Cardinality(todo) \in Nat
  BY NodeSets DEF Unentered, TypeOK
<1>2. Len(stack) \in Nat
  BY LenProperties DEF TypeOK
<1>3. N - start \in Nat
  BY GraphAssumption DEF TypeOK
<1>4. Togo(pc) \in Nat
  BY DEF TypeOK, Togo
<1>5. StepsLeft = Weight(Cardinality(Unentered)) + 2 * (N - start) + Len(stack)
                    + 2 * Cardinality(todo) + Togo(pc)
  BY DEF StepsLeft, Weight
<1> QED
  BY <1>1, <1>2, <1>3, <1>4, <1>5 DEF CountsOK, Counts

\* Who enters a node gets at most N dependencies to look at, and pays for them.
LEMMA EnteredSum ==
  ASSUME NEW v \in Nat, NEW s \in Nat, NEW h \in Nat, NEW t \in Nat, NEW u \in Nat,
         NEW n \in Nat, u <= n
  PROVE  v + 2 * s + h + 2 * u + 3 < v + 2 * n + 2 + 2 * s + h + 2 * t + 2
OBVIOUS

\* Every step takes away from it.
LEMMA StepsLeftShrinks == ASSUME TypeOK, TypeOK', Next PROVE StepsLeft' < StepsLeft
<1> DEFINE w == Cardinality(Unentered)
           t == Cardinality(todo)
           h == Len(stack)
           s == N - start
<1>1. CountsOK /\ CountsOK'
  BY CountsTyped, PTL
<1>2. /\ w \in Nat /\ t \in Nat /\ h \in Nat /\ s \in Nat /\ Togo(pc) \in Nat
      /\ StepsLeft = Weight(w) + 2 * s + h + 2 * t + Togo(pc)
      /\ w' \in Nat /\ t' \in Nat /\ h' \in Nat /\ s' \in Nat /\ Togo(pc') \in Nat
      /\ StepsLeft' = Weight(w') + 2 * s' + h' + 2 * t' + Togo(pc')
  BY <1>1 DEF CountsOK, Counts, Togo
<1>3. N \in Nat /\ start \in Nat /\ stack \in Seq(Nodes \X BOOLEAN) /\ todo \subseteq Nodes
  BY GraphAssumption DEF TypeOK
<1>4. Weight(w) \in Nat /\ Weight(w') \in Nat
  BY <1>2, WeightFacts
<1>5. (UNCHANGED colors => w' = w) /\ (UNCHANGED todo => t' = t)
  BY DEF Unentered
<1>6. stack # <<>> => h > 0 /\ Top[1] \in Nodes /\ (stack' = Rest => h' = h - 1)
  <2> SUFFICES ASSUME stack # <<>> PROVE h > 0 /\ Top[1] \in Nodes /\ (stack' = Rest => h' = h - 1)
    OBVIOUS
  <2>1. h \in Nat \ {0}
    BY HeightTyped DEF Height
  <2>2. Top[1] \in Nodes
    BY <2>1, EntryTyped DEF Height, Who, Top
  <2>3. stack' = Rest => h' = h - 1
    BY Popped DEF Height
  <2> QED
    BY <2>1, <2>2, <2>3
<1> HIDE DEF w, t, h, s
<1>7. CASE NextStart
  <2>1. h = 0 /\ h' = 1 /\ s' = s - 1 /\ t' = t /\ w' = w /\ pc' = pc
    BY <1>3, <1>5, <1>7 DEF NextStart, h, s
  <2> QED
    BY <1>2, <1>4, <2>1
<1>8. CASE Exit
  <2>1. h' = h - 1 /\ s' = s /\ t' = t /\ pc' = pc
    BY <1>5, <1>6, <1>8 DEF Exit, s
  <2>2. Unentered' \subseteq Unentered /\ Unentered \subseteq Nodes
    BY <1>6, <1>8 DEF Exit, Unentered, TypeOK, White, Black
  <2>3. w' <= w
    BY <2>2, NodeSets, FS_Subset DEF w
  <2>4. Weight(w') <= Weight(w)
    BY <1>2, <2>3, WeightFacts
  <2> QED
    BY <1>2, <1>4, <2>1, <2>4
<1>9. CASE Enter
  <2> DEFINE n == Top[1]
  <2>1. Unentered' = Unentered \ {n} /\ n \in Unentered /\ Unentered \subseteq Nodes
    BY <1>6, <1>9 DEF Enter, Unentered, TypeOK, White, Gray
  <2>2. w > 0 /\ w' = w - 1
    <3>1. IsFiniteSet(Unentered) /\ w \in Nat
      BY <1>2, <2>1, NodeSets
    <3>2. w' = w - 1
      BY <2>1, <3>1, FS_RemoveElement DEF w
    <3> QED
      BY <1>2, <3>2
  <2>3. h' = h
    BY <1>9, EnterView DEF Enter, Height, h
  <2>4. t' <= N
    <3>1. t' = Cardinality(Deps(n))
      BY <1>9 DEF Enter, t
    <3>2. Deps(n) \in SUBSET Nodes
      BY DepsInNodes
    <3> QED
      BY <3>1, <3>2, NodeSets
  <2>5. s' = s /\ Togo(pc) = 2 /\ Togo(pc') = 3
    BY <1>9 DEF Enter, s, Togo
  <2>6. Weight(w) = Weight(w') + 2 * N + 2
    BY <1>2, <2>2, WeightFacts
  <2>7. N \in Nat /\ s \in Nat /\ h \in Nat /\ t \in Nat /\ t' \in Nat
    BY <1>2, <1>3
  <2>8. StepsLeft = Weight(w') + 2 * N + 2 + 2 * s + h + 2 * t + 2
    BY <1>2, <2>5, <2>6
  <2>9. StepsLeft' = Weight(w') + 2 * s + h + 2 * t' + 3
    BY <1>2, <2>3, <2>5
  <2>10. Weight(w') + 2 * s + h + 2 * t' + 3 < Weight(w') + 2 * N + 2 + 2 * s + h + 2 * t + 2
    BY <1>4, <2>4, <2>7, EnteredSum
  <2> QED
    BY <2>8, <2>9, <2>10
<1>10. CASE Skip
  <2>1. h' = h - 1 /\ s' = s /\ t' = t /\ w' = w /\ pc' = pc
    BY <1>5, <1>6, <1>10 DEF Skip, s
  <2> QED
    BY <1>2, <1>4, <2>1
<1>11. ASSUME NEW d \in Nodes, Look(d) PROVE StepsLeft' < StepsLeft
  <2>1. s' = s /\ w' = w /\ pc' = pc
    BY <1>5, <1>11 DEF Look, s
  <2>2. t' = t - 1
    BY <1>3, <1>11, NodeSets, FS_RemoveElement DEF Look, t
  <2>3. h' <= h + 1
    <3>1. stack' = stack \/ stack' = Append(stack, <<d, FALSE>>)
      BY <1>11 DEF Look
    <3>2. Len(Append(stack, <<d, FALSE>>)) = Len(stack) + 1
      BY <1>3, <1>11, AppendProperties
    <3>3. h' = h \/ h' = h + 1
      BY <3>1, <3>2 DEF h
    <3> QED
      BY <1>2, <3>3
  <2> QED
    BY <1>2, <1>4, <2>1, <2>2, <2>3
<1>12. CASE Looked \/ Searched \/ Decide
  <2>1. h' = h /\ s' = s /\ t' = t /\ w' = w
    BY <1>5, <1>12 DEF Looked, Searched, Decide, search, h, s
  <2>2. Togo(pc') < Togo(pc)
    BY <1>12 DEF Looked, Searched, Decide, Togo
  <2> QED
    BY <1>2, <1>4, <2>1, <2>2
<1> QED
  BY <1>7, <1>8, <1>9, <1>10, <1>11, <1>12 DEF Next

(***************************************************************************)
(* The theorems.                                                           *)
(***************************************************************************)

\* The depth-first search keeps its path, its promises and its colors, whatever the
\* order in which it takes the dependencies.
THEOREM SearchInvariant == Spec => []SearchInv
<1>1. SearchInv /\ [Next]_vars => SearchInv'
  BY StepNextStart, StepExit, StepEnter, StepSkip, StepLook, StepEnd DEF Next
<1> QED
  BY <1>1, InitSearch, PTL DEF Spec

\* The lint finds a cycle exactly when there is one, in a batch of any size.
THEOREM LintIsRight == Spec => []CycleFoundIffCyclic
<1>1. SearchInv => CycleFoundIffCyclic
  <2> SUFFICES ASSUME SearchInv, pc \in {"decide", "end"}
               PROVE  cycles # {} <=> \E S \in SUBSET Nodes : Cyclic(S)
    BY DEF CycleFoundIffCyclic
  <2>1. \A n \in Nodes : colors[n] = Black
    BY DEF SearchInv, StartInv
  <2>2. ASSUME cycles = {}, NEW S \in SUBSET Nodes, Cyclic(S) PROVE FALSE
    <3>1. \A n \in S : colors[n] # Black
      BY <2>2 DEF SearchInv, BlackInv
    <3>2. S # {}
      BY <2>2 DEF Cyclic
    <3> QED
      BY <2>1, <3>1, <3>2
  <2> QED
    BY <2>2 DEF SearchInv, CyclesAreReal
<1> QED
  BY <1>1, SearchInvariant, PTL

\* What is approved without force can be worked off, in the order in which the search
\* has left the tasks.
THEOREM ApprovalIsSafe == Spec => []ApprovedCanFinish
<1>1. SearchInv => ApprovedCanFinish
  <2> SUFFICES ASSUME SearchInv, status = "approved", ~force, NEW n \in Nodes
               PROVE  /\ \A d \in Deps(n) : rank[d] < rank[n]
                      /\ \A r \in refs[n] : r \in Existing \/ \E d \in Deps(n) : ids[d] = r
    BY DEF ApprovedCanFinish
  <2>1. pc = "end" /\ NoFindings
    BY DEF SearchInv, ApprovedInv
  <2>2. cycles = {} /\ ~Ambiguous /\ ~Unknown
    BY <2>1 DEF NoFindings
  <2>3. \A d \in Deps(n) : rank[d] < rank[n]
    BY <2>1, <2>2 DEF SearchInv, StartInv, BlackInv
  <2>4. ASSUME NEW r \in refs[n], r \notin Existing PROVE \E d \in Deps(n) : ids[d] = r
    <3>1. r \in LocalIds
      BY <2>2, <2>4 DEF Unknown
    <3>2. PICK d \in Nodes : ids[d] = r /\ r # NoId
      BY <3>1 DEF LocalIds
    <3>3. \A k \in Nodes : ids[k] = r => ~(d < k)
      BY <2>2, <3>2 DEF Ambiguous
    <3>4. Local(r, d)
      BY GraphAssumption, <3>2, <3>3 DEF Local, Nodes
    <3> QED
      BY <2>4, <3>2, <3>4 DEF Deps
  <2> QED
    BY <2>3, <2>4
<1> QED
  BY <1>1, SearchInvariant, PTL

\* The lint ends on every batch, cyclic or not: what is left of the search, a natural
\* number, gets smaller with every step.
THEOREM LintEnds == Spec => [](StepsLeft \in Nat) /\ SearchEnds
<1>1. SearchInv => TypeOK
  BY DEF SearchInv
<1>2. TypeOK /\ TypeOK' /\ [Next]_vars => [StepsLeft' < StepsLeft]_vars
  BY StepsLeftShrinks
<1>3. TypeOK => StepsLeft \in Nat
  <2> DEFINE w == Cardinality(Unentered)
             t == Cardinality(todo)
             h == Len(stack)
             s == N - start
  <2>1. ASSUME TypeOK PROVE Counts(w, t, h, s)
    BY <2>1, CountsTyped DEF CountsOK
  <2>2. ASSUME NEW a \in Nat, NEW b \in Nat, NEW c \in Nat, NEW d \in Nat, NEW e \in Nat
        PROVE  a + 2 * b + c + 2 * d + e \in Nat
    BY <2>2
  <2> HIDE DEF w, t, h, s
  <2>3. ASSUME TypeOK PROVE StepsLeft \in Nat
    <3>1. Weight(w) \in Nat
      BY <2>1, <2>3, WeightFacts DEF Counts
    <3> QED
      BY <2>1, <2>2, <2>3, <3>1 DEF Counts
  <2> QED
    BY <2>3
<1> QED
  BY <1>1, <1>2, <1>3, SearchInvariant, PTL DEF Spec, SearchEnds
=============================================================================
