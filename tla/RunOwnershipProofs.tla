------------------------- MODULE RunOwnershipProofs -------------------------
(***************************************************************************)
(* Proofs that a run is recovered on evidence, for any PIDs, numbers of    *)
(* runs and processes, and rows of older releases.                         *)
(***************************************************************************)
EXTENDS RunOwnership, TLAPS

(***************************************************************************)
(* The inductive invariant.                                                *)
(***************************************************************************)

\* Start ticks and what a recovery has seen lie in the past.
Past ==
  /\ \A p \in Pids : proc[p].born <= births
  /\ \A r \in Runs : seen[r] <= births

\* A live process is in no cgroup but that of the run it works for, which is kept.
Kept ==
  \A p \in Live : proc[p].cgroup # None =>
    proc[p].cgroup = proc[p].run /\ proc[p].cgroup \in cgroups

\* Nobody works for a run before its adapter is launched.
Unstarted ==
  \A r \in Runs : row[r].status = "absent" =>
    /\ row[r].version = 2 /\ row[r].cgroup = None
    /\ \A p \in Live : proc[p].run # r

\* The scheduler's own knowledge of its turn, which excludes recoveries.
TurnInv ==
  /\ step # "down" => self \in Pids
  /\ step \notin {"down", "idle"} =>
       /\ run \in Runs /\ checked = None
       /\ row[run].status = "open" /\ row[run].version = 2
  /\ step \in {"launched", "waiting"} => child \in Existing
  /\ step \in {"started", "prepared", "launched"} => row[run].cgroup = None
  /\ step \in {"started", "prepared"} => \A p \in Live : proc[p].run # run
  /\ step = "launched" =>
       \A p \in Live : proc[p].run = run => proc[p].cgroup = proc[child].cgroup

\* A recorded cgroup contains all that works for the run.
Contained ==
  \A r \in Runs : row[r].version = 2 /\ row[r].cgroup # None =>
    \A p \in Live : proc[p].run = r => proc[p].cgroup = row[r].cgroup

\* A recovery has still to look at whatever it could have seen.
Inspecting ==
  checked # None =>
    /\ row[checked].status = "open"
    /\ \A p \in Traced(checked) : p \in listed \/ proc[p].born > seen[checked]

Inv == TypeOK /\ Past /\ Kept /\ Unstarted /\ TurnInv /\ Contained /\ Inspecting /\ SurvivorsAreLate

(***************************************************************************)
(* Initially.                                                              *)
(***************************************************************************)

LEMMA InitInv == Init => Inv
<1> SUFFICES ASSUME Init PROVE Inv
  OBVIOUS
<1> USE OwnershipAssumption
<1>1. PICK v \in Versions :
        IF v = 2
        THEN births = 0 /\ proc = [q \in Pids |-> Free] /\ row = [r \in Runs |-> Absent]
        ELSE MaxBirths >= 2 /\ \E p \in Pids : Inherited(v, p)
  BY DEF Init
<1>2. /\ cgroups = {} /\ self = None /\ run = None /\ child = None /\ step = "down"
      /\ checked = None /\ listed = {} /\ seen = [r \in Runs |-> 0]
  BY DEF Init
<1>3. CASE v = 2
  <2>1. births = 0 /\ proc = [q \in Pids |-> Free] /\ row = [r \in Runs |-> Absent]
    BY <1>1, <1>3
  <2>2. Live = {}
    BY <2>1 DEF Live, Free
  <2>3. TypeOK
    BY <1>2, <2>1 DEF TypeOK, Process, Row, Runs, None, Free, Absent, Steps
  <2> QED
    BY <1>2, <2>1, <2>2, <2>3 DEF Inv, Past, Kept, Unstarted, TurnInv, Contained, Inspecting,
       SurvivorsAreLate, Traced, Free, Absent, Runs
<1>4. CASE v # 2
  <2>1. PICK p \in Pids : MaxBirths >= 2 /\ Inherited(v, p)
    BY <1>1, <1>4
  <2>2. births = 2 /\ \A q \in Pids : q # p => proc[q] = Free
    BY <2>1 DEF Inherited
  <2>3. proc[p] = [state |-> "live", born |-> 2, group |-> p, cgroup |-> None, run |-> 1]
    BY <2>1 DEF Inherited
  <2>4. Live = {p}
    <3>1. \A q \in Pids : q # p => proc[q].state = "free"
      BY <2>2 DEF Free
    <3>2. proc[p].state = "live" /\ p \in Pids
      BY <2>1, <2>3
    <3> QED
      BY <3>1, <3>2 DEF Live
  <2>5. \A r \in Runs : r # 1 => row[r] = Absent
    BY <2>1 DEF Inherited
  <2>6. row[1].version \in {0, 1} /\ row[1].status = "open" /\ 1 \in Runs /\ row[1] \in Row
    <3>1. 1 \in Runs /\ v \in {0, 1}
      BY <1>1, <1>4 DEF Runs
    <3>2. CASE v = 0
      <4>1. row[1] = [status |-> "open", version |-> 0, owner |-> None, start |-> 0,
                      group |-> None, cgroup |-> None]
        BY <2>1, <3>1, <3>2 DEF Inherited, Absent
      <4> QED
        BY <2>1, <3>1, <4>1 DEF Row, None
    <3>3. CASE v = 1
      <4>1. row[1] = [status |-> "open", version |-> 1, owner |-> p, start |-> 1,
                      group |-> p, cgroup |-> None]
        BY <2>1, <3>1, <3>3 DEF Inherited
      <4> QED
        BY <2>1, <3>1, <4>1 DEF Row, None
    <3> QED
      BY <3>1, <3>2, <3>3
  <2>7. TypeOK
    <3>1. proc \in [Pids -> Process]
      BY <2>1, <2>2, <2>3, <2>6 DEF Inherited, Process, Free, None
    <3>2. row \in [Runs -> Row]
      BY <2>1, <2>5, <2>6 DEF Inherited, Row, Absent, None
    <3> QED
      BY <1>2, <2>1, <2>2, <3>1, <3>2 DEF TypeOK, None, Steps, Runs
  <2>8. Past /\ Kept /\ Unstarted
    BY <1>2, <2>2, <2>3, <2>4, <2>5, <2>6 DEF Past, Kept, Unstarted, Free, Absent, Runs
  <2>9. TurnInv /\ Contained /\ Inspecting /\ SurvivorsAreLate
    BY <1>2, <2>5, <2>6 DEF TurnInv, Contained, Inspecting, SurvivorsAreLate, Absent
  <2> QED
    BY <2>7, <2>8, <2>9 DEF Inv
<1> QED
  BY <1>3, <1>4

(***************************************************************************)
(* Processes: who is alive after a step, and what is known of him.         *)
(***************************************************************************)

\* A new process is the only one that is new, and its start ticks are.
LEMMA BornFacts ==
  ASSUME TypeOK, NEW p \in Pids, NEW g, NEW c, NEW r, Born(p, g, c, r)
  PROVE  /\ births' = births + 1 /\ births' <= MaxBirths
         /\ Live' = Live \cup {p} /\ p \notin Live
         /\ proc'[p] = [state |-> "live", born |-> births + 1, group |-> g, cgroup |-> c, run |-> r]
         /\ \A q \in Pids : q # p => proc'[q] = proc[q]
<1> USE OwnershipAssumption
<1>1. /\ p \notin Existing /\ births < MaxBirths /\ births' = births + 1
      /\ proc' = [proc EXCEPT ![p] = [state |-> "live", born |-> births + 1,
                                      group |-> g, cgroup |-> c, run |-> r]]
  BY DEF Born
<1>2. proc'[p] = [state |-> "live", born |-> births + 1, group |-> g, cgroup |-> c, run |-> r]
  BY <1>1 DEF TypeOK
<1>3. \A q \in Pids : q # p => proc'[q] = proc[q]
  BY <1>1 DEF TypeOK
<1>4. p \notin Live
  BY <1>1 DEF Existing, Live
<1>5. Live' = Live \cup {p}
  BY <1>2, <1>3 DEF Live
<1> QED
  BY <1>1, <1>2, <1>3, <1>4, <1>5 DEF TypeOK

\* No step but those that start a process brings one to life or changes a living one.
Aging ==
  /\ births' = births
  /\ \A q \in Pids : q \in Live' => q \in Live /\ proc'[q] = proc[q]
  /\ \A q \in Pids : proc'[q].born <= proc[q].born

LEMMA AgingFacts ==
  ASSUME TypeOK
  PROVE  /\ UNCHANGED <<proc, births>> => Aging
         /\ \A p \in Pids : Exit(p) \/ Reap(p) => Aging
         /\ RecordFails \/ TimedOut \/ Finished \/ Dies => Aging
<1> USE OwnershipAssumption DEF TypeOK, Process, Live
<1>1. ASSUME UNCHANGED <<proc, births>> PROVE Aging
  BY <1>1 DEF Aging
<1>2. ASSUME NEW S, Ending(S), births' = births PROVE Aging
  BY <1>2 DEF Aging, Ending
<1>3. ASSUME NEW p \in Pids, Exit(p) PROVE Aging
  BY <1>2, <1>3 DEF Exit
<1>4. ASSUME NEW p \in Pids, proc' = [proc EXCEPT ![p] = Free], births' = births PROVE Aging
  BY <1>4 DEF Aging, Free
<1>5. ASSUME NEW p \in Pids, Reap(p) PROVE Aging
  BY <1>4, <1>5 DEF Reap
<1>6. ASSUME Kill, births' = births PROVE Aging
  BY <1>6 DEF Aging, Kill, Free
<1>7. ASSUME Finished PROVE Aging
  <2>1. proc' = [proc EXCEPT ![child] = Free] /\ births' = births
    BY <1>7 DEF Finished
  <2> QED
    BY <2>1 DEF Aging, Free
<1>8. ASSUME RecordFails \/ TimedOut PROVE Aging
  BY <1>6, <1>8 DEF RecordFails, TimedOut
<1>9. ASSUME Dies PROVE Aging
  BY <1>2, <1>9 DEF Dies
<1> QED
  BY <1>1, <1>3, <1>5, <1>7, <1>8, <1>9

\* A cgroup is only removed when nobody lives in it.
LEMMA RemoveFacts ==
  ASSUME TypeOK, NEW r \in Runs, RemoveCgroup(r)
  PROVE  /\ cgroups' \subseteq cgroups
         /\ \A p \in Live' : proc'[p].cgroup \in cgroups => proc'[p].cgroup \in cgroups'
  BY DEF RemoveCgroup, Live

(***************************************************************************)
(* Types.                                                                  *)
(***************************************************************************)

LEMMA BornTyped ==
  ASSUME TypeOK, NEW p \in Pids, NEW g \in Pids, NEW c \in Runs \cup {None},
         NEW r \in Runs \cup {None}, Born(p, g, c, r)
  PROVE  proc' \in [Pids -> Process] /\ births' \in 0..MaxBirths
<1> USE OwnershipAssumption DEF TypeOK
<1>1. births + 1 \in 0..MaxBirths /\ births' = births + 1
  BY DEF Born
<1>2. [state |-> "live", born |-> births + 1, group |-> g, cgroup |-> c, run |-> r] \in Process
  BY <1>1 DEF Process
<1> QED
  BY <1>1, <1>2 DEF Born

LEMMA KillTyped ==
  ASSUME TypeOK, Kill
  PROVE  proc' \in [Pids -> Process] /\ child' \in Pids \cup {None} /\ step' \in Steps
<1> USE OwnershipAssumption
<1>1. Free \in Process
  BY DEF Free, Process, None
<1>2. \A p \in Pids : [proc[p] EXCEPT !.state = "zombie"] \in Process
  BY DEF TypeOK, Process
<1> QED
  BY <1>1, <1>2 DEF Kill, TypeOK, None, Steps

LEMMA StepTyped == ASSUME TypeOK, TurnInv, [Next]_vars PROVE TypeOK'
<1> USE OwnershipAssumption
<1>1. \A r \in Runs : row[r] \in Row
  BY DEF TypeOK
<1>2. \A p \in Pids : proc[p] \in Process
  BY DEF TypeOK
<1>3. Free \in Process
  BY DEF Free, Process, None
<1>4. ASSUME NEW S, Ending(S) PROVE proc' \in [Pids -> Process]
  <2>1. \A p \in Pids : [proc[p] EXCEPT !.state = "zombie"] \in Process
    BY <1>2 DEF Process
  <2> QED
    BY <1>2, <1>4, <2>1 DEF Ending
<1>5. ASSUME NEW p \in Pids, StartScheduler(p) PROVE TypeOK'
  <2>1. Born(p, p, None, None)
    BY <1>5 DEF StartScheduler
  <2>2. proc' \in [Pids -> Process] /\ births' \in 0..MaxBirths
    BY <2>1, BornTyped DEF None
  <2> QED
    BY <1>5, <2>2 DEF StartScheduler, owner, TypeOK, Steps
<1>6. ASSUME NEW r \in Runs, StartRun(r) PROVE TypeOK'
  <2>1. PICK start \in Read(proc[self].born) :
          row' = [row EXCEPT ![r] = [Absent EXCEPT !.status = "open", !.owner = self, !.start = start]]
    BY <1>6 DEF StartRun
  <2>2. self \in Pids /\ start \in 0..MaxBirths
    BY <1>2, <1>6, <2>1 DEF StartRun, TurnInv, TypeOK, Process, Read, None
  <2>3. [Absent EXCEPT !.status = "open", !.owner = self, !.start = start] \in Row
    BY <2>2 DEF Absent, Row, None
  <2>4. row' \in [Runs -> Row]
    BY <1>1, <2>1, <2>3 DEF TypeOK
  <2> QED
    BY <1>6, <2>4 DEF StartRun, owner, TypeOK, Steps
<1>7. CASE PrepareCgroup
  BY <1>7 DEF PrepareCgroup, owner, TypeOK, Steps, TurnInv
<1>8. CASE LaunchFails
  BY <1>8 DEF LaunchFails, owner, TypeOK, Steps
<1>9. ASSUME NEW p \in Pids, Launch(p) PROVE TypeOK'
  <2>1. Born(p, p, IF run \in cgroups THEN run ELSE None, run)
    BY <1>9 DEF Launch
  <2>2. run \in Runs \cup {None} /\ (IF run \in cgroups THEN run ELSE None) \in Runs \cup {None}
    BY DEF TypeOK
  <2>3. proc' \in [Pids -> Process] /\ births' \in 0..MaxBirths
    BY <2>1, <2>2, BornTyped
  <2> QED
    BY <1>9, <2>3 DEF Launch, owner, TypeOK, Steps
<1>10. CASE Record
  <2>1. PICK c \in Read(proc[child].cgroup) :
          row' = [row EXCEPT ![run].group = proc[child].group, ![run].cgroup = c]
    BY <1>10 DEF Record
  <2>2. child \in Pids /\ run \in Runs
    BY <1>10 DEF Record, TurnInv, Existing
  <2>3. proc[child].group \in Pids \cup {None} /\ c \in Runs \cup {None}
    BY <1>2, <2>1, <2>2 DEF Process, Read
  <2>4. \A r \in Runs : [row[r] EXCEPT !.group = proc[child].group, !.cgroup = c] \in Row
    <3>1. ASSUME NEW x \in Row, NEW g \in Pids \cup {None}, NEW d \in Runs \cup {None}
          PROVE  [x EXCEPT !.group = g, !.cgroup = d] \in Row
      BY DEF Row
    <3> QED
      BY <1>1, <2>3, <3>1
  <2>5. row' \in [Runs -> Row]
    BY <1>1, <2>1, <2>2, <2>4 DEF TypeOK
  <2> QED
    BY <1>10, <2>5 DEF Record, owner, TypeOK, Steps
<1>11. CASE RecordFails
  <2>1. Kill /\ run \in Runs
    BY <1>11 DEF RecordFails, TurnInv
  <2>2. cgroups' \subseteq Runs
    BY <1>11, <2>1, RemoveFacts DEF RecordFails, TypeOK
  <2>3. proc' \in [Pids -> Process] /\ child' \in Pids \cup {None} /\ step' \in Steps
    BY <2>1, KillTyped
  <2> QED
    BY <1>11, <2>2, <2>3 DEF RecordFails, owner, TypeOK
<1>12. CASE TimedOut
  <2>1. Kill /\ run \in Runs
    BY <1>12 DEF TimedOut, TurnInv
  <2>2. cgroups' \subseteq Runs
    BY <1>12, <2>1, RemoveFacts DEF TimedOut, TypeOK
  <2>3. proc' \in [Pids -> Process] /\ child' \in Pids \cup {None} /\ step' \in Steps
    BY <2>1, KillTyped
  <2> QED
    BY <1>12, <2>2, <2>3 DEF TimedOut, owner, TypeOK
<1>13. CASE Finished
  <2>1. cgroups' \subseteq Runs
    BY <1>13, RemoveFacts DEF Finished, TurnInv, TypeOK
  <2>2. proc' \in [Pids -> Process]
    BY <1>2, <1>3, <1>13 DEF Finished, TypeOK
  <2> QED
    BY <1>13, <2>1, <2>2 DEF Finished, owner, TypeOK, Steps
<1>14. CASE EndRun
  <2>1. \A r \in Runs : [row[r] EXCEPT !.status = "ended"] \in Row
    BY <1>1 DEF Row
  <2>2. row' \in [Runs -> Row]
    BY <1>1, <1>14, <2>1 DEF EndRun, TypeOK
  <2> QED
    BY <1>14, <2>2 DEF EndRun, owner, TypeOK, Steps
<1>15. CASE Dies
  <2>1. proc' \in [Pids -> Process]
    BY <1>4, <1>15 DEF Dies
  <2> QED
    BY <1>15, <2>1 DEF Dies, owner, TypeOK, Steps
<1>16. ASSUME NEW p \in Pids, NEW q \in Pids, Fork(p, q) PROVE TypeOK'
  <2>1. PICK g \in {proc[p].group, q} : Born(q, g, proc[p].cgroup, proc[p].run)
    BY <1>16 DEF Fork
  <2>2. proc' \in [Pids -> Process] /\ births' \in 0..MaxBirths
    <3>1. proc[p].cgroup \in Runs \cup {None} /\ proc[p].run \in Runs \cup {None}
          /\ g \in Pids \cup {None}
      BY <1>2, <2>1 DEF Process
    <3>2. births + 1 \in 0..MaxBirths /\ births' = births + 1
      BY <2>1 DEF Born, TypeOK
    <3>3. [state |-> "live", born |-> births + 1, group |-> g, cgroup |-> proc[p].cgroup,
           run |-> proc[p].run] \in Process
      BY <3>1, <3>2 DEF Process
    <3> QED
      BY <1>2, <2>1, <3>2, <3>3 DEF Born, TypeOK
  <2> QED
    BY <1>16, <2>2 DEF Fork, scheduler, owner, TypeOK
<1>17. ASSUME NEW p \in Pids, Exit(p) PROVE TypeOK'
  <2>1. proc' \in [Pids -> Process]
    BY <1>4, <1>17 DEF Exit
  <2> QED
    BY <1>17, <2>1 DEF Exit, scheduler, owner, TypeOK
<1>18. ASSUME NEW p \in Pids, Reap(p) PROVE TypeOK'
  BY <1>3, <1>18 DEF Reap, scheduler, owner, TypeOK
<1>19. ASSUME NEW r \in Runs, Inspect(r) PROVE TypeOK'
  <2>1. listed' \subseteq Pids
    BY <1>19 DEF Inspect, Listing, Existing
  <2> QED
    BY <1>19, <2>1 DEF Inspect, scheduler, TypeOK
<1>20. ASSUME NEW p \in Pids, LookAt(p) PROVE TypeOK'
  BY <1>20 DEF LookAt, scheduler, TypeOK
<1>21. CASE Refuse
  BY <1>21 DEF Refuse, scheduler, TypeOK
<1>22. \A r \in Runs : [row[r] EXCEPT !.status = "recovered"] \in Row
  BY <1>1 DEF Row
<1>23. CASE Recover
  BY <1>1, <1>22, <1>23 DEF Recover, scheduler, TypeOK
<1>24. ASSUME NEW r \in Runs, Acknowledge(r) PROVE TypeOK'
  BY <1>1, <1>22, <1>24 DEF Acknowledge, scheduler, owner, TypeOK
<1>25. CASE UNCHANGED vars
  BY <1>25 DEF vars, scheduler, owner, TypeOK
<1> QED
  BY <1>5, <1>6, <1>7, <1>8, <1>9, <1>10, <1>11, <1>12, <1>13, <1>14, <1>15, <1>16, <1>17,
     <1>18, <1>19, <1>20, <1>21, <1>23, <1>24, <1>25 DEF Next, Turn, Host, Recovery

(***************************************************************************)
(* What a step that only ends processes, and one that starts one, leave of *)
(* the invariant.                                                          *)
(***************************************************************************)

LEMMA AgedInv ==
  ASSUME Inv, TypeOK', Aging, row' = row, seen' = seen
  PROVE  /\ Past' /\ Unstarted' /\ Contained' /\ SurvivorsAreLate'
         /\ cgroups' = cgroups => Kept'
         /\ UNCHANGED <<checked, listed>> => Inspecting'
<1> USE OwnershipAssumption
<1>1. Past'
  <2>1. \A p \in Pids : proc'[p].born \in Nat /\ proc[p].born \in Nat
    BY DEF Inv, TypeOK, Process
  <2>2. births' = births /\ births \in Nat /\ \A r \in Runs : seen'[r] = seen[r]
    BY DEF Aging, Inv, TypeOK
  <2> QED
    BY <2>1, <2>2 DEF Inv, Past, Aging
<1>2. \A p \in Live' : p \in Live /\ p \in Pids /\ proc'[p] = proc[p]
  BY DEF Aging, Live
<1>3. Unstarted' /\ Contained'
  BY <1>2 DEF Inv, Unstarted, Contained
<1>4. \A r \in Runs : \A p \in Traced(r)' : p \in Traced(r) /\ proc'[p].born = proc[p].born
  BY <1>2 DEF Traced
<1>5. SurvivorsAreLate'
  BY <1>4 DEF Inv, SurvivorsAreLate
<1>6. cgroups' = cgroups => Kept'
  BY <1>2 DEF Inv, Kept
<1>7. ASSUME UNCHANGED <<checked, listed>> PROVE Inspecting'
  <2>1. checked # None => checked \in Runs
    BY DEF Inv, TypeOK
  <2> QED
    BY <1>4, <1>7, <2>1 DEF Inv, Inspecting
<1> QED
  BY <1>1, <1>3, <1>5, <1>6, <1>7

\* A process in cgroup c may start for run r.
Fits(c, r) ==
  /\ c # None => c = r /\ c \in cgroups
  /\ r \in Runs => /\ row[r].status # "absent"
                   /\ row[r].version = 2 /\ row[r].cgroup # None => c = row[r].cgroup

LEMMA BornInv ==
  ASSUME Inv, NEW p \in Pids, NEW g, NEW c, NEW r, Born(p, g, c, r), Fits(c, r),
         row' = row, UNCHANGED <<cgroups, owner>>
  PROVE  Past' /\ Kept' /\ Unstarted' /\ Contained' /\ Inspecting' /\ SurvivorsAreLate'
<1> USE OwnershipAssumption
<1>1. TypeOK
  BY DEF Inv
<1>2. births' = births + 1 /\ births \in Nat /\ \A q \in Pids : proc[q].born \in Nat
  BY <1>1 DEF Born, TypeOK, Process
<1>3. Live' = Live \cup {p} /\ p \notin Live /\ \A q \in Pids : q # p => proc'[q] = proc[q]
  BY <1>1, BornFacts
<1>4. /\ proc'[p].born = births + 1 /\ proc'[p].cgroup = c /\ proc'[p].run = r
  BY <1>1 DEF Born, TypeOK
<1>5. \A q \in Live' : q \in Pids /\ (q = p \/ (q \in Live /\ proc'[q] = proc[q]))
  BY <1>3 DEF Live
<1>6. \A q \in Runs : seen'[q] = seen[q] /\ seen[q] \in Nat /\ seen[q] <= births
  BY <1>1 DEF owner, Inv, Past, TypeOK
<1>7. Past'
  BY <1>2, <1>3, <1>4, <1>6 DEF Inv, Past
<1>8. Kept'
  BY <1>4, <1>5 DEF Inv, Kept, Fits
<1>9. Unstarted' /\ Contained'
  BY <1>4, <1>5 DEF Inv, Unstarted, Contained, Fits
<1>10. \A q \in Runs : \A x \in Traced(q)' :
         (x \in Traced(q) /\ proc'[x].born = proc[x].born) \/ proc'[x].born > seen'[q]
  <2> TAKE q \in Runs
  <2> TAKE x \in Traced(q)'
  <2>1. x \in Live'
    BY DEF Traced
  <2>2. CASE x = p
    BY <1>2, <1>4, <1>6, <2>2
  <2>3. CASE x # p
    BY <1>5, <2>1, <2>3 DEF Traced
  <2> QED
    BY <2>2, <2>3
<1>11. SurvivorsAreLate'
  BY <1>6, <1>10 DEF Inv, SurvivorsAreLate
<1>12. Inspecting'
  <2>1. /\ checked' = checked /\ listed' = listed /\ seen' = seen
        /\ checked # None => checked \in Runs
    BY <1>1 DEF owner, TypeOK
  <2> QED
    BY <1>10, <2>1 DEF Inv, Inspecting
<1> QED
  BY <1>7, <1>8, <1>9, <1>11, <1>12

(***************************************************************************)
(* Every step preserves the invariant.                                     *)
(***************************************************************************)

\* Exit, Reap, and steps that change no variable.
LEMMA QuietInv ==
  ASSUME Inv, TypeOK', Aging, UNCHANGED <<row, cgroups, scheduler, owner>>,
         step \in {"launched", "waiting"} =>
           child \in Existing' /\ proc'[child].cgroup = proc[child].cgroup
  PROVE  Inv'
<1>1. /\ row' = row /\ cgroups' = cgroups /\ seen' = seen /\ checked' = checked /\ listed' = listed
      /\ self' = self /\ run' = run /\ child' = child /\ step' = step
  BY DEF owner, scheduler
<1>2. Past' /\ Unstarted' /\ Contained' /\ SurvivorsAreLate' /\ Kept' /\ Inspecting'
  BY <1>1, AgedInv
<1>3. TurnInv'
  <2>1. \A p \in Live' : p \in Live /\ proc'[p] = proc[p]
    BY DEF Aging, Live
  <2> QED
    BY <1>1, <2>1 DEF Inv, TurnInv
<1> QED
  BY <1>2, <1>3 DEF Inv

LEMMA HostInv ==
  ASSUME Inv, TypeOK', NEW p \in Pids, Exit(p) \/ Reap(p)
  PROVE  Inv'
<1>1. TypeOK /\ TurnInv
  BY DEF Inv
<1>2. Aging /\ UNCHANGED <<row, cgroups, scheduler, owner>>
  BY <1>1, AgingFacts DEF Exit, Reap
<1>3. ASSUME step \in {"launched", "waiting"}
      PROVE  child \in Existing' /\ proc'[child].cgroup = proc[child].cgroup
  <2>1. child \in Pids /\ proc[child].state # "free" /\ proc[child] \in Process
    BY <1>1, <1>3 DEF TurnInv, Existing, TypeOK
  <2>2. CASE Exit(p)
    BY <1>1, <2>1, <2>2 DEF Exit, Ending, TypeOK, Process, Existing
  <2>3. CASE Reap(p)
    BY <1>1, <2>1, <2>3 DEF Reap, TypeOK, Existing
  <2> QED
    BY <2>2, <2>3
<1> QED
  BY <1>2, <1>3, QuietInv

LEMMA ForkInv ==
  ASSUME Inv, TypeOK', NEW p \in Pids, NEW q \in Pids, Fork(p, q)
  PROVE  Inv'
<1>1. PICK g : Born(q, g, proc[p].cgroup, proc[p].run)
  BY DEF Fork
<1>2. p \in Live /\ proc[p].run # None /\ UNCHANGED <<row, cgroups, scheduler, owner>>
  BY DEF Fork
<1>3. TypeOK /\ row' = row /\ cgroups' = cgroups
  BY <1>2 DEF Inv
<1>4. Fits(proc[p].cgroup, proc[p].run)
  BY <1>2 DEF Inv, Kept, Unstarted, Contained, Fits
<1>5. UNCHANGED <<cgroups, owner>>
  BY <1>2
<1>6. Past' /\ Kept' /\ Unstarted' /\ Contained' /\ Inspecting' /\ SurvivorsAreLate'
  BY <1>1, <1>3, <1>4, <1>5, BornInv, Zenon
<1>7. /\ \A x \in Live' : x \in Pids /\ (x = q \/ (x \in Live /\ proc'[x] = proc[x]))
      /\ \A x \in Pids : x # q => proc'[x] = proc[x]
  BY <1>1, <1>3, BornFacts DEF Live
<1>8. proc'[q].cgroup = proc[p].cgroup /\ proc'[q].run = proc[p].run
  BY <1>1, <1>3 DEF Born, TypeOK
<1>9. self' = self /\ run' = run /\ child' = child /\ step' = step /\ checked' = checked
  BY <1>2 DEF scheduler, owner
<1>10. TurnInv'
  <2>1. ASSUME step \in {"launched", "waiting"}
        PROVE  child \in Existing' /\ proc'[child] = proc[child]
    <3>1. child \in Existing /\ q \notin Existing /\ child \in Pids
      BY <1>1, <2>1 DEF Inv, TurnInv, Born, Existing
    <3> QED
      BY <1>7, <3>1 DEF Existing
  <2> QED
    BY <1>2, <1>3, <1>7, <1>8, <1>9, <2>1 DEF Inv, TurnInv
<1> QED
  BY <1>6, <1>10 DEF Inv

LEMMA StartSchedulerInv ==
  ASSUME Inv, TypeOK', NEW p \in Pids, StartScheduler(p)
  PROVE  Inv'
<1>1. Born(p, p, None, None) /\ UNCHANGED <<row, cgroups, owner>>
  BY DEF StartScheduler, owner
<1>2. row' = row /\ step' = "idle" /\ self' = p /\ Fits(None, None)
  BY DEF StartScheduler, None, Runs, Fits
<1>3. Past' /\ Kept' /\ Unstarted' /\ Contained' /\ Inspecting' /\ SurvivorsAreLate'
  BY <1>1, <1>2, BornInv, Zenon
<1>4. TurnInv'
  BY <1>2 DEF TurnInv
<1> QED
  BY <1>3, <1>4 DEF Inv

LEMMA LaunchInv ==
  ASSUME Inv, TypeOK', NEW p \in Pids, Launch(p)
  PROVE  Inv'
<1> DEFINE c == IF run \in cgroups THEN run ELSE None
<1>1. Born(p, p, c, run) /\ UNCHANGED <<row, cgroups, owner>>
  BY DEF Launch, owner
<1>2. /\ row' = row /\ step = "prepared" /\ step' = "launched" /\ child' = p
      /\ self' = self /\ run' = run
  BY DEF Launch
<1>3. /\ TypeOK /\ run \in Runs /\ checked = None /\ self \in Pids
      /\ row[run].status = "open" /\ row[run].version = 2 /\ row[run].cgroup = None
      /\ \A x \in Live : proc[x].run # run
  BY <1>2 DEF Inv, TurnInv
<1>4. Fits(c, run)
  BY <1>3 DEF Fits
<1> HIDE DEF c
<1>5. Past' /\ Kept' /\ Unstarted' /\ Contained' /\ Inspecting' /\ SurvivorsAreLate'
  <2>1. UNCHANGED <<cgroups, owner>> /\ row' = row /\ Born(p, p, c, run)
    BY <1>1, <1>2
  <2> QED
    BY <1>4, <2>1, BornInv, Zenon
<1>6. \A x \in Live' : x = p \/ (x \in Live /\ proc'[x] = proc[x])
  <2>1. Live' = Live \cup {p} /\ \A x \in Pids : x # p => proc'[x] = proc[x]
    BY <1>1, <1>3, BornFacts, Zenon
  <2> QED
    BY <2>1 DEF Live
<1>7. proc'[p].state = "live"
  BY <1>1, <1>3 DEF Born, TypeOK
<1>8. checked' = None
  BY <1>1, <1>3 DEF owner
<1>9. TurnInv'
  BY <1>2, <1>3, <1>6, <1>7, <1>8 DEF TurnInv, Existing
<1> QED
  BY <1>5, <1>9 DEF Inv

\* The adapter's end: its turn closes, whoever of its session lives on.
LEMMA CloseInv ==
  ASSUME Inv, TypeOK', RecordFails \/ TimedOut \/ Finished
  PROVE  Inv'
<1>1. /\ step \in {"launched", "waiting"} /\ step' = "closing" /\ row' = row /\ run' = run
      /\ self' = self /\ UNCHANGED owner
  BY DEF RecordFails, TimedOut, Finished, Kill
<1>2. /\ TypeOK /\ run \in Runs /\ checked = None /\ self \in Pids
      /\ row[run].status = "open" /\ row[run].version = 2
  BY <1>1 DEF Inv, TurnInv
<1>3. Aging
  BY <1>2, AgingFacts
<1>4. seen' = seen /\ checked' = checked /\ listed' = listed
  BY <1>1 DEF owner
<1>5. Past' /\ Unstarted' /\ Contained' /\ SurvivorsAreLate' /\ Inspecting'
  BY <1>1, <1>3, <1>4, AgedInv
<1>6. cgroups' = cgroups \/ RemoveCgroup(run)
  BY DEF RecordFails, TimedOut, Finished
<1>7. \A x \in Live' : proc'[x].cgroup \in cgroups => proc'[x].cgroup \in cgroups'
  BY <1>2, <1>6, RemoveFacts
<1>8. Kept'
  BY <1>3, <1>7 DEF Inv, Kept, Aging, Live
<1>9. TurnInv'
  BY <1>1, <1>2, <1>4 DEF TurnInv
<1> QED
  BY <1>5, <1>8, <1>9 DEF Inv

LEMMA DiesInv ==
  ASSUME Inv, TypeOK', Dies
  PROVE  Inv'
<1>1. TypeOK /\ Aging
  BY AgingFacts DEF Inv
<1>2. row' = row /\ cgroups' = cgroups /\ seen' = seen /\ checked' = checked /\ listed' = listed
  BY DEF Dies, owner
<1>3. Past' /\ Unstarted' /\ Contained' /\ SurvivorsAreLate' /\ Kept' /\ Inspecting'
  BY <1>1, <1>2, AgedInv
<1>4. TurnInv'
  BY DEF Dies, TurnInv
<1> QED
  BY <1>3, <1>4 DEF Inv

(***************************************************************************)
(* Steps that start and end no process.                                    *)
(***************************************************************************)

\* Rows change, and nothing else that the living depend on.
LEMMA RowInv ==
  ASSUME Inv, TypeOK', proc' = proc, births' = births, UNCHANGED <<cgroups, owner>>,
         NEW r \in Runs, \A q \in Runs : q # r => row'[q] = row[q],
         r # checked, row[r].status # "recovered", row'[r].status \notin {"absent", "recovered"},
         row'[r].version = 2 /\ row'[r].cgroup # None =>
           \A p \in Live : proc[p].run = r => proc[p].cgroup = row'[r].cgroup
  PROVE  Past' /\ Kept' /\ Unstarted' /\ Contained' /\ Inspecting' /\ SurvivorsAreLate'
<1>1. seen' = seen /\ checked' = checked /\ listed' = listed /\ cgroups' = cgroups
  BY DEF owner
<1>2. Live' = Live
  BY DEF Live
<1>3. Past' /\ Kept'
  BY <1>1, <1>2 DEF Inv, Past, Kept
<1>4. Unstarted' /\ Contained'
  BY <1>1, <1>2 DEF Inv, Unstarted, Contained
<1>5. \A q \in Runs : q # r => Traced(q)' = Traced(q)
  BY <1>2 DEF Traced
<1>6. SurvivorsAreLate'
  BY <1>1, <1>5 DEF Inv, SurvivorsAreLate
<1>7. Inspecting'
  BY <1>1, <1>5 DEF Inv, Inspecting, TypeOK
<1> QED
  BY <1>3, <1>4, <1>6, <1>7

LEMMA StartRunInv ==
  ASSUME Inv, TypeOK', NEW r \in Runs, StartRun(r)
  PROVE  Inv'
<1>1. PICK start \in Read(proc[self].born) :
        row' = [row EXCEPT ![r] = [Absent EXCEPT !.status = "open", !.owner = self, !.start = start]]
  BY DEF StartRun
<1>2. TypeOK /\ row \in [Runs -> Row]
  BY DEF Inv, TypeOK
<1>3. /\ row'[r].status = "open" /\ row'[r].version = 2 /\ row'[r].cgroup = None
      /\ \A q \in Runs : q # r => row'[q] = row[q]
  BY <1>1, <1>2 DEF Absent
<1>4. /\ proc' = proc /\ births' = births /\ UNCHANGED <<cgroups, owner>>
      /\ row[r].status = "absent" /\ checked = None /\ step = "idle" /\ step' = "started"
      /\ run' = r /\ self' = self
  BY DEF StartRun
<1>5. r # checked
  BY <1>4 DEF Runs, None
<1>6. Past' /\ Kept' /\ Unstarted' /\ Contained' /\ Inspecting' /\ SurvivorsAreLate'
  BY <1>3, <1>4, <1>5, RowInv
<1>7. \A p \in Live : proc[p].run # r
  BY <1>4 DEF Inv, Unstarted
<1>8. checked' = None
  BY <1>4 DEF owner
<1>9. self \in Pids
  BY <1>4 DEF Inv, TurnInv
<1>10. Live' = Live
  BY <1>4 DEF Live
<1>11. TurnInv'
  BY <1>3, <1>4, <1>7, <1>8, <1>9, <1>10 DEF TurnInv
<1> QED
  BY <1>6, <1>11 DEF Inv

LEMMA RecordInv ==
  ASSUME Inv, TypeOK', Record
  PROVE  Inv'
<1>1. PICK c \in Read(proc[child].cgroup) :
        row' = [row EXCEPT ![run].group = proc[child].group, ![run].cgroup = c]
  BY DEF Record
<1>2. /\ TypeOK /\ run \in Runs /\ checked = None /\ self \in Pids /\ child \in Existing
      /\ row[run].status = "open" /\ row[run].version = 2
      /\ \A p \in Live : proc[p].run = run => proc[p].cgroup = proc[child].cgroup
  BY DEF Inv, TurnInv, Record
<1>3. row \in [Runs -> Row]
  BY <1>2 DEF TypeOK
<1>4. /\ row'[run].status = "open" /\ row'[run].version = 2 /\ row'[run].cgroup = c
      /\ \A q \in Runs : q # run => row'[q] = row[q]
  BY <1>1, <1>2, <1>3 DEF Row
<1>5. /\ proc' = proc /\ births' = births /\ UNCHANGED <<cgroups, owner>>
      /\ step' = "waiting" /\ run' = run /\ self' = self /\ child' = child
  BY DEF Record
<1>6. run # checked
  BY <1>2 DEF Runs, None
<1>7. c # None => \A p \in Live : proc[p].run = run => proc[p].cgroup = c
  BY <1>1, <1>2 DEF Read
<1>8. Past' /\ Kept' /\ Unstarted' /\ Contained' /\ Inspecting' /\ SurvivorsAreLate'
  BY <1>2, <1>4, <1>5, <1>6, <1>7, RowInv
<1>9. checked' = None /\ Existing' = Existing
  BY <1>2, <1>5 DEF owner, Existing
<1>10. TurnInv'
  BY <1>2, <1>4, <1>5, <1>9 DEF TurnInv
<1> QED
  BY <1>8, <1>10 DEF Inv

LEMMA EndRunInv ==
  ASSUME Inv, TypeOK', EndRun
  PROVE  Inv'
<1>1. /\ TypeOK /\ run \in Runs /\ checked = None /\ self \in Pids
      /\ row[run].status = "open" /\ row[run].version = 2
  BY DEF Inv, TurnInv, EndRun
<1>2. row \in [Runs -> Row] /\ row' = [row EXCEPT ![run].status = "ended"]
  BY <1>1 DEF TypeOK, EndRun
<1>3. /\ row'[run].status = "ended" /\ row'[run].version = 2 /\ row'[run].cgroup = row[run].cgroup
      /\ \A q \in Runs : q # run => row'[q] = row[q]
  BY <1>1, <1>2 DEF Row
<1>4. /\ proc' = proc /\ births' = births /\ UNCHANGED <<cgroups, owner>>
      /\ step' = "idle" /\ self' = self
  BY DEF EndRun
<1>5. run # checked
  BY <1>1 DEF Runs, None
<1>6. row[run].cgroup # None => \A p \in Live : proc[p].run = run => proc[p].cgroup = row[run].cgroup
  BY <1>1 DEF Inv, Contained
<1>7. Past' /\ Kept' /\ Unstarted' /\ Contained' /\ Inspecting' /\ SurvivorsAreLate'
  BY <1>1, <1>3, <1>4, <1>5, <1>6, RowInv
<1>8. TurnInv'
  BY <1>1, <1>4 DEF TurnInv
<1> QED
  BY <1>7, <1>8 DEF Inv

LEMMA PrepareInv ==
  ASSUME Inv, TypeOK', PrepareCgroup \/ LaunchFails
  PROVE  Inv'
<1>1. /\ step \in {"started", "prepared"} /\ step' \in {"prepared", "closing"}
      /\ proc' = proc /\ births' = births /\ row' = row /\ self' = self /\ run' = run
      /\ UNCHANGED owner
  BY DEF PrepareCgroup, LaunchFails
<1>2. /\ TypeOK /\ run \in Runs /\ checked = None /\ self \in Pids /\ row[run].cgroup = None
      /\ row[run].status = "open" /\ row[run].version = 2
      /\ \A p \in Live : proc[p].run # run
  BY <1>1 DEF Inv, TurnInv
<1>3. seen' = seen /\ checked' = checked /\ listed' = listed /\ Live' = Live /\ Aging
  BY <1>1, <1>2, AgingFacts DEF owner, Live
<1>4. Past' /\ Unstarted' /\ Contained' /\ SurvivorsAreLate' /\ Inspecting'
  BY <1>1, <1>3, AgedInv
<1>5. cgroups \ {run} \subseteq cgroups'
  BY DEF PrepareCgroup, LaunchFails
<1>6. Kept'
  BY <1>1, <1>2, <1>3, <1>5 DEF Inv, Kept
<1>7. TurnInv'
  BY <1>1, <1>2, <1>3 DEF TurnInv
<1> QED
  BY <1>4, <1>6, <1>7 DEF Inv

(***************************************************************************)
(* Recovery.                                                               *)
(***************************************************************************)

LEMMA InspectInv ==
  ASSUME Inv, TypeOK', NEW r \in Runs, Inspect(r)
  PROVE  Inv'
<1>1. /\ step \in {"down", "idle"} /\ row[r].status = "open"
      /\ proc' = proc /\ births' = births /\ row' = row /\ cgroups' = cgroups
      /\ self' = self /\ run' = run /\ child' = child /\ step' = step
      /\ checked' = r /\ listed' = Listing(r) /\ seen' = [seen EXCEPT ![r] = births]
  BY DEF Inspect, scheduler
<1>2. TypeOK /\ Live' = Live
  BY <1>1 DEF Inv, Live
<1>3. /\ seen'[r] = births /\ births \in Nat
      /\ \A q \in Runs : q # r => seen'[q] = seen[q]
  BY <1>1, <1>2 DEF TypeOK
<1>4. Past' /\ Kept' /\ Unstarted' /\ Contained'
  BY <1>1, <1>2, <1>3 DEF Inv, Past, Kept, Unstarted, Contained
<1>5. TurnInv'
  BY <1>1, <1>2 DEF Inv, TurnInv
<1>6. \A q \in Runs : Traced(q)' = Traced(q)
  BY <1>1, <1>2 DEF Traced
<1>7. SurvivorsAreLate'
  BY <1>1, <1>3, <1>6 DEF Inv, SurvivorsAreLate
<1>8. Traced(r) \subseteq Listing(r)
  <2> SUFFICES ASSUME NEW p \in Traced(r) PROVE p \in Listing(r)
    OBVIOUS
  <2>1. p \in Live /\ p \in Existing /\ proc[p].run = r
    BY DEF Traced, Live, Existing
  <2>2. CASE row[r].version = 2
    <3>1. row[r].cgroup # None
      BY <2>2 DEF Inspect
    <3>2. proc[p].cgroup = row[r].cgroup
      BY <2>1, <2>2, <3>1 DEF Inv, Contained
    <3>3. row[r].cgroup \in cgroups
      BY <2>1, <3>1, <3>2 DEF Inv, Kept
    <3> QED
      BY <2>1, <2>2, <3>2, <3>3 DEF Listing
  <2>3. CASE row[r].version # 2
    BY <2>1, <2>3 DEF Listing
  <2> QED
    BY <2>2, <2>3
<1>9. Inspecting'
  BY <1>1, <1>6, <1>8 DEF Inspecting
<1> QED
  BY <1>4, <1>5, <1>7, <1>9 DEF Inv

\* What is crossed off the list is not traced any more.
LEMMA LookAtInv ==
  ASSUME Inv, TypeOK', NEW p \in Pids, LookAt(p)
  PROVE  Inv'
<1>1. /\ p \in listed /\ ~Counts(checked, p) /\ listed' = listed \ {p}
      /\ proc' = proc /\ births' = births /\ row' = row /\ cgroups' = cgroups
      /\ self' = self /\ run' = run /\ child' = child /\ step' = step
      /\ checked' = checked /\ seen' = seen
  BY DEF LookAt, scheduler
<1>2. TypeOK /\ Live' = Live /\ \A q : Traced(q)' = Traced(q)
  BY <1>1 DEF Inv, Live, Traced
<1>3. Past' /\ Kept' /\ Unstarted' /\ Contained' /\ SurvivorsAreLate'
  BY <1>1, <1>2 DEF Inv, Past, Kept, Unstarted, Contained, SurvivorsAreLate
<1>4. TurnInv'
  BY <1>1, <1>2 DEF Inv, TurnInv, Existing
<1>5. p \notin Traced(checked)
  BY <1>1 DEF Counts, Traced, Live, Existing
<1>6. Inspecting'
  BY <1>1, <1>2, <1>5 DEF Inv, Inspecting
<1> QED
  BY <1>3, <1>4, <1>6 DEF Inv

LEMMA RefuseInv ==
  ASSUME Inv, TypeOK', Refuse
  PROVE  Inv'
<1>1. /\ checked' = None
      /\ proc' = proc /\ births' = births /\ row' = row /\ cgroups' = cgroups
      /\ self' = self /\ run' = run /\ child' = child /\ step' = step /\ seen' = seen
  BY DEF Refuse, scheduler
<1>2. TypeOK /\ Live' = Live /\ \A q : Traced(q)' = Traced(q)
  BY <1>1 DEF Inv, Live, Traced
<1>3. Past' /\ Kept' /\ Unstarted' /\ Contained' /\ SurvivorsAreLate'
  BY <1>1, <1>2 DEF Inv, Past, Kept, Unstarted, Contained, SurvivorsAreLate
<1>4. TurnInv'
  BY <1>1, <1>2 DEF Inv, TurnInv, Existing
<1>5. Inspecting'
  BY <1>1 DEF Inspecting
<1> QED
  BY <1>3, <1>4, <1>5 DEF Inv

\* Run r is closed by its owner, on evidence or on the owner's word.
LEMMA ClosedInv ==
  ASSUME Inv, TypeOK', NEW r \in Runs, row[r].status = "open",
         row' = [row EXCEPT ![r].status = "recovered"], step \in {"down", "idle"},
         checked' = None, UNCHANGED <<proc, births, cgroups, scheduler, seen>>,
         row[r].version = 0 \/ \A p \in Traced(r) : proc[p].born > seen[r]
  PROVE  Inv'
<1>1. /\ proc' = proc /\ births' = births /\ cgroups' = cgroups /\ seen' = seen
      /\ self' = self /\ run' = run /\ child' = child /\ step' = step
  BY DEF scheduler
<1>2. row \in [Runs -> Row]
  BY DEF Inv, TypeOK
<1>3. /\ row'[r].status = "recovered" /\ row'[r].version = row[r].version
      /\ row'[r].cgroup = row[r].cgroup /\ row'[r].group = row[r].group
      /\ \A q \in Runs : q # r => row'[q] = row[q]
  BY <1>2 DEF Row
<1>4. Live' = Live
  BY <1>1 DEF Live
<1>5. \A q \in Runs : Traced(q)' = Traced(q)
  BY <1>1, <1>3, <1>4 DEF Traced
<1>6. Past' /\ Kept'
  BY <1>1, <1>4 DEF Inv, Past, Kept
<1>7. Unstarted' /\ Contained'
  BY <1>1, <1>3, <1>4 DEF Inv, Unstarted, Contained
<1>8. SurvivorsAreLate'
  BY <1>1, <1>3, <1>5 DEF Inv, SurvivorsAreLate
<1>9. TurnInv'
  BY <1>1 DEF Inv, TurnInv
<1>10. Inspecting'
  BY DEF Inspecting
<1> QED
  BY <1>6, <1>7, <1>8, <1>9, <1>10 DEF Inv

LEMMA RecoverInv ==
  ASSUME Inv, TypeOK', Recover
  PROVE  Inv'
<1>1. /\ checked # None /\ listed = {} /\ row' = [row EXCEPT ![checked].status = "recovered"]
      /\ checked' = None /\ UNCHANGED <<proc, births, cgroups, scheduler, seen>>
  BY DEF Recover
<1>2. checked \in Runs
  BY <1>1 DEF Inv, TypeOK
<1>3. row[checked].status = "open" /\ \A p \in Traced(checked) : proc[p].born > seen[checked]
  BY <1>1 DEF Inv, Inspecting
<1>4. step \in {"down", "idle"}
  BY <1>1 DEF Inv, TurnInv
<1> QED
  BY <1>1, <1>2, <1>3, <1>4, ClosedInv, Zenon

LEMMA AcknowledgeInv ==
  ASSUME Inv, TypeOK', NEW r \in Runs, Acknowledge(r)
  PROVE  Inv'
<1>1. /\ step \in {"down", "idle"} /\ checked = None /\ row[r].status = "open"
      /\ row[r].version = 0 /\ row' = [row EXCEPT ![r].status = "recovered"]
      /\ UNCHANGED <<proc, births, cgroups, scheduler, owner>>
  BY DEF Acknowledge
<1>2. checked' = None /\ UNCHANGED <<proc, births, cgroups, scheduler, seen>>
  BY <1>1 DEF owner
<1> QED
  BY <1>1, <1>2, ClosedInv, Zenon

(***************************************************************************)
(* The theorems.                                                           *)
(***************************************************************************)

LEMMA NextInv == ASSUME Inv, [Next]_vars PROVE Inv'
<1>1. TypeOK'
  BY StepTyped DEF Inv
<1>2. ASSUME UNCHANGED vars PROVE Inv'
  <2>1. Aging /\ UNCHANGED <<row, cgroups, scheduler, owner>> /\ proc' = proc /\ child' = child
    BY <1>2, AgingFacts DEF vars, scheduler, Inv
  <2>2. step \in {"launched", "waiting"} => child \in Existing'
    BY <2>1 DEF Inv, TurnInv, Existing
  <2> QED
    BY <1>1, <2>1, <2>2, QuietInv
<1>3. ASSUME Turn PROVE Inv'
  BY <1>1, <1>3, PrepareInv, LaunchInv, RecordInv, CloseInv, EndRunInv DEF Turn
<1>4. ASSUME Host PROVE Inv'
  BY <1>1, <1>4, HostInv, ForkInv DEF Host
<1>5. ASSUME Recovery PROVE Inv'
  BY <1>1, <1>5, InspectInv, LookAtInv, RefuseInv, RecoverInv, AcknowledgeInv DEF Recovery
<1> QED
  BY <1>1, <1>2, <1>3, <1>4, <1>5, StartSchedulerInv, StartRunInv, DiesInv DEF Next

\* The evidence on runs is consistent with the host's processes: Inv holds in every
\* reachable state (start_run, record_adapter_owner, adapters._run, recover_runs).
THEOREM EvidenceIsSound == Spec => []Inv
<1>1. Init => Inv
  BY InitInv
<1>2. Inv /\ [Next]_vars => Inv'
  BY NextInv
<1> QED
  BY <1>1, <1>2, PTL DEF Spec

\* A run is recovered on evidence: what still works for it then was started after
\* its processes were listed (operations._owner_status, recover_runs).
THEOREM SurvivorsLate == Spec => []SurvivorsAreLate
<1>1. Inv => SurvivorsAreLate
  BY DEF Inv
<1> QED
  BY <1>1, EvidenceIsSound, PTL
=============================================================================
