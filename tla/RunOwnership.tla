---------------------------- MODULE RunOwnership ----------------------------
(***************************************************************************)
(* Who owns an unfinished run: the evidence that start_run,                *)
(* record_adapter_owner (nc/state.py) and the adapter launcher             *)
(* (nc/adapters.py) leave, and recover-runs (nc/operations.py), which      *)
(* closes a run whose owner and whose adapter are gone.                    *)
(*                                                                         *)
(* A session's processes fork, leave their process group, end and are      *)
(* reaped at any moment, PIDs are used again, and the scheduler dies       *)
(* between any two steps.  The lifecycle lock makes turns and recoveries   *)
(* exclude each other, but not recoveries and processes.                   *)
(***************************************************************************)
EXTENDS Integers

CONSTANTS
  Pids,       \* process ids
  MaxRuns,    \* bound: rows of table run
  MaxBirths,  \* bound: processes ever started
  Versions    \* ownership_version of row 1: 0 or 1 if an older release left it

ASSUME OwnershipAssumption ==
  /\ Pids \subseteq Nat \ {0}
  /\ MaxRuns \in Nat \ {0}
  /\ MaxBirths \in Nat
  /\ Versions \subseteq {0, 1, 2}

Runs == 1..MaxRuns
None == 0

\* born stands for the start ticks of /proc/<pid>/stat: no two processes share it.
Process == [state : {"free", "live", "zombie"}, born : 0..MaxBirths,
            group : Pids \cup {None}, cgroup : Runs \cup {None}, run : Runs \cup {None}]

Row == [status : {"absent", "open", "ended", "recovered"}, version : {0, 1, 2},
        owner : Pids \cup {None}, start : 0..MaxBirths,
        group : Pids \cup {None}, cgroup : Runs \cup {None}]

Steps == {"down", "idle", "started", "prepared", "launched", "waiting", "closing"}

VARIABLES
  proc,     \* the host's processes; "run" says for whose session one works
  births,   \* processes started so far
  row,      \* table run, what it says of ownership
  cgroups,  \* runs whose neocortex-run-* cgroup exists
  self,     \* the scheduler's PID
  run,      \* the run of the current turn
  child,    \* the adapter of the current turn
  step,     \* how far the turn is
  checked,  \* recover_runs: the run it inspects
  listed,   \* recover_runs: PIDs it has listed and not looked at yet
  seen      \* history: births when the recovery of a run listed its processes

scheduler == <<self, run, child, step>>
owner == <<checked, listed, seen>>
vars == <<proc, births, row, cgroups, scheduler, owner>>

TypeOK ==
  /\ proc \in [Pids -> Process]
  /\ births \in 0..MaxBirths
  /\ row \in [Runs -> Row]
  /\ cgroups \subseteq Runs
  /\ self \in Pids \cup {None}
  /\ run \in Runs \cup {None}
  /\ child \in Pids \cup {None}
  /\ step \in Steps
  /\ checked \in Runs \cup {None}
  /\ listed \subseteq Pids
  /\ seen \in [Runs -> 0..MaxBirths]

Free == [state |-> "free", born |-> 0, group |-> None, cgroup |-> None, run |-> None]
Absent == [status |-> "absent", version |-> 2, owner |-> None, start |-> 0,
           group |-> None, cgroup |-> None]

\* An older release left row 1 unfinished, perhaps with an adapter p that lives:
\* without any evidence (version 0), or with that of process groups (version 1).
Inherited(v, p) ==
  /\ births = 2
  /\ proc = [q \in Pids |-> IF q = p
               THEN [state |-> "live", born |-> 2, group |-> p, cgroup |-> None, run |-> 1]
               ELSE Free]
  /\ row = [r \in Runs |->
      IF r # 1 THEN Absent
      ELSE IF v = 0 THEN [Absent EXCEPT !.status = "open", !.version = 0]
      ELSE [status |-> "open", version |-> 1, owner |-> p, start |-> 1,
            group |-> p, cgroup |-> None]]

Init ==
  /\ \E v \in Versions :
       IF v = 2
       THEN births = 0 /\ proc = [q \in Pids |-> Free] /\ row = [r \in Runs |-> Absent]
       ELSE MaxBirths >= 2 /\ \E p \in Pids : Inherited(v, p)
  /\ cgroups = {}
  /\ self = None /\ run = None /\ child = None /\ step = "down"
  /\ checked = None /\ listed = {} /\ seen = [r \in Runs |-> 0]
----------------------------------------------------------------------------
(* Processes.                                                              *)

Live == {p \in Pids : proc[p].state = "live"}
Existing == {p \in Pids : proc[p].state # "free"}

\* A new process p.
Born(p, group, cgroup, r) ==
  /\ p \notin Existing /\ births < MaxBirths
  /\ births' = births + 1
  /\ proc' = [proc EXCEPT ![p] = [state |-> "live", born |-> births + 1,
                                  group |-> group, cgroup |-> cgroup, run |-> r]]

\* The processes of S end, but for the scheduler's.
Ending(S) ==
  proc' = [p \in Pids |-> IF p \in S \cap Live THEN [proc[p] EXCEPT !.state = "zombie"]
                                               ELSE proc[p]]

\* A process of a session starts another, in its own group or in a new one.
Fork(p, q) ==
  /\ p \in Live /\ proc[p].run # None
  /\ \E g \in {proc[p].group, q} : Born(q, g, proc[p].cgroup, proc[p].run)
  /\ UNCHANGED <<row, cgroups, scheduler, owner>>

Exit(p) ==
  /\ p \in Live /\ p # self
  /\ Ending({p})
  /\ UNCHANGED <<births, row, cgroups, scheduler, owner>>

\* The parent is init, or a helper; the scheduler waits for its adapter itself.
Reap(p) ==
  /\ proc[p].state = "zombie" /\ p # child
  /\ proc' = [proc EXCEPT ![p] = Free]
  /\ UNCHANGED <<births, row, cgroups, scheduler, owner>>

\* _remove_cgroup: rmdir refuses while a process lives in it.
RemoveCgroup(r) ==
  cgroups' = IF \E p \in Pids : proc'[p].state = "live" /\ proc'[p].cgroup = r
             THEN cgroups ELSE cgroups \ {r}
----------------------------------------------------------------------------
(* The scheduler and its turn.                                             *)

StartScheduler(p) ==
  /\ step = "down"
  /\ Born(p, p, None, None)
  /\ self' = p /\ step' = "idle"
  /\ UNCHANGED <<row, cgroups, run, child, owner>>

\* A fact of /proc, or None where it cannot be read.
Read(fact) == {fact, None}

StartRun(r) ==
  /\ step = "idle" /\ checked = None
  /\ row[r].status = "absent"
  /\ \E start \in Read(proc[self].born) :
       row' = [row EXCEPT ![r] = [Absent EXCEPT !.status = "open", !.owner = self,
                                                !.start = start]]
  /\ run' = r /\ step' = "started"
  /\ UNCHANGED <<proc, births, cgroups, self, child, owner>>

\* The host may offer no cgroup v2.
PrepareCgroup ==
  /\ step = "started"
  /\ cgroups' \in {cgroups, cgroups \cup {run}}
  /\ step' = "prepared"
  /\ UNCHANGED <<proc, births, row, self, run, child, owner>>

\* start_new_session, and the cgroup is joined before the adapter's code runs.
Launch(p) ==
  /\ step = "prepared"
  /\ Born(p, p, IF run \in cgroups THEN run ELSE None, run)
  /\ child' = p /\ step' = "launched"
  /\ UNCHANGED <<row, cgroups, self, run, owner>>

LaunchFails ==
  /\ step = "prepared"
  /\ cgroups' \in {cgroups, cgroups \ {run}}
  /\ step' = "closing"
  /\ UNCHANGED <<proc, births, row, self, run, child, owner>>

\* record_adapter_owner.  The adapter may have ended, but nobody has reaped it.
Record ==
  /\ step = "launched"
  /\ \E c \in Read(proc[child].cgroup) :
       row' = [row EXCEPT ![run].group = proc[child].group, ![run].cgroup = c]
  /\ step' = "waiting"
  /\ UNCHANGED <<proc, births, cgroups, self, run, child, owner>>

\* The adapter and what is left of its process group are killed, and it is reaped.
Kill ==
  /\ proc' = [p \in Pids |->
       IF p = child THEN Free
       ELSE IF p \in Live /\ proc[p].group = child THEN [proc[p] EXCEPT !.state = "zombie"]
       ELSE proc[p]]
  /\ child' = None /\ step' = "closing"

\* The callback raises: an adapter that is not recorded must not live on.
RecordFails ==
  /\ step = "launched"
  /\ Kill
  /\ cgroups' = cgroups \/ RemoveCgroup(run)
  /\ UNCHANGED <<births, row, self, run, owner>>

TimedOut ==
  /\ step = "waiting" /\ child \in Live
  /\ Kill
  /\ RemoveCgroup(run)
  /\ UNCHANGED <<births, row, self, run, owner>>

Finished ==
  /\ step = "waiting" /\ child \notin Live
  /\ proc' = [proc EXCEPT ![child] = Free]
  /\ child' = None /\ step' = "closing"
  /\ RemoveCgroup(run)
  /\ UNCHANGED <<births, row, self, run, owner>>

EndRun ==
  /\ step = "closing"
  /\ row' = [row EXCEPT ![run].status = "ended"]
  /\ run' = None /\ step' = "idle"
  /\ UNCHANGED <<proc, births, cgroups, self, child, owner>>

\* The scheduler's process ends, at the end of a turn or in the middle of one.
Dies ==
  /\ step # "down"
  /\ Ending({self})
  /\ self' = None /\ run' = None /\ child' = None /\ step' = "down"
  /\ UNCHANGED <<births, row, cgroups, owner>>
----------------------------------------------------------------------------
(* recover-runs.                                                           *)

Known(r) == row[r].owner # None /\ row[r].start # None

\* Mutant of OwnerLives: any process with the owner's PID is taken for the owner.
OwnerLivesMutant(r) == row[r].owner \in Existing

OwnerLives(r) == row[r].owner \in Existing /\ proc[row[r].owner].born = row[r].start

\* Mutant of Listing: process groups instead of cgroups.
ListingMutant(r) == {p \in Existing : proc[p].group = row[r].group}

\* What is listed first: the cgroup, empty if it does not exist any more, or, for an
\* older row, the whole of /proc.
Listing(r) == IF row[r].version = 2
              THEN {p \in Existing : proc[p].cgroup = row[r].cgroup /\ row[r].cgroup \in cgroups}
              ELSE Existing

\* Whether process p, when its stat is read, counts as a member.
Counts(r, p) == IF row[r].version = 2
                THEN p \in Live
                ELSE p \in Existing /\ proc[p].group = row[r].group

\* The lifecycle lock is free and the owner is known to be gone.
Inspect(r) ==
  /\ step \in {"down", "idle"} /\ checked = None
  /\ row[r].status = "open" /\ Known(r) /\ ~OwnerLives(r)
  /\ IF row[r].version = 2 THEN row[r].cgroup # None ELSE row[r].group # None
  /\ checked' = r
  /\ listed' = Listing(r)
  /\ seen' = [seen EXCEPT ![r] = births]
  /\ UNCHANGED <<proc, births, row, cgroups, scheduler>>

LookAt(p) ==
  /\ p \in listed /\ ~Counts(checked, p)
  /\ listed' = listed \ {p}
  /\ UNCHANGED <<proc, births, row, cgroups, scheduler, checked, seen>>

\* "refusing recovery; live ownership".
Refuse ==
  /\ \E p \in listed : Counts(checked, p)
  /\ checked' = None /\ listed' = {}
  /\ UNCHANGED <<proc, births, row, cgroups, scheduler, seen>>

Recover ==
  /\ checked # None /\ listed = {}
  /\ row' = [row EXCEPT ![checked].status = "recovered"]
  /\ checked' = None
  /\ UNCHANGED <<proc, births, cgroups, scheduler, listed, seen>>

\* No evidence at all: the owner vouches for it.
Acknowledge(r) ==
  /\ step \in {"down", "idle"} /\ checked = None
  /\ row[r].status = "open" /\ ~Known(r) /\ row[r].version = 0
  /\ row' = [row EXCEPT ![r].status = "recovered"]
  /\ UNCHANGED <<proc, births, cgroups, scheduler, owner>>
----------------------------------------------------------------------------
Turn ==
  \/ PrepareCgroup \/ LaunchFails \/ Record \/ RecordFails
  \/ \E p \in Pids : Launch(p)
  \/ TimedOut \/ Finished \/ EndRun

Host == \E p \in Pids : Exit(p) \/ Reap(p) \/ \E q \in Pids : Fork(p, q)

Recovery ==
  \/ \E r \in Runs : Inspect(r) \/ Acknowledge(r)
  \/ \E p \in Pids : LookAt(p)
  \/ Refuse \/ Recover

Next ==
  \/ \E p \in Pids : StartScheduler(p)
  \/ \E r \in Runs : StartRun(r)
  \/ Turn \/ Dies \/ Host \/ Recovery

Spec == Init /\ [][Next]_vars

\* Turns go on, sessions end, init reaps, and the owner tries again.
Fairness ==
  /\ WF_vars(Turn)
  /\ \A p \in Pids : WF_vars(Exit(p)) /\ WF_vars(Reap(p)) /\ WF_vars(LookAt(p))
  /\ WF_vars(Refuse) /\ WF_vars(Recover)
  /\ \A r \in Runs : SF_vars(Inspect(r))

FairSpec == Spec /\ Fairness
----------------------------------------------------------------------------
(* Properties.                                                             *)

\* The processes that work for run r and that its row lets an owner find.
Traced(r) == {p \in Live : proc[p].run = r /\ (row[r].version = 2 \/ proc[p].group = row[r].group)}

\* A run is recovered on evidence: what still works for it then was started after
\* its processes were listed, whatever left its group, died or took over a PID.
\* (A process that forks and ends in between lets its child go unseen.)
SurvivorsAreLate ==
  \A r \in Runs : row[r].status = "recovered" /\ row[r].version # 0 =>
    \A p \in Traced(r) : proc[p].born > seen[r]

\* No evidence is a trap: a run that a dead scheduler left with its adapter recorded
\* can be recovered in the end, even if another process has the scheduler's PID.
Abandoned(r) == row[r].status = "open" /\ run # r /\ row[r].start # None /\ row[r].cgroup # None
RecordedGetsRecovered ==
  \A r \in Runs : Abandoned(r) ~> row[r].status = "recovered"
=============================================================================
