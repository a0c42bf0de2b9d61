----------------------------- MODULE AcpProcess -----------------------------
(***************************************************************************)
(* The child process of an ACP turn and its supervisor (nc/acp_wire.py):   *)
(* the server and the helpers it may leave behind, in the process group or *)
(* out of it, and the close sequence: end of input, SIGTERM, SIGKILL and   *)
(* cgroup.kill, each followed by a bounded wait.                           *)
(*                                                                         *)
(* Time is an integer clock.  An operation of the client that can block    *)
(* runs until the variable until, and the clock does not pass that bound;  *)
(* the other steps of the client take no time.                             *)
(***************************************************************************)
EXTENDS Integers, Sequences

CONSTANTS
  Grace,      \* grace_s: the bound of each wait of the close sequence
  MaxFrames   \* how many frames the server writes

ASSUME ProcessAssumption == Grace \in Nat /\ MaxFrames \in Nat

VARIABLES
  now,        \* the monotonic clock
  until,      \* the deadline of the operation in progress
  pc,         \* what the client is doing
  proc,       \* the server process
  helpers,    \* the other processes of its tree: in the group, or escaped
  cgroup,     \* what the cleanup finds in the place of the adapter's cgroup
  pipe,       \* the server's stdout, frames not read yet
  buffer,     \* frames that were read but not dispatched
  frames,     \* how many frames the server has written for this client
  failed,     \* the turn has an exception to report
  phases,     \* timeout_phases
  uncertain   \* cleanup_uncertain

clock == <<now, until, pc>>
tree == <<proc, helpers, cgroup>>
stdout == <<pipe, buffer, frames>>
report == <<failed, phases, uncertain>>
processVars == <<clock, tree, stdout, report>>

Frame(kind, id, good) == [kind |-> kind, id |-> id, good |-> good]
EndOfFile == Frame("eof", 0, FALSE)

\* A cgroup can be absent or unreadable, readable, or also have cgroup.kill;
\* it does not matter before the cleanup looks.
Cgroups == {"none", "listed", "usable"}
Phases == {"cancel_response", "session_close", "term_grace", "kill_grace"}

ProcessTypeOK ==
  /\ now \in Nat /\ until \in Nat
  /\ proc \in {"absent", "running", "exit0", "failed", "killed"}
  /\ helpers \in {"none", "group", "escaped"}
  /\ cgroup \in Cgroups \cup {"unknown"}
  /\ frames \in 0..MaxFrames
  /\ failed \in BOOLEAN /\ uncertain \in BOOLEAN
  /\ phases \subseteq Phases

ProcessInit ==
  /\ now = 0 /\ until = 0 /\ pc = "launch"
  /\ proc = "absent" /\ helpers = "none" /\ cgroup = "unknown"
  /\ pipe = <<>> /\ buffer = <<>> /\ frames = 0
  /\ failed = FALSE /\ phases = {} /\ uncertain = FALSE

-----------------------------------------------------------------------------
(* The clock and the operations that wait on it.                           *)

\* The client starts an operation that may block until the time d.
Arm(step, d) == pc' = step /\ until' = d /\ UNCHANGED now

Expired == now >= until

\* Time passes only while the client waits, and not beyond its bound.
Tick == /\ now < until
        /\ now' = now + 1
        /\ UNCHANGED <<until, pc, tree, stdout, report>>

-----------------------------------------------------------------------------
(* The processes of the tree.  After SIGKILL they can only disappear.      *)

Dead == proc \notin {"absent", "running"}
Signalled == pc \in {"kill", "drain", "done"}
Free == pc # "launch" /\ ~Signalled
Reading == Free /\ pc \notin {"eof", "term"}
Ended == Len(pipe) > 0 /\ pipe[Len(pipe)] = EndOfFile
Alive == proc = "running" \/ helpers # "none"

\* stdout ends with the last process that holds it.
CloseStdout(last) ==
  pipe' = IF last /\ Reading /\ ~Ended THEN Append(pipe, EndOfFile) ELSE pipe

\* The server exits by itself; pc = "term": possibly because of the signal.
Exit == /\ Free /\ proc = "running"
        /\ \/ proc' \in {"exit0", "failed"}
           \/ pc = "term" /\ proc' = "killed"
        /\ CloseStdout(helpers = "none")
        /\ UNCHANGED <<clock, helpers, cgroup, buffer, frames, report>>

\* The server starts a helper, which may leave the group with setsid.
Spawn == /\ Free /\ proc = "running" /\ helpers = "none"
         /\ helpers' \in {"group", "escaped"}
         /\ UNCHANGED <<clock, proc, cgroup, stdout, report>>

HelperEnds == /\ helpers # "none"
              /\ helpers' = "none"
              /\ CloseStdout(Dead)
              /\ UNCHANGED <<clock, proc, cgroup, buffer, frames, report>>

\* A server that SIGKILL did not end at once ends later, or never does.
DiesLate == /\ Signalled /\ proc = "running"
            /\ proc' = "killed"
            /\ UNCHANGED <<clock, helpers, cgroup, stdout, report>>

-----------------------------------------------------------------------------
(* AcpSubprocess.close and _cleanup_process.                               *)

\* close: stdin is closed, and the server has a grace period to leave; what
\* is on its stdout is not read any more.
Close(failure) == /\ failed' = failure
                  /\ pipe' = <<>> /\ buffer' = <<>> /\ frames' = 0
                  /\ Arm("eof", now + Grace)

\* Mutant of EofWait: the end of the server is awaited without a bound.
EofWaitMutant == /\ pc = "eof"
                 /\ Dead
                 /\ failed' = (failed \/ proc = "failed")
                 /\ Arm("term", now + Grace)
                 /\ UNCHANGED <<tree, stdout, phases, uncertain>>

\* A server that left by itself with an error is a failure of the turn;
\* whoever is left in the group gets SIGTERM.
EofWait == /\ pc = "eof"
           /\ \/ /\ Dead
                 /\ failed' = (failed \/ proc = "failed")
                 /\ UNCHANGED phases
              \/ /\ ~Dead /\ Expired
                 /\ phases' = phases \cup {"term_grace"}
                 /\ UNCHANGED failed
           /\ Arm("term", now + Grace)
           /\ UNCHANGED <<tree, stdout, uncertain>>

\* SIGKILL reaches the server and the group, cgroup.kill also the escaped
\* helper; a process may take its time to disappear.
Killed == /\ cgroup' \in Cgroups
          /\ proc' \in IF proc = "running" THEN {"running", "killed"} ELSE {proc}
          /\ helpers' \in {helpers} \cup
               IF helpers = "group" \/ cgroup' = "usable" THEN {"none"} ELSE {}

TermWait == /\ pc = "term"
            /\ \/ Dead /\ UNCHANGED phases
               \/ ~Dead /\ Expired /\ phases' = phases \cup {"kill_grace"}
            /\ Killed
            /\ Arm("kill", now + Grace)
            /\ UNCHANGED <<stdout, failed, uncertain>>

\* Mutant of CleanupUncertain: the group is trusted to hold every helper.
CleanupUncertainMutant == ~Dead \/ helpers = "group"

\* Only a reaped child, an empty group and a readable, empty cgroup prove
\* that nothing of the tree is left.
CleanupUncertain == \/ ~Dead
                    \/ helpers = "group"
                    \/ cgroup = "none"
                    \/ helpers # "none"

\* The last wait; then the reader of stderr has two more grace periods.
Reap == /\ pc = "kill"
        /\ Dead \/ Expired
        /\ uncertain' = CleanupUncertain
        /\ Arm("drain", now + 2 * Grace)
        /\ UNCHANGED <<tree, stdout, failed, phases>>
=============================================================================
