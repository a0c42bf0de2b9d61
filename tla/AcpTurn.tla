------------------------------- MODULE AcpTurn -------------------------------
(***************************************************************************)
(* One ACP turn (nc/acp_client.py over nc/acp_stream.py): the client sends *)
(* the setup requests and the prompt one after another, reads the frames   *)
(* of the server until the answer it waits for, cancels and closes the     *)
(* session when the prompt's time is over, closes the process, and the     *)
(* host assesses what is left (_assess_acp of nc/adapters.py).             *)
(***************************************************************************)
EXTENDS AcpProcess, FiniteSets

CONSTANTS
  Setup,         \* how many requests precede the prompt; 4 in the code
  SessionStep,   \* the request whose answer names the session; 2 in the code
  Budget,        \* timeout_s
  CancelWindow,  \* 10 seconds in the code
  CloseWindow,   \* 5 seconds in the code
  PipeSize       \* how many frames the pipe holds

ASSUME TurnAssumption ==
  /\ Setup \in Nat /\ SessionStep \in 1..Setup
  /\ Budget \in Nat \ {0} /\ CancelWindow \in Nat /\ CloseWindow \in Nat
  /\ PipeSize \in Nat

VARIABLES
  step,        \* the request in progress, which is also its JSON-RPC id
  closes,      \* close_advertised
  deadline,    \* child.deadline, the supervisor's own deadline
  owed,        \* cancel_deadline, 0 before the prompt expires
  refused,     \* server_request_rejection
  airError,    \* an active AIR session failure was collected
  reply,       \* the terminal prompt response: none, good (end_turn) or bad
  timedOut,    \* timed_out
  cancelSent,  \* session/cancel is on the wire
  answered,    \* history: the server has written end_turn under the prompt's id
  verdict      \* the category of the HostAssessment

sessionVars == <<step, closes>>
bounds == <<deadline, owed>>
evidence == <<refused, airError, reply>>
outcome == <<timedOut, cancelSent, verdict>>
turnVars == <<sessionVars, bounds, evidence, outcome, answered>>
vars == <<processVars, turnVars>>

Prompt == Setup + 1
Total == Budget + CancelWindow + CloseWindow

\* The order of the client's operations.
Steps == {"launch", "send", "enter", "wait", "cancel", "cancelEnter",
          "cancelWait", "close", "closeWait", "watch",
          "eof", "term", "kill", "drain", "done"}
Verdicts == {"none", "success", "provider", "protocol", "local_error",
             "host_timeout"}
Frames == [kind : {"response", "request", "update", "broken", "eof"},
           id : 0..(Prompt + 1), good : BOOLEAN]

TypeOK ==
  /\ ProcessTypeOK
  /\ pc \in Steps
  /\ step \in 1..Prompt
  /\ pipe \in Seq(Frames) /\ buffer \in Seq(Frames)
  /\ deadline \in Nat /\ owed \in Nat
  /\ reply \in {"none", "good", "bad"} /\ verdict \in Verdicts
  /\ closes \in BOOLEAN /\ refused \in BOOLEAN /\ airError \in BOOLEAN
  /\ timedOut \in BOOLEAN /\ cancelSent \in BOOLEAN /\ answered \in BOOLEAN

Init ==
  /\ ProcessInit
  /\ step = 1 /\ closes = FALSE
  /\ deadline = Total /\ owed = 0
  /\ refused = FALSE /\ airError = FALSE /\ reply = "none"
  /\ timedOut = FALSE /\ cancelSent = FALSE /\ answered = FALSE
  /\ verdict = "none"

-----------------------------------------------------------------------------
(* What the server writes.  A frame stands for what the client tells       *)
(* apart: a response by its id and by whether its content is accepted; a   *)
(* request of the server by whether the client's policy knows it; an       *)
(* update only if it carries an AIR error, since others change nothing; a  *)
(* broken frame is one the stream or the bounded collector refuses.        *)

\* An answer is for the last request that was sent, or it comes late or twice
\* for the one before, or early, under the id that the next request will
\* have; 0 is an id that is never sent.
Sent == IF pc = "send" THEN step - 1 ELSE IF pc = "closeWait" THEN Prompt + 1 ELSE step
Answers == {Frame("response", Sent, g) : g \in BOOLEAN}
             \cup {Frame("response", i, TRUE) : i \in {Sent - 1, Sent + 1} \cap 0..(Prompt + 1)}
Others == {Frame("request", 0, g) : g \in BOOLEAN}
            \cup {Frame(k, 0, FALSE) : k \in {"update", "broken"}}

ServerWrites ==
  /\ Reading /\ Alive /\ ~Ended
  /\ frames < MaxFrames /\ Len(pipe) < PipeSize
  /\ \E f \in Answers \cup Others \cup {EndOfFile} :
       /\ pipe' = Append(pipe, f)
       /\ answered' = (answered \/ f = Frame("response", Prompt, TRUE))
  /\ frames' = frames + 1
  /\ UNCHANGED <<clock, tree, report, buffer, sessionVars, bounds, evidence, outcome>>

Server == /\ Exit \/ Spawn \/ HelperEnds \/ DiesLate
          /\ UNCHANGED turnVars

-----------------------------------------------------------------------------
(* Launching, and the beginning of an operation.                           *)

\* Mutant of BoundDeadline: an operation's own deadline is enough.
BoundDeadlineMutant(d) == d

\* The stream's default deadline bounds every operation on the wire.
BoundDeadline(d) == IF d < Total THEN d ELSE Total

\* Popen fails, or the callback that records the owner does: then the new
\* process is cleaned up at once.
LaunchFails == /\ pc = "launch"
               /\ verdict' = "protocol" /\ failed' = TRUE
               /\ Arm("done", now)
               /\ UNCHANGED <<tree, stdout, phases, uncertain, sessionVars, bounds,
                              evidence, timedOut, cancelSent, answered>>

Launch == /\ pc = "launch"
          /\ proc' = "running"
          /\ \/ Arm("send", Total) /\ UNCHANGED <<failed, stdout>>
             \/ Close(TRUE)
          /\ UNCHANGED <<helpers, cgroup, phases, uncertain, turnVars>>

\* A write succeeds while somebody holds the other end; the supervisor
\* reports a dead server before an operation, and after one that failed.
Writable == proc = "running" \/ helpers # "none"

FindsDead == /\ pc \in {"send", "enter", "cancel", "cancelEnter", "close"}
             /\ Dead
             /\ Close(TRUE)
             /\ UNCHANGED <<tree, phases, uncertain, turnVars>>

SendRequest == /\ pc = "send" /\ ~Expired /\ Writable
               /\ Arm("enter", now)
               /\ UNCHANGED <<tree, stdout, report, turnVars>>

\* wait_for: the prompt has a budget of its own.
EnterWait == /\ pc = "enter" /\ ~Dead
             /\ Arm("wait", IF step = Prompt THEN BoundDeadline(now + Budget) ELSE Total)
             /\ UNCHANGED <<tree, stdout, report, turnVars>>

\* The total deadline ends the setup without any cancellation.
SetupExpires == /\ Expired
                /\ pc = "send" \/ (pc = "wait" /\ step < Prompt)
                /\ timedOut' = TRUE
                /\ Close(TRUE)
                /\ UNCHANGED <<tree, phases, uncertain, sessionVars, bounds,
                               evidence, cancelSent, verdict, answered>>

-----------------------------------------------------------------------------
(* Reading.  A chunk of bytes holds one frame or more; the frames of a     *)
(* chunk are dispatched one by one, and each time the deadline is checked. *)

Listening == {"wait", "cancelWait", "closeWait"}

Read == /\ pc \in Listening /\ ~Expired
        /\ buffer = <<>>
        /\ \E n \in 1..Len(pipe) :
             /\ buffer' = SubSeq(pipe, 1, n)
             /\ pipe' = SubSeq(pipe, n + 1, Len(pipe))
        /\ UNCHANGED <<clock, tree, frames, report, turnVars>>

\* A deadline that passes while a chunk is read discards the chunk, which
\* may end inside a frame.  End of file is not data and is read again.
Lost(p) ==
  LET Data == {n \in 1..Len(p) : p[n] # EndOfFile}
      After(n) == SubSeq(p, n + 1, Len(p))
  IN {After(n) : n \in Data \cup {0}}
       \cup {<<Frame("broken", 0, FALSE)>> \o After(n) : n \in Data}

\* The first frame of the buffer is dispatched.
Dispatching == pc \in Listening /\ ~Expired /\ buffer # <<>>
Consume == buffer' = Tail(buffer) /\ UNCHANGED <<pipe, frames>>

\* The id whose response ends the wait.
Awaited == IF pc = "closeWait" THEN Prompt + 1 ELSE step

\* Mutant of Answer: any response ends the wait.
AnswerMutant(f) == Dispatching /\ f.kind = "response"

Answer(f) == Dispatching /\ f.kind = "response" /\ f.id = Awaited

\* deny_request: a request before the session is known, or one the policy
\* does not know, is remembered; the answer to the server is an error then.
Rejects(f) == f.kind = "request" /\ (~f.good \/ step <= SessionStep)
Fails(f) == f.kind = "update" /\ step = Prompt

Observe(f) == /\ Dispatching
              /\ \/ f.kind \in {"request", "update"}
                 \/ f.kind = "response" /\ f.id # Awaited
              /\ refused' = (refused \/ Rejects(f))
              /\ airError' = (airError \/ Fails(f))
              /\ Consume
              /\ UNCHANGED <<clock, tree, report, sessionVars, bounds, reply,
                             outcome, answered>>

\* A malformed frame, an overflow of the evidence, or the end of stdout.
StreamFails(f) == /\ Dispatching
                  /\ f.kind \in {"broken", "eof"}
                  /\ Close(TRUE)
                  /\ UNCHANGED <<tree, phases, uncertain, turnVars>>

\* Mutant of Unacceptable: a refusal is reported only after the prompt.
UnacceptableMutant(f) == IF step < Prompt THEN ~f.good ELSE refused

\* An answer that is not accepted, or that follows a refused request of the
\* server, ends the turn.
Unacceptable(f) == refused \/ (step < Prompt /\ ~f.good)

AnswerRejected(f) == /\ pc = "wait" /\ Answer(f) /\ Unacceptable(f)
                     /\ Close(TRUE)
                     /\ UNCHANGED <<tree, phases, uncertain, turnVars>>

SetupAnswered(f) ==
  /\ pc = "wait" /\ step < Prompt
  /\ Answer(f) /\ ~Unacceptable(f)
  /\ step' = step + 1
  /\ closes' \in {b \in BOOLEAN : step = SessionStep \/ b = closes}
  /\ Arm("send", Total)
  /\ Consume
  /\ UNCHANGED <<tree, report, bounds, evidence, outcome, answered>>

PromptAnswered(f) ==
  /\ pc = "wait" /\ step = Prompt
  /\ Answer(f) /\ ~Unacceptable(f)
  /\ reply' = IF f.good THEN "good" ELSE "bad"
  /\ Arm("watch", now)
  /\ Consume
  /\ UNCHANGED <<tree, report, sessionVars, bounds, refused, airError, outcome, answered>>

\* check_post_response_failure: a short look at the process, then close.
Watch == /\ pc = "watch"
         /\ Close(proc = "failed")
         /\ UNCHANGED <<tree, phases, uncertain, turnVars>>

-----------------------------------------------------------------------------
(* The prompt's time is over: session/cancel and a window for the answer,  *)
(* then session/close and a window for its answer.  Whatever comes, the    *)
(* turn fails.                                                             *)

\* session/close if the server has it, else the end of the protocol.
CloseSession(unread, read) ==
  \/ /\ closes
     /\ Arm("close", BoundDeadline(now + CloseWindow))
     /\ pipe' = unread /\ buffer' = read /\ UNCHANGED <<frames, failed>>
  \/ ~closes /\ Close(TRUE)

\* What a read that is overtaken by its deadline leaves in the pipe.
Overtaken == IF pc \in Listening /\ buffer = <<>> THEN Lost(pipe) ELSE {pipe}

PromptExpires ==
  /\ pc = "wait" /\ step = Prompt /\ Expired
  /\ timedOut' = TRUE
  /\ owed' = now + CancelWindow
  /\ deadline' = IF now >= deadline THEN owed' + CloseWindow ELSE deadline
  /\ Arm("cancel", BoundDeadline(owed'))
  /\ pipe' \in Overtaken
  /\ UNCHANGED <<tree, buffer, frames, report, sessionVars, evidence, cancelSent, verdict,
                 answered>>

SendCancel == /\ pc = "cancel" /\ ~Expired /\ Writable
              /\ cancelSent' = TRUE
              /\ Arm("cancelEnter", now)
              /\ UNCHANGED <<tree, stdout, report, sessionVars, bounds, evidence, timedOut,
                             verdict, answered>>

EnterCancelWait == /\ pc = "cancelEnter" /\ ~Dead
                   /\ Arm("cancelWait", BoundDeadline(owed))
                   /\ UNCHANGED <<tree, stdout, report, turnVars>>

\* A late answer is evidence, never a completion.
LateAnswer(f) == /\ pc = "cancelWait" /\ Answer(f)
                 /\ reply' = IF f.good THEN "good" ELSE "bad"
                 /\ CloseSession(pipe, Tail(buffer))
                 /\ UNCHANGED <<tree, phases, uncertain, sessionVars, bounds,
                                refused, airError, outcome, answered>>

SendClose == /\ pc = "close" /\ ~Expired /\ Writable
             /\ Arm("closeWait", until)
             /\ UNCHANGED <<tree, stdout, report, turnVars>>

CloseAnswered(f) == /\ pc = "closeWait" /\ Answer(f)
                    /\ Close(TRUE)
                    /\ UNCHANGED <<tree, phases, uncertain, turnVars>>

\* The supervisor's own deadline ends the turn.
DeadlineExpires ==
  /\ pc \in {"cancel", "cancelWait", "close", "closeWait"} /\ Expired
  /\ now >= deadline
  /\ Close(TRUE)
  /\ UNCHANGED <<tree, phases, uncertain, turnVars>>

\* A window that ends before it is recorded as a phase; the client goes on
\* to the next one.
CancelExpires ==
  /\ pc \in {"cancel", "cancelWait"} /\ Expired /\ now < deadline
  /\ phases' = phases \cup {"cancel_response"}
  /\ \E unread \in Overtaken : CloseSession(unread, buffer)
  /\ UNCHANGED <<tree, uncertain, turnVars>>

CloseExpires ==
  /\ pc \in {"close", "closeWait"} /\ Expired /\ now < deadline
  /\ phases' = phases \cup {"session_close"}
  /\ Close(TRUE)
  /\ UNCHANGED <<tree, uncertain, turnVars>>

-----------------------------------------------------------------------------
(* The assessment, from the facts only, in the order of their precedence.  *)

\* Mutant of Assess: the exit status comes before the deadline.
AssessMutant == IF uncertain THEN "local_error"
                ELSE IF proc # "exit0" THEN "local_error"
                ELSE IF timedOut \/ phases # {} THEN "host_timeout"
                ELSE IF failed \/ reply # "good" THEN "protocol"
                ELSE IF airError THEN "provider"
                ELSE "success"

Assess == IF uncertain THEN "local_error"
          ELSE IF timedOut \/ phases # {} THEN "host_timeout"
          ELSE IF proc # "exit0" THEN "local_error"
          ELSE IF failed \/ reply # "good" THEN "protocol"
          ELSE IF airError THEN "provider"
          ELSE "success"

Finish == /\ pc = "drain"
          /\ verdict' = Assess
          /\ Arm("done", now)
          /\ UNCHANGED <<tree, stdout, report, sessionVars, bounds, evidence, timedOut,
                         cancelSent, answered>>

CleanUp == /\ EofWait \/ TermWait \/ Reap
           /\ UNCHANGED turnVars

Dispatch == buffer # <<>> /\ LET f == Head(buffer) IN
              \/ Observe(f) \/ StreamFails(f)
              \/ AnswerRejected(f) \/ SetupAnswered(f) \/ PromptAnswered(f)
              \/ LateAnswer(f) \/ CloseAnswered(f)

Client == \/ LaunchFails \/ Launch
          \/ FindsDead \/ SendRequest \/ EnterWait \/ SetupExpires
          \/ Read \/ Dispatch \/ Watch
          \/ PromptExpires \/ SendCancel \/ EnterCancelWait \/ CancelExpires
          \/ SendClose \/ CloseExpires \/ DeadlineExpires
          \/ CleanUp \/ Finish

Pass == Tick /\ UNCHANGED turnVars

Next == Client \/ Pass \/ ServerWrites \/ Server

\* The client is a running program, and time does not stop.
Fairness == WF_vars(Client) /\ WF_vars(Pass)
Spec == Init /\ [][Next]_vars /\ Fairness

-----------------------------------------------------------------------------
(* What makes a turn correct.                                              *)

\* A turn is a success only if the server wrote end_turn under the id of this
\* very prompt and it was read in time, nothing was refused or reported as an
\* error, the server left by itself with status 0, and nothing of its process
\* tree is left.  (The ids are foreseeable: an answer that waits in the pipe
\* when the prompt goes out counts as its answer.)
SuccessIsEarned ==
  verdict = "success" =>
    /\ answered /\ reply = "good"
    /\ ~refused /\ ~airError /\ ~timedOut
    /\ proc = "exit0" /\ helpers = "none"

\* Whatever happens in the cancellation and close windows (a late answer, a
\* broken frame, the death of the server), a prompt whose time was over is
\* reported as a host timeout, unless the cleanup itself is uncertain.
ExpiredIsTimeout ==
  timedOut /\ verdict # "none" => verdict = IF uncertain THEN "local_error"
                                                       ELSE "host_timeout"

\* A cleanup that is not reported as uncertain left no process behind.
CertainMeansGone ==
  pc \in {"drain", "done"} /\ ~uncertain => proc # "running" /\ helpers = "none"

\* However the server behaves, the protocol ends by the total deadline and
\* the cleanup takes five grace periods at most.
TurnBounded == /\ pc \in Steps \ {"eof", "term", "kill", "drain", "done"} => now <= Total
               /\ now <= Total + 5 * Grace

\* The turn keeps the promise of TurnPromise: no request, the prompt included, is
\* sent after a refused one or out of order, an answer is taken once, session/cancel
\* is sent once, after the deadline and before an answer, and the verdict fits.
Promise == INSTANCE TurnPromise WITH
  Requests <- Prompt,
  stage <- IF proc = "absent" THEN 0 ELSE step,
  complaint <- airError,
  given <- answered,
  answer <- reply,
  over <- timedOut,
  cancelled <- cancelSent,
  left <- proc = "running" \/ helpers # "none"
ImplementsPromise == Promise!Spec

\* Every turn ends with a verdict.
TurnEnds == <>(verdict # "none")
=============================================================================
