------------------------------ MODULE AcpProofs ------------------------------
(***************************************************************************)
(* Theorems about AcpTurn, for every number of setup requests, every       *)
(* budget, window and grace period, and every behaviour of the server.     *)
(***************************************************************************)
EXTENDS AcpInv, SequenceTheorems, TLAPS

\* What an overtaken read leaves is made of the frames of the pipe, with a
\* broken frame in front when the discarded chunk ended inside a frame.
LEMMA LostFrames ==
  ASSUME NEW p \in Seq(Frames), NEW q \in Lost(p)
  PROVE  /\ q \in Seq(Frames)
         /\ \A n \in 1..Len(q) : \/ q[n] = Frame("broken", 0, FALSE)
                                 \/ \E k \in 1..Len(p) : q[n] = p[k]
<1> DEFINE After(n) == SubSeq(p, n + 1, Len(p))
           Torn == <<Frame("broken", 0, FALSE)>>
<1>1. Torn \in Seq(Frames) /\ Len(Torn) = 1 /\ Torn[1] = Frame("broken", 0, FALSE)
  BY TurnAssumption DEF Frames, Frame, Prompt
<1>2. ASSUME NEW n \in 0..Len(p)
      PROVE  /\ After(n) \in Seq(Frames)
             /\ \A m \in 1..Len(After(n)) : \E k \in 1..Len(p) : After(n)[m] = p[k]
  <2>1. After(n) \in Seq(Frames) /\ Len(After(n)) = Len(p) - n
    OBVIOUS
  <2>2. ASSUME NEW m \in 1..Len(After(n))
        PROVE  m + n \in 1..Len(p) /\ After(n)[m] = p[m + n]
    BY <2>1
  <2> QED BY <2>1, <2>2
<1>3. PICK n \in 0..Len(p) : q = After(n) \/ q = Torn \o After(n)
  <2> DEFINE Data == {n \in 1..Len(p) : p[n] # EndOfFile}
  <2>1. q \in {After(n) : n \in Data \cup {0}} \cup {Torn \o After(n) : n \in Data}
    BY Zenon DEF Lost
  <2>2. Data \subseteq 0..Len(p) /\ 0 \in 0..Len(p)
    BY SMT
  <2> HIDE DEF Data, After, Torn
  <2> QED BY <2>1, <2>2, Zenon
<1>4. CASE q = After(n)
  BY <1>2, <1>4
<1>5. CASE q = Torn \o After(n)
  <2> HIDE DEF Torn, After
  <2>1. /\ q \in Seq(Frames) /\ Len(q) = 1 + Len(After(n))
        /\ \A m \in 1..Len(q) : q[m] = IF m <= 1 THEN Torn[m] ELSE After(n)[m - 1]
    <3>1. Torn \in Seq(Frames) /\ After(n) \in Seq(Frames) /\ Len(Torn) = 1
      BY <1>1, <1>2
    <3>2. /\ Torn \o After(n) \in Seq(Frames)
          /\ Len(Torn \o After(n)) = Len(Torn) + Len(After(n))
          /\ \A m \in 1..(Len(Torn) + Len(After(n))) : (Torn \o After(n))[m] =
               IF m <= Len(Torn) THEN Torn[m] ELSE After(n)[m - Len(Torn)]
      BY <3>1, ConcatProperties, Zenon
    <3> QED BY <1>5, <3>1, <3>2
  <2>2. ASSUME NEW m \in 1..Len(q), m # 1
        PROVE  m - 1 \in 1..Len(After(n)) /\ q[m] = After(n)[m - 1]
    BY <1>2, <2>1, <2>2
  <2>3. q[1] = Frame("broken", 0, FALSE)
    <3>1. 1 \in 1..Len(q)
      BY <1>2, <2>1, LenProperties
    <3>2. q[1] = IF 1 <= 1 THEN Torn[1] ELSE After(n)[1 - 1]
      BY <2>1, <3>1, Zenon
    <3>3. 1 <= 1
      OBVIOUS
    <3> QED BY <1>1, <3>2, <3>3, Zenon
  <2> QED BY <1>2, <2>1, <2>2, <2>3
<1> QED BY <1>3, <1>4, <1>5

-----------------------------------------------------------------------------
(* Type correctness.                                                       *)

LEMMA InitTypeOK == Init => TypeOK
<1> SUFFICES ASSUME Init PROVE TypeOK
  OBVIOUS
<1> USE TurnAssumption, ProcessAssumption DEF Init, ProcessInit
<1>1. ProcessTypeOK
  <2>1. now \in Nat /\ until \in Nat /\ frames \in 0..MaxFrames
    OBVIOUS
  <2>2. cgroup \in Cgroups \cup {"unknown"} /\ phases \subseteq Phases
    OBVIOUS
  <2> QED BY <2>1, <2>2 DEF ProcessTypeOK
<1>2. pipe \in Seq(Frames) /\ buffer \in Seq(Frames)
  OBVIOUS
<1>3. deadline \in Nat /\ step \in 1..Prompt
  BY DEF Total, Prompt
<1> QED BY <1>1, <1>2, <1>3 DEF TypeOK, Steps, Verdicts

\* The bounds are times, and the ids are those of the requests.
LEMMA Numbers == /\ Total \in Nat /\ Prompt \in Nat /\ Prompt = Setup + 1
                 /\ \A d \in Nat : BoundDeadline(d) \in Nat /\ BoundDeadline(d) <= Total
  BY TurnAssumption DEF Total, Prompt, BoundDeadline

\* What an overtaken read leaves are frames.
LEMMA OvertakenFrames ==
  ASSUME TypeOK, NEW q \in Overtaken
  PROVE  q \in Seq(Frames)
<1> pipe \in Seq(Frames)
  BY DEF TypeOK
<1> QED BY LostFrames DEF Overtaken

\* The server writes frames.
LEMMA ServerFrames ==
  ASSUME step \in 1..Prompt
  PROVE  Answers \cup Others \cup {EndOfFile} \subseteq Frames
<1>1. Sent \in 0..(Prompt + 1)
  BY Numbers DEF Sent
<1>2. ASSUME NEW k \in {"response", "request", "update", "broken", "eof"},
             NEW i \in 0..(Prompt + 1), NEW g \in BOOLEAN
      PROVE  Frame(k, i, g) \in Frames
  BY DEF Frame, Frames
<1>3. 0 \in 0..(Prompt + 1)
  BY Numbers
<1>4. Answers \subseteq Frames
  BY <1>1, <1>2, Zenon DEF Answers
<1>5. Others \subseteq Frames /\ EndOfFile \in Frames
  BY <1>2, <1>3 DEF Others, EndOfFile
<1> QED BY <1>4, <1>5

\* Closing the session or the process keeps the types.
LEMMA CloseSessionTypes ==
  ASSUME TypeOK, NEW unread \in Seq(Frames), NEW read \in Seq(Frames),
         CloseSession(unread, read)
  PROVE  /\ now' \in Nat /\ until' \in Nat /\ pc' \in Steps
         /\ pipe' \in Seq(Frames) /\ buffer' \in Seq(Frames)
         /\ frames' \in 0..MaxFrames /\ failed' \in BOOLEAN
<1> now \in Nat /\ frames \in 0..MaxFrames /\ failed \in BOOLEAN
  BY DEF TypeOK, ProcessTypeOK
<1>1. CASE Close(TRUE)
  BY <1>1, ProcessAssumption DEF Close, Arm, Steps
<1>2. CASE /\ Arm("close", BoundDeadline(now + CloseWindow))
           /\ pipe' = unread /\ buffer' = read /\ UNCHANGED <<frames, failed>>
  <2>1. now + CloseWindow \in Nat
    BY TurnAssumption
  <2>2. BoundDeadline(now + CloseWindow) \in Nat
    BY <2>1, Numbers, Zenon
  <2> QED BY <1>2, <2>2 DEF Arm, Steps
<1> QED BY <1>1, <1>2, Zenon DEF CloseSession

\* Every step of the turn keeps the types.
LEMMA TypeStep == TypeOK /\ [Next]_vars => TypeOK'
<1> SUFFICES ASSUME TypeOK, [Next]_vars PROVE TypeOK'
  OBVIOUS
<1> USE ProcessAssumption, TurnAssumption, Numbers
    DEF TypeOK, ProcessTypeOK, clock, tree, stdout, report, sessionVars, bounds,
        evidence, outcome, turnVars
<1>1. CASE LaunchFails
  BY <1>1 DEF LaunchFails, Arm, Steps, Verdicts, Phases
<1>2. CASE Launch
  <2>1. CASE Arm("send", Total) /\ UNCHANGED <<failed, stdout>>
    BY <1>2, <2>1 DEF Launch, Arm, Steps
  <2>2. CASE Close(TRUE)
    BY <1>2, <2>2 DEF Launch, Arm, Close, Steps
  <2> QED BY <1>2, <2>1, <2>2 DEF Launch
<1>3. CASE FindsDead
  BY <1>3 DEF FindsDead, Arm, Close, Steps, Verdicts, Phases
<1>4. CASE SendRequest
  BY <1>4 DEF SendRequest, Arm, Steps, Verdicts, Phases
<1>5. CASE EnterWait
  BY <1>5 DEF EnterWait, Arm, BoundDeadline, Steps, Verdicts, Phases
<1>6. CASE SetupExpires
  BY <1>6 DEF SetupExpires, Arm, Close, Steps, Verdicts, Phases
<1>7. CASE Read
  <2>1. PICK n \in 1..Len(pipe) : /\ buffer' = SubSeq(pipe, 1, n)
                                  /\ pipe' = SubSeq(pipe, n + 1, Len(pipe))
    BY <1>7 DEF Read
  <2>0. pipe \in Seq(Frames) /\ Len(pipe) \in Nat /\ n + 1 \in Int /\ n \in Int
        /\ \A i \in 1..Len(pipe) : pipe[i] \in Frames
    <3>1. pipe \in Seq(Frames)
      OBVIOUS
    <3>2. n \in 1..Len(pipe)
      BY <2>1
    <3> HIDE DEF TypeOK
    <3>3. Len(pipe) \in Nat /\ \A i \in 1..Len(pipe) : pipe[i] \in Frames
      BY <3>1, LenProperties, ElementOfSeq, Zenon
    <3>4. n \in Int /\ n + 1 \in Int
      BY <3>2, <3>3
    <3> QED BY <3>1, <3>3, <3>4
  <2>2. buffer' \in Seq(Frames)
    <3>1. \A i \in 1..n : pipe[i] \in Frames
      BY <2>0
    <3> HIDE DEF TypeOK
    <3> QED BY <2>0, <2>1, <3>1, SubSeqProperties
  <2>3. pipe' \in Seq(Frames)
    <3>1. \A i \in (n + 1)..Len(pipe) : pipe[i] \in Frames
      BY <2>0
    <3> HIDE DEF TypeOK
    <3> QED BY <2>0, <2>1, <3>1, SubSeqProperties
  <2>4. UNCHANGED <<clock, tree, frames, report, turnVars>>
    BY <1>7, Zenon DEF Read
  <2> QED BY <2>2, <2>3, <2>4
<1>8. CASE Dispatch
  <2> DEFINE f == Head(buffer)
  <2>1. f \in Frames /\ Tail(buffer) \in Seq(Frames)
    BY <1>8 DEF Dispatch
  <2> HIDE DEF f
  <2>2. CASE Observe(f)
    BY <2>1, <2>2 DEF Observe, Consume
  <2>3. CASE StreamFails(f)
    BY <2>3 DEF StreamFails, Close, Arm, Steps
  <2>4. CASE AnswerRejected(f)
    BY <2>4 DEF AnswerRejected, Close, Arm, Steps
  <2>5. CASE SetupAnswered(f)
    <3>1. step + 1 \in 1..Prompt
      <4>1. step < Prompt
        BY <2>5, Zenon DEF SetupAnswered
      <4> QED BY <4>1
    <3> QED BY <2>1, <2>5, <3>1 DEF SetupAnswered, Consume, Arm, Steps
  <2>6. CASE PromptAnswered(f)
    BY <2>1, <2>6 DEF PromptAnswered, Consume, Arm, Steps
  <2>7. CASE LateAnswer(f)
    <3>1. reply' \in {"none", "good", "bad"}
      BY <2>7 DEF LateAnswer
    <3>2. CloseSession(pipe, Tail(buffer))
      BY <2>7, Zenon DEF LateAnswer
    <3>3. pipe \in Seq(Frames)
      OBVIOUS
    <3> HIDE DEF TypeOK, ProcessTypeOK
    <3>4. /\ now' \in Nat /\ until' \in Nat /\ pc' \in Steps
          /\ pipe' \in Seq(Frames) /\ buffer' \in Seq(Frames)
          /\ frames' \in 0..MaxFrames /\ failed' \in BOOLEAN
      BY <2>1, <3>2, <3>3, CloseSessionTypes, Zenon
    <3>5. UNCHANGED <<tree, phases, uncertain, sessionVars, bounds, refused, airError,
                      outcome, answered>>
      BY <2>7, Zenon DEF LateAnswer
    <3> QED BY <3>1, <3>4, <3>5 DEF TypeOK, ProcessTypeOK
  <2>8. CASE CloseAnswered(f)
    BY <2>8 DEF CloseAnswered, Close, Arm, Steps
  <2> QED BY <1>8, <2>2, <2>3, <2>4, <2>5, <2>6, <2>7, <2>8 DEF Dispatch, f
<1>9. CASE Watch
  BY <1>9 DEF Watch, Arm, Close, Steps, Verdicts, Phases
<1>10. CASE PromptExpires
  <2>1. pipe' \in Seq(Frames)
    BY <1>10, OvertakenFrames DEF PromptExpires
  <2>2. owed' \in Nat /\ deadline' \in Nat
    BY <1>10 DEF PromptExpires
  <2>3. now' \in Nat /\ until' \in Nat /\ pc' \in Steps
    BY <1>10, <2>2 DEF PromptExpires, Arm, Steps
  <2> QED BY <1>10, <2>1, <2>2, <2>3 DEF PromptExpires
<1>11. CASE SendCancel
  BY <1>11 DEF SendCancel, Arm, Steps, Verdicts, Phases
<1>12. CASE EnterCancelWait
  BY <1>12 DEF EnterCancelWait, Arm, BoundDeadline, Steps, Verdicts, Phases
<1>13. CASE CancelExpires
  <2>1. PICK unread \in Overtaken : CloseSession(unread, buffer)
    BY <1>13 DEF CancelExpires
  <2>2. unread \in Seq(Frames)
    BY OvertakenFrames
  <2>3. phases' \subseteq Phases
    BY <1>13 DEF CancelExpires, Phases
  <2>4. UNCHANGED <<tree, uncertain, turnVars>>
    BY <1>13, Zenon DEF CancelExpires
  <2>5. buffer \in Seq(Frames)
    OBVIOUS
  <2> HIDE DEF TypeOK, ProcessTypeOK
  <2>6. /\ now' \in Nat /\ until' \in Nat /\ pc' \in Steps
        /\ pipe' \in Seq(Frames) /\ buffer' \in Seq(Frames)
        /\ frames' \in 0..MaxFrames /\ failed' \in BOOLEAN
    BY <2>1, <2>2, <2>5, CloseSessionTypes, Zenon
  <2> QED BY <2>3, <2>4, <2>6 DEF TypeOK, ProcessTypeOK
<1>14. CASE SendClose
  BY <1>14 DEF SendClose, Arm, Steps, Verdicts, Phases
<1>22. CASE DeadlineExpires
  BY <1>22 DEF DeadlineExpires, Arm, Close, Steps
<1>15. CASE CloseExpires
  BY <1>15 DEF CloseExpires, Arm, Close, Steps, Verdicts, Phases
<1>16. CASE CleanUp
  <2>1. CASE EofWait
    <3>1. failed' \in BOOLEAN /\ phases' \subseteq Phases
      BY <2>1 DEF EofWait, Phases
    <3> QED BY <1>16, <2>1, <3>1 DEF CleanUp, EofWait, Arm, Steps
  <2>2. CASE TermWait
    <3>1. cgroup' \in Cgroups
      BY <2>2 DEF TermWait, Killed
    <3>2. proc' \in {"absent", "running", "exit0", "failed", "killed"}
      BY <2>2 DEF TermWait, Killed
    <3>3. helpers' \in {"none", "group", "escaped"}
      BY <2>2 DEF TermWait, Killed
    <3>4. phases' \subseteq Phases
      BY <2>2 DEF TermWait, Phases
    <3> QED BY <1>16, <2>2, <3>1, <3>2, <3>3, <3>4 DEF CleanUp, TermWait, Arm, Steps
  <2>3. CASE Reap
    BY <1>16, <2>3 DEF CleanUp, Reap, CleanupUncertain, Dead, Arm, Steps
  <2> QED BY <1>16, <2>1, <2>2, <2>3 DEF CleanUp
<1>17. CASE Finish
  BY <1>17 DEF Finish, Assess, Arm, Steps, Verdicts, Phases
<1>18. CASE Pass
  BY <1>18 DEF Pass, Tick, Phases
<1>19. CASE ServerWrites
  <2>1. PICK f \in Answers \cup Others \cup {EndOfFile} : pipe' = Append(pipe, f)
    BY <1>19 DEF ServerWrites
  <2>3. f \in Frames
    BY ServerFrames
  <2>4. pipe' \in Seq(Frames)
    BY <2>1, <2>3
  <2>5. frames' \in 0..MaxFrames /\ answered' \in BOOLEAN
    BY <1>19 DEF ServerWrites
  <2> QED BY <1>19, <2>4, <2>5 DEF ServerWrites
<1>20. CASE Server
  <2>1. EndOfFile \in Frames
    BY ServerFrames
  <2>2. pipe' \in Seq(Frames)
    <3>1. Append(pipe, EndOfFile) \in Seq(Frames)
      BY <2>1
    <3>2. pipe' = pipe \/ pipe' = Append(pipe, EndOfFile)
      <4>1. CASE Exit
        BY <4>1 DEF Exit, CloseStdout
      <4>2. CASE Spawn
        BY <4>2 DEF Spawn
      <4>3. CASE HelperEnds
        BY <4>3 DEF HelperEnds, CloseStdout
      <4>4. CASE DiesLate
        BY <4>4 DEF DiesLate
      <4> QED BY <1>20, <4>1, <4>2, <4>3, <4>4, Zenon DEF Server
    <3> QED BY <3>1, <3>2
  <2>3. UNCHANGED turnVars
    BY <1>20, Zenon DEF Server
  <2>4. CASE Exit
    <3>1. proc' \in {"absent", "running", "exit0", "failed", "killed"}
      BY <2>4 DEF Exit
    <3>2. UNCHANGED <<clock, helpers, cgroup, buffer, frames, report>>
      BY <2>4, Zenon DEF Exit
    <3> QED BY <2>2, <2>3, <3>1, <3>2
  <2>5. CASE Spawn
    BY <2>3, <2>5, SMTT(30) DEF Spawn
  <2>6. CASE HelperEnds
    BY <2>2, <2>3, <2>6 DEF HelperEnds
  <2>7. CASE DiesLate
    BY <2>3, <2>7 DEF DiesLate
  <2> QED BY <1>20, <2>4, <2>5, <2>6, <2>7 DEF Server
<1>21. CASE UNCHANGED vars
  BY <1>21 DEF vars, processVars
<1> QED BY <1>1, <1>2, <1>3, <1>4, <1>5, <1>6, <1>7, <1>8, <1>9, <1>10, <1>11, <1>12, <1>13, <1>14, <1>15, <1>16, <1>17, <1>18, <1>19, <1>20, <1>21, <1>22 DEF Next, Client

\* Every variable of the turn has its type in every reachable state.
THEOREM TypeCorrect == Spec => []TypeOK
  BY InitTypeOK, TypeStep, PTL DEF Spec

-----------------------------------------------------------------------------
(* Time.                                                                   *)

\* How late each part may be, part by part.
LEMMA LatestValues ==
  /\ \A at : Latest(at) \in Nat /\ Latest(at) <= Total + 5 * Grace
  /\ \A at : at \notin Cleanup => Latest(at) = Total
  /\ Latest("eof") = Total + Grace
  /\ Latest("term") = Total + 2 * Grace
  /\ Latest("kill") = Total + 3 * Grace
  /\ Latest("drain") = Total + 5 * Grace
  /\ Latest("done") = Total + 5 * Grace
<1> Total \in Nat /\ Grace \in Nat
  BY Numbers, ProcessAssumption
<1> HIDE DEF Total
<1> QED BY DEF Latest, Cleanup

\* No part of the turn is later than it may be.
LEMMA TimeStep == TypeOK /\ OnTime /\ [Next]_vars => OnTime'
<1> SUFFICES ASSUME TypeOK, OnTime, [Next]_vars PROVE OnTime'
  OBVIOUS
<1> DEFINE Wire == {"launch", "send", "enter", "wait", "cancel", "cancelEnter",
                    "cancelWait", "close", "closeWait", "watch"}
<1>1. /\ now \in Nat /\ until \in Nat /\ owed \in Nat /\ Total \in Nat /\ Grace \in Nat
      /\ CancelWindow \in Nat /\ CloseWindow \in Nat /\ Budget \in Nat
      /\ Wire \cap Cleanup = {}
  BY Numbers, ProcessAssumption, TurnAssumption DEF TypeOK, ProcessTypeOK, Cleanup
<1>2. /\ now <= Latest(pc) /\ until <= Latest(pc)
      /\ pc \in Wire => now <= Total /\ until <= Total
  BY <1>1, LatestValues DEF OnTime
<1>3. ASSUME NEW s, NEW d \in Nat, Arm(s, d), now <= Latest(s), d <= Latest(s)
      PROVE  OnTime'
  BY <1>3 DEF Arm, OnTime, Latest
<1>4. ASSUME NEW s \in Wire, NEW d \in Nat, d <= Total, Arm(s, d), pc \in Wire
      PROVE  OnTime'
  BY <1>1, <1>2, <1>3, <1>4, LatestValues
<1>5. ASSUME NEW b, Close(b), pc \in Wire
      PROVE  OnTime'
  <2>1. Arm("eof", now + Grace)
    BY <1>5, Zenon DEF Close
  <2>2. now + Grace \in Nat /\ now <= Latest("eof") /\ now + Grace <= Latest("eof")
    BY <1>1, <1>2, <1>5, LatestValues
  <2> QED BY <1>3, <2>1, <2>2
<1>6. ASSUME UNCHANGED clock
      PROVE  OnTime'
  BY <1>6 DEF clock, OnTime, Latest
<1>7. ASSUME NEW unread, NEW read, CloseSession(unread, read), pc \in Wire
      PROVE  OnTime'
  <2>1. now + CloseWindow \in Nat
    BY <1>1
  <2>2. BoundDeadline(now + CloseWindow) \in Nat /\ BoundDeadline(now + CloseWindow) <= Total
    BY <2>1, Numbers, Zenon
  <2>3. CASE Close(TRUE)
    BY <1>5, <1>7, <2>3
  <2>4. CASE Arm("close", BoundDeadline(now + CloseWindow))
    BY <1>4, <1>7, <2>2, <2>4
  <2> QED BY <1>7, <2>3, <2>4, Zenon DEF CloseSession
<1> HIDE DEF Wire
<1>8. CASE LaunchFails
  <2>1. pc = "launch" /\ Arm("done", now)
    BY <1>8, Zenon DEF LaunchFails
  <2> QED BY <1>1, <1>2, <1>3, <2>1, LatestValues DEF Wire
<1>9. CASE Launch
  <2>1. pc \in Wire /\ "send" \in Wire /\ (Arm("send", Total) \/ Close(TRUE))
    BY <1>9 DEF Launch, Wire
  <2>2. Total \in Nat /\ Total <= Total
    BY <1>1
  <2>3. CASE Arm("send", Total)
    BY <1>4, <2>1, <2>2, <2>3, Zenon
  <2>4. CASE Close(TRUE)
    BY <1>5, <2>1, <2>4, Zenon
  <2> QED BY <2>1, <2>3, <2>4
<1>10. CASE FindsDead \/ SetupExpires \/ Watch \/ CloseExpires \/ DeadlineExpires
  <2>1. pc \in Wire /\ \E b : Close(b)
    BY <1>10, Zenon DEF FindsDead, SetupExpires, Watch, CloseExpires, DeadlineExpires, Wire
  <2> QED BY <1>5, <2>1
<1>11. CASE SendRequest \/ SendCancel \/ SendClose
  <2>1. pc \in Wire /\ {"enter", "cancelEnter", "closeWait"} \subseteq Wire
    BY <1>11 DEF SendRequest, SendCancel, SendClose, Wire
  <2>2. Arm("enter", now) \/ Arm("cancelEnter", now) \/ Arm("closeWait", until)
    BY <1>11 DEF SendRequest, SendCancel, SendClose
  <2> QED BY <1>1, <1>2, <1>4, <2>1, <2>2
<1>12. CASE EnterWait
  <2>1. pc \in Wire /\ "wait" \in Wire
    BY <1>12 DEF EnterWait, Wire
  <2>2. now + Budget \in Nat
    BY <1>1
  <2>3. BoundDeadline(now + Budget) \in Nat /\ BoundDeadline(now + Budget) <= Total
    BY <2>2, Numbers, Zenon
  <2>4. Arm("wait", BoundDeadline(now + Budget)) \/ Arm("wait", Total)
    BY <1>12 DEF EnterWait
  <2> QED BY <1>1, <1>4, <2>1, <2>3, <2>4
<1>13. CASE Read \/ ServerWrites
  BY <1>6, <1>13, Zenon DEF Read, ServerWrites
<1>14. CASE Dispatch
  <2> DEFINE f == Head(buffer)
  <2> HIDE DEF f
  <2>1. CASE Observe(f)
    BY <1>6, <2>1, Zenon DEF Observe
  <2>2. CASE StreamFails(f) \/ AnswerRejected(f) \/ CloseAnswered(f)
    <3>1. pc \in Wire /\ Close(TRUE)
      BY <2>2 DEF StreamFails, AnswerRejected, CloseAnswered, Dispatching, Listening, Wire
    <3> QED BY <1>5, <3>1
  <2>3. CASE SetupAnswered(f) \/ PromptAnswered(f)
    <3>1. pc \in Wire /\ {"send", "watch"} \subseteq Wire
      BY <2>3 DEF SetupAnswered, PromptAnswered, Wire
    <3>2. Arm("send", Total) \/ Arm("watch", now)
      BY <2>3, Zenon DEF SetupAnswered, PromptAnswered
    <3> QED BY <1>1, <1>2, <1>4, <3>1, <3>2
  <2>4. CASE LateAnswer(f)
    <3>1. pc \in Wire /\ CloseSession(pipe, Tail(buffer))
      BY <2>4, Zenon DEF LateAnswer, Wire
    <3> QED BY <1>7, <3>1
  <2> QED BY <1>14, <2>1, <2>2, <2>3, <2>4, Zenon DEF Dispatch, f
<1>15. CASE PromptExpires
  <2>1. pc \in Wire /\ "cancel" \in Wire
    BY <1>15 DEF PromptExpires, Wire
  <2>2. owed' = now + CancelWindow /\ Arm("cancel", BoundDeadline(owed'))
    BY <1>15, Zenon DEF PromptExpires
  <2>3. owed' \in Nat
    BY <1>1, <2>2
  <2>4. BoundDeadline(owed') \in Nat /\ BoundDeadline(owed') <= Total
    BY <2>3, Numbers, Zenon
  <2> QED BY <1>4, <2>1, <2>2, <2>4
<1>16. CASE EnterCancelWait
  <2>1. pc \in Wire /\ "cancelWait" \in Wire /\ Arm("cancelWait", BoundDeadline(owed))
    BY <1>16, Zenon DEF EnterCancelWait, Wire
  <2>2. BoundDeadline(owed) \in Nat /\ BoundDeadline(owed) <= Total
    BY <1>1, Numbers, Zenon
  <2> QED BY <1>4, <2>1, <2>2
<1>17. CASE CancelExpires
  <2>1. pc \in Wire /\ \E unread : CloseSession(unread, buffer)
    BY <1>17, Zenon DEF CancelExpires, Wire
  <2> QED BY <1>7, <2>1
<1>18. CASE CleanUp
  <2>1. CASE EofWait
    <3>1. pc = "eof" /\ Arm("term", now + Grace)
      BY <2>1, Zenon DEF EofWait
    <3>2. now + Grace \in Nat /\ now <= Latest("term") /\ now + Grace <= Latest("term")
      BY <1>1, <1>2, <3>1, LatestValues
    <3> QED BY <1>3, <3>1, <3>2
  <2>2. CASE TermWait
    <3>1. pc = "term" /\ Arm("kill", now + Grace)
      BY <2>2, Zenon DEF TermWait
    <3>2. now + Grace \in Nat /\ now <= Latest("kill") /\ now + Grace <= Latest("kill")
      BY <1>1, <1>2, <3>1, LatestValues
    <3> QED BY <1>3, <3>1, <3>2
  <2>3. CASE Reap
    <3>1. pc = "kill" /\ Arm("drain", now + 2 * Grace)
      BY <2>3, Zenon DEF Reap
    <3>2. /\ now + 2 * Grace \in Nat /\ now <= Latest("drain")
          /\ now + 2 * Grace <= Latest("drain")
      BY <1>1, <1>2, <3>1, LatestValues
    <3> QED BY <1>3, <3>1, <3>2
  <2> QED BY <1>18, <2>1, <2>2, <2>3, Zenon DEF CleanUp
<1>19. CASE Finish
  <2>1. pc = "drain" /\ Arm("done", now)
    BY <1>19, Zenon DEF Finish
  <2> QED BY <1>1, <1>2, <1>3, <2>1, LatestValues
<1>20. CASE Pass
  <2>1. now' = now + 1 /\ now < until /\ until' = until /\ pc' = pc
    BY <1>20 DEF Pass, Tick
  <2> QED BY <1>1, <1>2, <2>1 DEF OnTime, Latest
<1>21. CASE Server
  BY <1>6, <1>21, Zenon DEF Server, Exit, Spawn, HelperEnds, DiesLate
<1>22. CASE UNCHANGED vars
  BY <1>6, <1>22 DEF vars, processVars
<1> QED BY <1>8, <1>9, <1>10, <1>11, <1>12, <1>13, <1>14, <1>15, <1>16, <1>17, <1>18,
           <1>19, <1>20, <1>21, <1>22 DEF Next, Client

\* The protocol ends by the total deadline, and the cleanup adds five grace
\* periods at most, whatever the server does and whatever the bounds are.
THEOREM BoundedTurn == Spec => []TurnBounded
<1>1. Init => OnTime
  <2>1. Total \in Nat
    BY Numbers
  <2>2. Latest("launch") = Total
    BY LatestValues DEF Cleanup
  <2> HIDE DEF Total
  <2> QED BY <2>1, <2>2 DEF Init, ProcessInit, OnTime
<1>2. TypeOK /\ OnTime => TurnBounded
  <2> SUFFICES ASSUME TypeOK, OnTime PROVE TurnBounded
    OBVIOUS
  <2>1. now \in Nat /\ Total \in Nat /\ Grace \in Nat
    BY Numbers, ProcessAssumption DEF TypeOK, ProcessTypeOK
  <2> HIDE DEF Total
  <2>2. now <= Latest(pc) /\ Latest(pc) \in Nat /\ Latest(pc) <= Total + 5 * Grace
        /\ (pc \notin Cleanup => Latest(pc) = Total)
    BY LatestValues DEF OnTime
  <2> QED BY <2>1, <2>2 DEF TurnBounded, Cleanup
<1> QED BY <1>1, <1>2, TypeCorrect, TimeStep, PTL DEF Spec

-----------------------------------------------------------------------------
(* Launching and the cleanup.                                              *)

\* There is a process exactly from the launch on, and a cleanup that is not
\* reported as uncertain left none behind.
LEMMA CleanupStep ==
  TypeOK /\ Launched /\ CertainMeansGone /\ [Next]_vars => Launched' /\ CertainMeansGone'
<1> SUFFICES ASSUME TypeOK, Launched, CertainMeansGone, [Next]_vars
             PROVE  Launched' /\ CertainMeansGone'
  OBVIOUS
<1> USE DEF Launched, CertainMeansGone
<1>1. CASE LaunchFails
  BY <1>1 DEF LaunchFails, Arm, tree
<1>2. CASE Launch
  BY <1>2 DEF Launch, Arm, Close
<1> DEFINE Ends == /\ pc \notin {"launch", "drain", "done"}
                   /\ pc' \notin {"launch", "drain", "done"}
                   /\ proc' # "absent"
<1>3. ASSUME Ends PROVE Launched' /\ CertainMeansGone'
  BY <1>3
<1>4. ASSUME UNCHANGED tree, pc \notin {"launch", "drain", "done"},
             pc' \notin {"launch", "drain", "done"}
      PROVE  Ends
  BY <1>4 DEF tree
<1> HIDE DEF Ends
<1>5. CASE FindsDead \/ SetupExpires \/ Watch \/ CloseExpires \/ DeadlineExpires
  <2>1. /\ UNCHANGED tree /\ pc \notin {"launch", "drain", "done"}
        /\ \E b : Close(b)
    BY <1>5, Zenon DEF FindsDead, SetupExpires, Watch, CloseExpires, DeadlineExpires
  <2> QED BY <1>3, <1>4, <2>1 DEF Close, Arm
<1>6. CASE SendRequest \/ SendCancel \/ SendClose \/ EnterWait \/ EnterCancelWait \/ Read
  <2>1. /\ UNCHANGED tree /\ pc \notin {"launch", "drain", "done"}
        /\ pc' \notin {"launch", "drain", "done"}
    BY <1>6 DEF SendRequest, SendCancel, SendClose, EnterWait, EnterCancelWait, Read, Arm,
                Listening, clock
  <2> QED BY <1>3, <1>4, <2>1
<1>7. CASE Dispatch
  <2> DEFINE f == Head(buffer)
  <2> HIDE DEF f
  <2>1. CASE Observe(f) \/ SetupAnswered(f) \/ PromptAnswered(f)
    <3>1. /\ UNCHANGED tree /\ pc \notin {"launch", "drain", "done"}
          /\ pc' \notin {"launch", "drain", "done"}
      BY <2>1 DEF Observe, SetupAnswered, PromptAnswered, Dispatching, Listening, Arm, clock
    <3> QED BY <1>3, <1>4, <3>1
  <2>2. CASE StreamFails(f) \/ AnswerRejected(f) \/ CloseAnswered(f)
    <3>1. UNCHANGED tree /\ pc \notin {"launch", "drain", "done"} /\ Close(TRUE)
      BY <2>2 DEF StreamFails, AnswerRejected, CloseAnswered, Dispatching, Listening
    <3> QED BY <1>3, <1>4, <3>1 DEF Close, Arm
  <2>3. CASE LateAnswer(f)
    <3>1. UNCHANGED tree /\ pc = "cancelWait" /\ CloseSession(pipe, Tail(buffer))
      BY <2>3, Zenon DEF LateAnswer
    <3> QED BY <1>3, <1>4, <3>1 DEF CloseSession, Close, Arm
  <2> QED BY <1>7, <2>1, <2>2, <2>3, Zenon DEF Dispatch, f
<1>8. CASE PromptExpires
  <2>1. UNCHANGED tree /\ pc = "wait" /\ pc' = "cancel"
    BY <1>8 DEF PromptExpires, Arm
  <2> QED BY <1>3, <1>4, <2>1
<1>9. CASE CancelExpires
  <2>1. /\ UNCHANGED tree /\ pc \in {"cancel", "cancelWait"}
        /\ \E unread : CloseSession(unread, buffer)
    BY <1>9, Zenon DEF CancelExpires
  <2> QED BY <1>3, <1>4, <2>1 DEF CloseSession, Close, Arm
<1>10. CASE CleanUp
  <2>1. CASE EofWait
    <3>1. UNCHANGED tree /\ pc = "eof" /\ pc' = "term"
      BY <2>1, Zenon DEF EofWait, Arm
    <3> QED BY <1>3, <1>4, <3>1
  <2>2. CASE TermWait
    <3>1. pc = "term" /\ pc' = "kill" /\ Killed
      BY <2>2, Zenon DEF TermWait, Arm
    <3>2. proc # "absent" /\ proc' # "absent"
      BY <3>1 DEF Killed
    <3> QED BY <1>3, <3>1, <3>2 DEF Ends
  <2>3. CASE Reap
    <3>1. /\ pc = "kill" /\ pc' = "drain" /\ UNCHANGED <<proc, helpers>>
          /\ uncertain' = CleanupUncertain
      BY <2>3 DEF Reap, Arm, tree
    <3> QED BY <3>1 DEF CleanupUncertain, Dead
  <2> QED BY <1>10, <2>1, <2>2, <2>3, Zenon DEF CleanUp
<1>11. CASE Finish
  BY <1>11 DEF Finish, Arm, tree, report
<1>12. CASE Pass
  BY <1>12 DEF Pass, Tick, tree, report, turnVars, outcome
<1>13. CASE ServerWrites
  BY <1>13 DEF ServerWrites, clock, tree, report, outcome
<1>14. CASE Server
  <2> DEFINE Same == UNCHANGED <<pc, uncertain, timedOut, verdict>>
  <2>1. CASE Exit
    <3>1. proc = "running" /\ proc' # "absent" /\ Free
      BY <2>1 DEF Exit
    <3>2. UNCHANGED <<pc, helpers, uncertain, timedOut, verdict>>
      BY <1>14, <2>1 DEF Server, Exit, clock, report, turnVars, outcome
    <3> QED BY <3>1, <3>2 DEF Free, Signalled
  <2>2. CASE Spawn
    BY <1>14, <2>2 DEF Server, Spawn, Free, Signalled, clock, report, turnVars, outcome
  <2>3. CASE HelperEnds
    <3>1. UNCHANGED <<pc, proc, uncertain, timedOut, verdict>> /\ helpers' = "none"
      BY <1>14, <2>3 DEF Server, HelperEnds, clock, report, turnVars, outcome
    <3> QED BY <3>1
  <2>4. CASE DiesLate
    BY <1>14, <2>4 DEF Server, DiesLate, Signalled, clock, report, turnVars, outcome
  <2> QED BY <1>14, <2>1, <2>2, <2>3, <2>4, Zenon DEF Server
<1>15. CASE UNCHANGED vars
  BY <1>15 DEF vars, processVars, clock, tree, report, turnVars, outcome
<1> QED BY <1>1, <1>2, <1>5, <1>6, <1>7, <1>8, <1>9, <1>10, <1>11, <1>12, <1>13, <1>14,
           <1>15, Zenon DEF Next, Client

\* When the turn reports no uncertain cleanup, neither the server nor a
\* helper it left behind, in its process group or out of it, is alive.
THEOREM CertainCleanup == Spec => []CertainMeansGone
<1>1. Init => Launched /\ CertainMeansGone
  BY DEF Init, ProcessInit, Launched, CertainMeansGone
<1> QED BY <1>1, TypeCorrect, CleanupStep, PTL DEF Spec

-----------------------------------------------------------------------------
(* The answers.                                                            *)

\* What is kept, read or discarded of a sequence of frames, and what is
\* appended to it, adds no answer of its own.
LEMMA GivenFrames ==
  ASSUME NEW s \in Seq(Frames), NEW g \in BOOLEAN, Given(s, g)
  PROVE  /\ Given(<<>>, g)
         /\ s # <<>> => Given(Tail(s), g) /\ (Terminal(Head(s)) => g)
         /\ \A n \in 1..Len(s) : Given(SubSeq(s, 1, n), g) /\ Given(SubSeq(s, n + 1, Len(s)), g)
         /\ \A q \in Lost(s) : Given(q, g)
         /\ \A f \in Frames, h \in BOOLEAN :
              (g => h) /\ (Terminal(f) => h) => Given(Append(s, f), h)
<1> HIDE DEF Terminal
<1>1. Len(s) \in Nat /\ \A i \in 1..Len(s) : s[i] \in Frames
  BY LenProperties, ElementOfSeq, Zenon
<1>2. Given(<<>>, g)
  BY DEF Given
<1>3. ASSUME s # <<>>
      PROVE  Given(Tail(s), g) /\ (Terminal(Head(s)) => g)
  BY <1>3 DEF Given
<1>4. ASSUME NEW n \in 1..Len(s)
      PROVE  Given(SubSeq(s, 1, n), g) /\ Given(SubSeq(s, n + 1, Len(s)), g)
  BY <1>1 DEF Given
<1>5. ASSUME NEW q \in Lost(s)
      PROVE  Given(q, g)
  <2>1. ~Terminal(Frame("broken", 0, FALSE))
    BY DEF Terminal, Frame
  <2>2. \A n \in 1..Len(q) : \/ q[n] = Frame("broken", 0, FALSE)
                             \/ \E k \in 1..Len(s) : q[n] = s[k]
    BY LostFrames
  <2> QED BY <2>1, <2>2, Zenon DEF Given
<1>6. ASSUME NEW f \in Frames, NEW h \in BOOLEAN, g => h, Terminal(f) => h
      PROVE  Given(Append(s, f), h)
  BY <1>1, <1>6 DEF Given
<1> QED BY <1>2, <1>3, <1>4, <1>5, <1>6

\* The windows after the prompt are entered only with the prompt.
LEMMA PromptStep == PromptSent /\ [Next]_vars => PromptSent'
<1> SUFFICES ASSUME PromptSent, [Next]_vars PROVE PromptSent'
  OBVIOUS
<1> USE DEF PromptSent, Arm, Close
<1> DEFINE Window == {"cancel", "cancelEnter", "cancelWait", "close", "closeWait", "watch"}
<1>1. ASSUME UNCHANGED step, pc' \notin Window \/ pc \in Window \/ step = Prompt
      PROVE  PromptSent'
  BY <1>1 DEF Prompt
<1>2. CASE LaunchFails \/ Launch \/ FindsDead \/ SetupExpires \/ CloseExpires \/ DeadlineExpires
  BY <1>1, <1>2 DEF LaunchFails, Launch, FindsDead, SetupExpires, CloseExpires,
                    DeadlineExpires, turnVars, sessionVars
<1>3. CASE SendRequest \/ EnterWait \/ Read \/ Watch \/ Finish
  BY <1>1, <1>3 DEF SendRequest, EnterWait, Read, Watch, Finish, clock, turnVars, sessionVars
<1>4. CASE PromptExpires
  <2>1. UNCHANGED step /\ step = Prompt
    BY <1>4 DEF PromptExpires, sessionVars
  <2> QED BY <1>1, <2>1
<1>5. CASE SendCancel \/ EnterCancelWait \/ SendClose
  <2>1. UNCHANGED step /\ pc \in Window
    BY <1>5 DEF SendCancel, EnterCancelWait, SendClose, turnVars, sessionVars
  <2> QED BY <1>1, <2>1
<1>6. CASE CancelExpires
  <2>1. UNCHANGED step /\ pc \in Window
    BY <1>6 DEF CancelExpires, turnVars, sessionVars
  <2> QED BY <1>1, <2>1
<1>7. CASE Dispatch
  <2> DEFINE f == Head(buffer)
  <2> HIDE DEF f
  <2>1. CASE Observe(f)
    BY <1>1, <2>1 DEF Observe, clock, sessionVars
  <2>2. CASE StreamFails(f) \/ AnswerRejected(f) \/ CloseAnswered(f)
    BY <1>1, <2>2 DEF StreamFails, AnswerRejected, CloseAnswered, turnVars, sessionVars
  <2>3. CASE SetupAnswered(f)
    BY <2>3 DEF SetupAnswered
  <2>4. CASE PromptAnswered(f)
    <3>1. UNCHANGED step /\ step = Prompt
      BY <2>4 DEF PromptAnswered, sessionVars
    <3> QED BY <1>1, <3>1
  <2>5. CASE LateAnswer(f)
    <3>1. UNCHANGED step /\ pc \in Window
      BY <2>5 DEF LateAnswer, sessionVars
    <3> QED BY <1>1, <3>1
  <2> QED BY <1>7, <2>1, <2>2, <2>3, <2>4, <2>5, Zenon DEF Dispatch, f
<1>8. CASE CleanUp
  BY <1>1, <1>8 DEF CleanUp, EofWait, TermWait, Reap, turnVars, sessionVars
<1>9. CASE Pass \/ ServerWrites \/ UNCHANGED vars
  <2>1. UNCHANGED <<pc, step>>
    BY <1>9 DEF Pass, Tick, ServerWrites, vars, processVars, clock, turnVars, sessionVars
  <2> QED BY <1>1, <2>1
<1>10. CASE Server
  <2>1. UNCHANGED <<pc, step>>
    BY <1>10 DEF Server, Exit, Spawn, HelperEnds, DiesLate, clock, turnVars, sessionVars
  <2> QED BY <1>1, <2>1
<1> QED BY <1>2, <1>3, <1>4, <1>5, <1>6, <1>7, <1>8, <1>9, <1>10 DEF Next, Client

\* Every good answer to the prompt, in the pipe, in the buffer or recorded,
\* is one the server gave.
LEMMA AnswerStep ==
  TypeOK /\ PromptSent /\ AnswersAreTrue /\ [Next]_vars => AnswersAreTrue'
<1> SUFFICES ASSUME TypeOK, PromptSent, AnswersAreTrue, [Next]_vars PROVE AnswersAreTrue'
  OBVIOUS
<1> HIDE DEF Terminal
<1>1. pipe \in Seq(Frames) /\ buffer \in Seq(Frames) /\ answered \in BOOLEAN
  BY DEF TypeOK
<1>2. /\ Given(pipe, answered) /\ Given(buffer, answered) /\ Given(<<>>, answered)
      /\ reply = "good" => answered
  BY DEF AnswersAreTrue, Given
<1>3. ASSUME answered' = answered, Given(pipe', answered), Given(buffer', answered),
             reply' = "good" => answered
      PROVE  AnswersAreTrue'
  BY <1>3 DEF AnswersAreTrue, Given, Terminal
<1>4. ASSUME NEW b, Close(b), UNCHANGED <<reply, answered>>
      PROVE  AnswersAreTrue'
  <2>1. pipe' = <<>> /\ buffer' = <<>>
    BY <1>4, Zenon DEF Close
  <2> QED BY <1>2, <1>3, <1>4, <2>1
<1>5. ASSUME UNCHANGED <<pipe, buffer, reply, answered>>
      PROVE  AnswersAreTrue'
  BY <1>2, <1>3, <1>5
<1>6. ASSUME NEW unread, NEW read, CloseSession(unread, read), Given(unread, answered),
             Given(read, answered), answered' = answered, reply' = "good" => answered
      PROVE  AnswersAreTrue'
  <2>1. \/ pipe' = unread /\ buffer' = read
        \/ pipe' = <<>> /\ buffer' = <<>>
    BY <1>6, Zenon DEF CloseSession, Close
  <2> QED BY <1>2, <1>3, <1>6, <2>1
<1>7. ASSUME NEW q \in Overtaken
      PROVE  Given(q, answered)
  BY <1>1, <1>2, GivenFrames, Zenon DEF Overtaken
<1>8. CASE LaunchFails
  BY <1>5, <1>8 DEF LaunchFails, stdout, evidence
<1>9. CASE Launch
  BY <1>4, <1>5, <1>9 DEF Launch, stdout, turnVars, evidence
<1>10. CASE FindsDead \/ SetupExpires \/ Watch \/ CloseExpires \/ DeadlineExpires
  <2>1. (\E b : Close(b)) /\ UNCHANGED <<reply, answered>>
    <3>1. \E b : Close(b)
      BY <1>10, Zenon DEF FindsDead, SetupExpires, Watch, CloseExpires, DeadlineExpires
    <3>2. UNCHANGED <<reply, answered>>
      BY <1>10 DEF FindsDead, SetupExpires, Watch, CloseExpires, DeadlineExpires, turnVars,
                   evidence
    <3> QED BY <3>1, <3>2
  <2> QED BY <1>4, <2>1
<1>11. CASE SendRequest \/ EnterWait \/ SendCancel \/ EnterCancelWait \/ SendClose \/ Finish
  <2>1. UNCHANGED <<pipe, buffer, reply, answered>>
    BY <1>11 DEF SendRequest, EnterWait, SendCancel, EnterCancelWait, SendClose, Finish,
                 stdout, turnVars, evidence
  <2> QED BY <1>5, <2>1
<1>12. CASE Read
  <2>1. PICK n \in 1..Len(pipe) : /\ buffer' = SubSeq(pipe, 1, n)
                                  /\ pipe' = SubSeq(pipe, n + 1, Len(pipe))
    BY <1>12, Zenon DEF Read
  <2>2. Given(buffer', answered) /\ Given(pipe', answered)
    BY <1>1, <1>2, <2>1, GivenFrames, Zenon
  <2>3. UNCHANGED <<reply, answered>>
    BY <1>12 DEF Read, turnVars, evidence
  <2> QED BY <1>2, <1>3, <2>2, <2>3
<1>13. CASE Dispatch
  <2> DEFINE f == Head(buffer)
  <2>1. buffer # <<>>
    BY <1>13, Zenon DEF Dispatch
  <2>2. Given(Tail(buffer), answered) /\ (Terminal(f) => answered)
    BY <1>1, <1>2, <2>1, GivenFrames, Zenon
  <2> HIDE DEF f
  <2>3. ASSUME Consume, answered' = answered, reply' = "good" => answered
        PROVE  AnswersAreTrue'
    BY <1>2, <1>3, <2>2, <2>3 DEF Consume
  <2>4. ASSUME f.kind = "response", f.id = Prompt,
               reply' = IF f.good THEN "good" ELSE "bad"
        PROVE  reply' = "good" => answered
    BY <2>2, <2>4 DEF Terminal
  <2>5. CASE Observe(f) \/ SetupAnswered(f)
    <3>1. Consume /\ UNCHANGED <<reply, answered>>
      BY <2>5 DEF Observe, SetupAnswered, evidence
    <3> QED BY <1>2, <2>3, <3>1
  <2>6. CASE StreamFails(f) \/ AnswerRejected(f) \/ CloseAnswered(f)
    <3>1. Close(TRUE) /\ UNCHANGED <<reply, answered>>
      BY <2>6 DEF StreamFails, AnswerRejected, CloseAnswered, turnVars, evidence
    <3> QED BY <1>4, <3>1
  <2>7. CASE PromptAnswered(f)
    <3>1. Consume /\ UNCHANGED answered /\ reply' = IF f.good THEN "good" ELSE "bad"
      BY <2>7, Zenon DEF PromptAnswered
    <3>2. f.kind = "response" /\ f.id = Prompt
      BY <2>7 DEF PromptAnswered, Answer, Awaited
    <3> QED BY <2>3, <2>4, <3>1, <3>2
  <2>8. CASE LateAnswer(f)
    <3>1. /\ CloseSession(pipe, Tail(buffer)) /\ UNCHANGED answered
          /\ reply' = IF f.good THEN "good" ELSE "bad"
      BY <2>8, Zenon DEF LateAnswer
    <3>2. f.kind = "response" /\ f.id = Prompt
      BY <2>8 DEF LateAnswer, Answer, Awaited, PromptSent
    <3> QED BY <1>2, <1>6, <2>2, <2>4, <3>1, <3>2
  <2> QED BY <1>13, <2>5, <2>6, <2>7, <2>8, Zenon DEF Dispatch, f
<1>14. CASE PromptExpires
  <2>1. pipe' \in Overtaken /\ UNCHANGED <<buffer, reply, answered>>
    BY <1>14 DEF PromptExpires, evidence
  <2> QED BY <1>2, <1>3, <1>7, <2>1
<1>15. CASE CancelExpires
  <2>1. PICK unread \in Overtaken : CloseSession(unread, buffer)
    BY <1>15, Zenon DEF CancelExpires
  <2>2. UNCHANGED <<reply, answered>>
    BY <1>15 DEF CancelExpires, turnVars, evidence
  <2> QED BY <1>2, <1>6, <1>7, <2>1, <2>2
<1>16. CASE CleanUp
  BY <1>5, <1>16 DEF CleanUp, EofWait, TermWait, Reap, stdout, turnVars, evidence
<1>17. CASE Pass \/ UNCHANGED vars
  BY <1>5, <1>17 DEF Pass, Tick, vars, processVars, stdout, turnVars, evidence
<1>18. CASE ServerWrites
  <2>1. PICK f \in Answers \cup Others \cup {EndOfFile} :
           /\ pipe' = Append(pipe, f)
           /\ answered' = (answered \/ f = Frame("response", Prompt, TRUE))
    BY <1>18, Zenon DEF ServerWrites
  <2>2. f \in Frames
    BY ServerFrames DEF TypeOK
  <2>3. Terminal(f) => f = Frame("response", Prompt, TRUE)
    BY <2>2 DEF Terminal, Frame, Frames
  <2>4. answered' \in BOOLEAN /\ (answered => answered') /\ (Terminal(f) => answered')
    BY <2>1, <2>3
  <2>5. Given(Append(pipe, f), answered')
    BY <1>1, <1>2, <2>2, <2>4, GivenFrames, Zenon
  <2>6. Given(buffer, answered')
    BY <1>2, <2>4, Zenon DEF Given
  <2>7. UNCHANGED <<buffer, reply>>
    BY <1>18 DEF ServerWrites, evidence
  <2> QED BY <1>2, <2>1, <2>4, <2>5, <2>6, <2>7 DEF AnswersAreTrue, Given, Terminal
<1>19. CASE Server
  <2>1. UNCHANGED <<buffer, reply, answered>>
    BY <1>19 DEF Server, Exit, Spawn, HelperEnds, DiesLate, stdout, turnVars, evidence
  <2>2. pipe' = pipe \/ pipe' = Append(pipe, EndOfFile)
    <3>1. CASE Exit
      BY <3>1 DEF Exit, CloseStdout
    <3>2. CASE Spawn
      BY <3>2 DEF Spawn, stdout
    <3>3. CASE HelperEnds
      BY <3>3 DEF HelperEnds, CloseStdout
    <3>4. CASE DiesLate
      BY <3>4 DEF DiesLate, stdout
    <3> QED BY <1>19, <3>1, <3>2, <3>3, <3>4, Zenon DEF Server
  <2>3. EndOfFile \in Frames /\ ~Terminal(EndOfFile)
    BY ServerFrames DEF TypeOK, EndOfFile, Terminal, Frame
  <2>4. Given(Append(pipe, EndOfFile), answered)
    BY <1>1, <1>2, <2>3, GivenFrames, Zenon
  <2> QED BY <1>2, <1>3, <2>1, <2>2, <2>4
<1> QED BY <1>8, <1>9, <1>10, <1>11, <1>12, <1>13, <1>14, <1>15, <1>16, <1>17, <1>18,
           <1>19 DEF Next, Client

\* The prompt is answered, expires and is cancelled once, in that order.
LEMMA SettledStep == Launched /\ SettledOnce /\ [Next]_vars => SettledOnce'
<1> SUFFICES ASSUME Launched, SettledOnce, [Next]_vars PROVE SettledOnce'
  OBVIOUS
<1> USE DEF SettledOnce
<1> DEFINE Before == {"launch", "send", "enter", "wait"}
           During == {"cancel", "cancelEnter", "cancelWait"}
<1>1. ASSUME UNCHANGED <<pc, proc, step, reply, timedOut, cancelSent>>
      PROVE  SettledOnce'
  BY <1>1
<1>2. ASSUME pc' \notin Before \cup During, proc' = "absent" => step' = 1
      PROVE  SettledOnce'
  BY <1>2
<1>3. ASSUME pc \in Before, pc' \in Before, UNCHANGED <<reply, timedOut, cancelSent>>,
             proc' = "absent" => step' = 1
      PROVE  SettledOnce'
  BY <1>3
<1>4. ASSUME NEW b, Close(b), UNCHANGED <<proc, step>>
      PROVE  SettledOnce'
  BY <1>2, <1>4 DEF Close, Arm
<1>5. CASE LaunchFails
  BY <1>2, <1>5 DEF LaunchFails, Arm, tree, sessionVars
<1>6. CASE Launch
  <2>1. proc' = "running" /\ pc \in Before /\ UNCHANGED <<step, reply, timedOut, cancelSent>>
    BY <1>6 DEF Launch, turnVars, sessionVars, evidence, outcome
  <2>2. pc' \in {"send", "eof"}
    BY <1>6 DEF Launch, Arm, Close
  <2> QED BY <1>2, <1>3, <2>1, <2>2
<1>7. CASE FindsDead \/ SetupExpires \/ Watch \/ CloseExpires \/ DeadlineExpires
  <2>1. \E b : Close(b)
    BY <1>7, Zenon DEF FindsDead, SetupExpires, Watch, CloseExpires, DeadlineExpires
  <2>2. UNCHANGED <<proc, step>>
    BY <1>7 DEF FindsDead, SetupExpires, Watch, CloseExpires, DeadlineExpires, tree, turnVars,
                sessionVars
  <2> QED BY <1>4, <2>1, <2>2
<1>8. CASE SendRequest \/ EnterWait
  BY <1>3, <1>8 DEF SendRequest, EnterWait, Arm, tree, turnVars, sessionVars, evidence, outcome
<1>9. CASE Read
  BY <1>1, <1>9 DEF Read, clock, tree, turnVars, sessionVars, evidence, outcome
<1>10. CASE Dispatch
  <2> DEFINE f == Head(buffer)
  <2> HIDE DEF f
  <2>1. CASE Observe(f)
    BY <1>1, <2>1 DEF Observe, clock, tree, sessionVars, outcome
  <2>2. CASE StreamFails(f) \/ AnswerRejected(f) \/ CloseAnswered(f)
    <3>1. Close(TRUE) /\ UNCHANGED <<proc, step>>
      BY <2>2 DEF StreamFails, AnswerRejected, CloseAnswered, tree, turnVars, sessionVars
    <3> QED BY <1>4, <3>1
  <2>3. CASE SetupAnswered(f)
    <3>1. pc = "wait" /\ pc' = "send" /\ UNCHANGED <<proc, reply, timedOut, cancelSent>>
      BY <2>3 DEF SetupAnswered, Arm, tree, evidence, outcome
    <3>2. proc # "absent"
      BY <3>1 DEF Launched
    <3> QED BY <1>3, <3>1, <3>2
  <2>4. CASE PromptAnswered(f)
    <3>1. pc' = "watch" /\ UNCHANGED <<proc, step>>
      BY <2>4 DEF PromptAnswered, Arm, tree, sessionVars
    <3> QED BY <1>2, <3>1
  <2>5. CASE LateAnswer(f)
    <3>1. CloseSession(pipe, Tail(buffer)) /\ UNCHANGED <<proc, step>>
      BY <2>5 DEF LateAnswer, tree, sessionVars
    <3>2. pc' \in {"close", "eof"}
      BY <3>1 DEF CloseSession, Close, Arm
    <3> QED BY <1>2, <3>1, <3>2
  <2> QED BY <1>10, <2>1, <2>2, <2>3, <2>4, <2>5, Zenon DEF Dispatch, f
<1>11. CASE PromptExpires
  BY <1>11 DEF PromptExpires, Arm, tree, sessionVars, evidence
<1>12. CASE SendCancel
  BY <1>12 DEF SendCancel, Arm, tree, sessionVars, evidence
<1>13. CASE EnterCancelWait
  BY <1>13 DEF EnterCancelWait, Arm, tree, turnVars, sessionVars, evidence, outcome
<1>14. CASE CancelExpires
  <2>1. \E unread : CloseSession(unread, buffer)
    BY <1>14, Zenon DEF CancelExpires
  <2>2. pc' \in {"close", "eof"}
    BY <2>1 DEF CloseSession, Close, Arm
  <2>3. UNCHANGED <<proc, step>>
    BY <1>14 DEF CancelExpires, tree, turnVars, sessionVars
  <2> QED BY <1>2, <2>2, <2>3
<1>15. CASE SendClose
  BY <1>2, <1>15 DEF SendClose, Arm, tree, turnVars, sessionVars
<1>16. CASE CleanUp
  <2>1. pc' \in {"term", "kill", "drain"} /\ UNCHANGED step
    BY <1>16 DEF CleanUp, EofWait, TermWait, Reap, Arm, turnVars, sessionVars
  <2>2. proc' = "absent" => proc = "absent"
    BY <1>16 DEF CleanUp, EofWait, TermWait, Reap, Killed, tree
  <2> QED BY <1>2, <2>1, <2>2
<1>17. CASE Finish
  BY <1>2, <1>17 DEF Finish, Arm, tree, sessionVars
<1>18. CASE Pass \/ ServerWrites \/ UNCHANGED vars
  <2>1. UNCHANGED <<pc, proc, step, reply, timedOut, cancelSent>>
    BY <1>18 DEF Pass, Tick, ServerWrites, vars, processVars, clock, tree, turnVars,
                 sessionVars, evidence, outcome
  <2> QED BY <1>1, <2>1
<1>19. CASE Server
  <2>1. UNCHANGED <<pc, step, reply, timedOut, cancelSent>>
    BY <1>19 DEF Server, Exit, Spawn, HelperEnds, DiesLate, clock, turnVars, sessionVars,
                 evidence, outcome
  <2>2. proc' = "absent" => proc = "absent"
    BY <1>19 DEF Server, Exit, Spawn, HelperEnds, DiesLate
  <2> QED BY <2>1, <2>2
<1> QED BY <1>5, <1>6, <1>7, <1>8, <1>9, <1>10, <1>11, <1>12, <1>13, <1>14, <1>15, <1>16,
           <1>17, <1>18, <1>19 DEF Next, Client

-----------------------------------------------------------------------------
(* The verdict.                                                            *)

\* A refused request of the server is still a failure when the turn is
\* assessed.
LEMMA FailureStep == TypeOK /\ FailureIsKept /\ [Next]_vars => FailureIsKept'
<1> SUFFICES ASSUME TypeOK, FailureIsKept, [Next]_vars PROVE FailureIsKept'
  OBVIOUS
<1> USE DEF FailureIsKept
<1>1. refused \in BOOLEAN /\ failed \in BOOLEAN
  BY DEF TypeOK, ProcessTypeOK
<1>2. ASSUME pc' \notin Cleanup \cup {"watch"}
      PROVE  FailureIsKept'
  BY <1>2 DEF Cleanup
<1>3. ASSUME Close(TRUE)
      PROVE  FailureIsKept'
  BY <1>3 DEF Close, Arm
<1>4. ASSUME UNCHANGED <<pc, failed, refused>>
      PROVE  FailureIsKept'
  BY <1>4 DEF Cleanup
<1>5. ASSUME pc \in Cleanup, pc' \in Cleanup, failed => failed', UNCHANGED refused
      PROVE  FailureIsKept'
  BY <1>5 DEF Cleanup
<1>6. CASE LaunchFails
  BY <1>6 DEF LaunchFails, Arm
<1>7. CASE Launch
  BY <1>2, <1>3, <1>7 DEF Launch, Arm, Cleanup
<1>8. CASE FindsDead \/ SetupExpires \/ CloseExpires \/ DeadlineExpires
  BY <1>3, <1>8, Zenon DEF FindsDead, SetupExpires, CloseExpires, DeadlineExpires
<1>9. CASE SendRequest \/ EnterWait \/ SendCancel \/ EnterCancelWait \/ SendClose
  BY <1>2, <1>9 DEF SendRequest, EnterWait, SendCancel, EnterCancelWait, SendClose, Arm,
                    Cleanup
<1>10. CASE Read
  BY <1>4, <1>10 DEF Read, clock, report, turnVars, evidence
<1>11. CASE Watch
  <2>1. pc = "watch" /\ UNCHANGED refused
    BY <1>11 DEF Watch, turnVars, evidence
  <2> QED BY <2>1
<1>12. CASE Dispatch
  <2> DEFINE f == Head(buffer)
  <2> HIDE DEF f
  <2>1. CASE Observe(f)
    <3>1. pc' \in Listening
      BY <2>1 DEF Observe, Dispatching, clock
    <3> QED BY <1>2, <3>1 DEF Listening, Cleanup
  <2>2. CASE StreamFails(f) \/ AnswerRejected(f) \/ CloseAnswered(f)
    BY <1>3, <2>2, Zenon DEF StreamFails, AnswerRejected, CloseAnswered
  <2>3. CASE SetupAnswered(f)
    BY <1>2, <2>3 DEF SetupAnswered, Arm, Cleanup
  <2>4. CASE PromptAnswered(f)
    <3>1. ~refused /\ UNCHANGED refused
      BY <2>4, Zenon DEF PromptAnswered, Unacceptable
    <3> QED BY <3>1
  <2>5. CASE LateAnswer(f)
    <3>1. CloseSession(pipe, Tail(buffer))
      BY <2>5, Zenon DEF LateAnswer
    <3> QED BY <1>2, <1>3, <3>1 DEF CloseSession, Arm, Cleanup
  <2> QED BY <1>12, <2>1, <2>2, <2>3, <2>4, <2>5, Zenon DEF Dispatch, f
<1>13. CASE PromptExpires
  BY <1>2, <1>13 DEF PromptExpires, Arm, Cleanup
<1>14. CASE CancelExpires
  <2>1. \E unread : CloseSession(unread, buffer)
    BY <1>14, Zenon DEF CancelExpires
  <2> QED BY <1>2, <1>3, <2>1 DEF CloseSession, Arm, Cleanup
<1>15. CASE CleanUp
  <2>1. UNCHANGED refused
    BY <1>15 DEF CleanUp, turnVars, evidence
  <2>2. pc \in Cleanup /\ pc' \in Cleanup
    BY <1>15 DEF CleanUp, EofWait, TermWait, Reap, Arm, Cleanup
  <2>3. failed => failed'
    BY <1>1, <1>15 DEF CleanUp, EofWait, TermWait, Reap
  <2> QED BY <1>5, <2>1, <2>2, <2>3
<1>16. CASE Finish
  <2>1. UNCHANGED <<refused, failed>> /\ pc \in Cleanup /\ pc' \in Cleanup
    BY <1>16 DEF Finish, Arm, Cleanup, report, evidence
  <2> QED BY <1>5, <2>1
<1>17. CASE Pass \/ ServerWrites \/ Server \/ UNCHANGED vars
  <2>1. UNCHANGED <<pc, failed, refused>>
    BY <1>17 DEF Pass, Tick, ServerWrites, Server, Exit, Spawn, HelperEnds, DiesLate, vars,
                 processVars, clock, report, turnVars, evidence
  <2> QED BY <1>4, <2>1
<1> QED BY <1>6, <1>7, <1>8, <1>9, <1>10, <1>11, <1>12, <1>13, <1>14, <1>15, <1>16,
           <1>17 DEF Next, Client

\* The verdict is given last, and it stays true of what is left.
LEMMA AssessedStep ==
  TypeOK /\ Launched /\ CertainMeansGone /\ Assessed /\ [Next]_vars => Assessed'
<1> SUFFICES ASSUME TypeOK, Launched, CertainMeansGone, Assessed, [Next]_vars
             PROVE  Assessed'
  OBVIOUS
<1>1. ASSUME pc # "done", pc' # "done", UNCHANGED verdict
      PROVE  Assessed'
  BY <1>1 DEF Assessed
<1>2. ASSUME UNCHANGED <<pc, proc, report, evidence, outcome>>
      PROVE  Assessed'
  BY <1>2 DEF Assessed, Assess, report, evidence, outcome
<1>3. CASE LaunchFails
  <2>1. /\ verdict' = "protocol" /\ pc' = "done"
        /\ UNCHANGED proc /\ pc = "launch"
    BY <1>3, Zenon DEF LaunchFails, Arm, tree
  <2>2. proc' = "absent"
    BY <2>1 DEF Launched
  <2> QED BY <2>1, <2>2 DEF Assessed
<1>4. CASE Launch
  BY <1>1, <1>4 DEF Launch, Close, Arm, turnVars, outcome
<1>5. CASE FindsDead \/ SetupExpires \/ Watch \/ CloseExpires \/ DeadlineExpires
  <2>1. pc # "done" /\ UNCHANGED verdict
    BY <1>5 DEF FindsDead, SetupExpires, Watch, CloseExpires, DeadlineExpires, turnVars, outcome
  <2>2. \E b : Close(b)
    BY <1>5, Zenon DEF FindsDead, SetupExpires, Watch, CloseExpires, DeadlineExpires
  <2> QED BY <1>1, <2>1, <2>2 DEF Close, Arm
<1>6. CASE SendRequest \/ EnterWait \/ SendCancel \/ EnterCancelWait \/ SendClose
  BY <1>1, <1>6 DEF SendRequest, EnterWait, SendCancel, EnterCancelWait, SendClose, Arm,
                    turnVars, outcome
<1>7. CASE Read
  BY <1>2, <1>7 DEF Read, clock, tree, report, turnVars, evidence, outcome
<1>8. CASE Dispatch
  <2> DEFINE f == Head(buffer)
  <2> HIDE DEF f
  <2>1. CASE Observe(f)
    BY <1>1, <2>1 DEF Observe, Dispatching, Listening, clock, outcome
  <2>2. CASE StreamFails(f) \/ AnswerRejected(f) \/ CloseAnswered(f)
    <3>1. pc # "done" /\ Close(TRUE) /\ UNCHANGED verdict
      BY <2>2 DEF StreamFails, AnswerRejected, CloseAnswered, Dispatching, Listening, turnVars,
                  outcome
    <3> QED BY <1>1, <3>1 DEF Close, Arm
  <2>3. CASE SetupAnswered(f) \/ PromptAnswered(f)
    BY <1>1, <2>3 DEF SetupAnswered, PromptAnswered, Arm, outcome
  <2>4. CASE LateAnswer(f)
    <3>1. CloseSession(pipe, Tail(buffer)) /\ pc = "cancelWait" /\ UNCHANGED verdict
      BY <2>4, Zenon DEF LateAnswer, outcome
    <3> QED BY <1>1, <3>1 DEF CloseSession, Close, Arm
  <2> QED BY <1>8, <2>1, <2>2, <2>3, <2>4, Zenon DEF Dispatch, f
<1>9. CASE PromptExpires
  BY <1>1, <1>9 DEF PromptExpires, Arm
<1>10. CASE CancelExpires
  <2>1. /\ pc \in {"cancel", "cancelWait"} /\ UNCHANGED verdict
        /\ \E unread : CloseSession(unread, buffer)
    BY <1>10, Zenon DEF CancelExpires, turnVars, outcome
  <2> QED BY <1>1, <2>1 DEF CloseSession, Close, Arm
<1>11. CASE CleanUp
  <2>1. pc # "done" /\ pc' # "done" /\ UNCHANGED verdict
    BY <1>11 DEF CleanUp, EofWait, TermWait, Reap, Arm, turnVars, outcome
  <2> QED BY <1>1, <2>1
<1>12. CASE Finish
  <2>1. /\ verdict' = Assess /\ pc' = "done"
        /\ UNCHANGED <<proc, report, evidence, timedOut>>
    BY <1>12, Zenon DEF Finish, Arm, tree
  <2>2. Assess # "none" /\ verdict' = Assess'
    BY <2>1 DEF Assess, report, evidence
  <2> QED BY <2>1, <2>2 DEF Assessed
<1>13. CASE Pass \/ ServerWrites \/ UNCHANGED vars
  <2>1. UNCHANGED <<pc, proc, report, evidence, outcome>>
    BY <1>13 DEF Pass, Tick, ServerWrites, vars, processVars, clock, tree, turnVars
  <2> QED BY <1>2, <2>1
<1>14. CASE Server
  <2>1. UNCHANGED <<pc, report, evidence, outcome>>
    BY <1>14 DEF Server, Exit, Spawn, HelperEnds, DiesLate, clock, turnVars
  <2>2. CASE proc' = proc
    BY <1>2, <2>1, <2>2
  <2>3. CASE pc # "done"
    BY <1>1, <2>1, <2>3 DEF outcome
  <2>4. CASE proc' # proc /\ pc = "done"
    <3>1. proc = "running" /\ proc' # "absent"
      BY <1>14, <2>4 DEF Server, Exit, Spawn, HelperEnds, DiesLate, tree
    <3>2. uncertain /\ uncertain' /\ verdict = Assess
      BY <2>1, <2>4, <3>1 DEF CertainMeansGone, Assessed, report, TypeOK, ProcessTypeOK
    <3>3. Assess = "local_error" /\ Assess' = "local_error"
      BY <3>2 DEF Assess
    <3> QED BY <2>1, <2>4, <3>2, <3>3 DEF Assessed, outcome
  <2> QED BY <2>2, <2>3, <2>4
<1> QED BY <1>3, <1>4, <1>5, <1>6, <1>7, <1>8, <1>9, <1>10, <1>11, <1>12, <1>13,
           <1>14 DEF Next, Client

\* The inductive invariant of the turn.
THEOREM InvCorrect == Spec => []Inv
<1>1. Init => Inv
  <2> SUFFICES ASSUME Init PROVE Inv
    OBVIOUS
  <2>1. OnTime
    <3>1. Total \in Nat /\ Latest("launch") = Total
      BY Numbers, LatestValues DEF Cleanup
    <3> HIDE DEF Total
    <3> QED BY <3>1 DEF Init, ProcessInit, OnTime
  <2>2. /\ Launched /\ CertainMeansGone /\ PromptSent /\ AnswersAreTrue /\ SettledOnce
        /\ FailureIsKept /\ Assessed
    BY DEF Init, ProcessInit, Launched, CertainMeansGone, PromptSent, AnswersAreTrue, Given,
           SettledOnce, FailureIsKept, Assessed
  <2> QED BY <2>1, <2>2, InitTypeOK DEF Inv
<1>2. Inv /\ [Next]_vars => Inv'
  BY TypeStep, TimeStep, CleanupStep, PromptStep, AnswerStep, SettledStep, FailureStep, AssessedStep, Zenon
     DEF Inv
<1> QED BY <1>1, <1>2, PTL DEF Spec

\* A successful turn is one the server answered with end_turn, in time, with
\* nothing refused and no error reported, that left by itself with status 0
\* and left nothing behind.
THEOREM EarnedSuccess == Spec => []SuccessIsEarned
<1>1. Inv => SuccessIsEarned
  <2> SUFFICES ASSUME Inv, verdict = "success"
               PROVE  /\ answered /\ reply = "good"
                      /\ ~refused /\ ~airError /\ ~timedOut
                      /\ proc = "exit0" /\ helpers = "none"
    BY DEF SuccessIsEarned
  <2>1. pc = "done" /\ proc # "absent" /\ verdict = Assess
    BY DEF Inv, Assessed, Launched
  <2>2. ~uncertain /\ ~timedOut /\ proc = "exit0" /\ ~failed /\ reply = "good" /\ ~airError
    BY <2>1 DEF Assess
  <2>3. helpers = "none" /\ ~refused /\ answered
    BY <2>1, <2>2 DEF Inv, CertainMeansGone, FailureIsKept, AnswersAreTrue, Cleanup
  <2> QED BY <2>2, <2>3
<1> QED BY <1>1, InvCorrect, PTL

\* Nothing that happens in the cancellation and close windows turns an
\* expired prompt into anything but a timeout, or an uncertain cleanup.
THEOREM ExpiredTurn == Spec => []ExpiredIsTimeout
<1>1. Inv => ExpiredIsTimeout
  <2> SUFFICES ASSUME Inv, timedOut, verdict # "none"
               PROVE  verdict = IF uncertain THEN "local_error" ELSE "host_timeout"
    BY DEF ExpiredIsTimeout
  <2>1. pc = "done" /\ proc # "absent" /\ verdict = Assess
    BY DEF Inv, Assessed, Launched
  <2> QED BY <2>1 DEF Assess
<1> QED BY <1>1, InvCorrect, PTL
-----------------------------------------------------------------------------
(* The promise.                                                            *)

\* Of the tree something is left until both the server and its helpers are gone.
Left == proc = "running" \/ helpers # "none"

\* What the promise is about, and that it did not change.
Silent == UNCHANGED <<proc, helpers, step, refused, airError, answered, reply, timedOut,
                      cancelSent, verdict>>

\* Between the launch and the verdict a turn is open and has got to a request.
Underway == verdict = "none" /\ proc # "absent" /\ step > 0 /\ step <= Prompt

LEMMA OpenTurn ==
  Inv => /\ pc \notin {"launch", "done"} => Underway
         /\ pc = "launch" => /\ proc = "absent" /\ helpers = "none" /\ step = 1
                             /\ verdict = "none" /\ ~timedOut
<1> SUFFICES ASSUME Inv PROVE /\ pc \notin {"launch", "done"} => Underway
                              /\ pc = "launch" => /\ proc = "absent" /\ helpers = "none"
                                                  /\ step = 1 /\ verdict = "none" /\ ~timedOut
  OBVIOUS
<1>1. step \in 1..Prompt /\ Prompt \in Nat
  BY TurnAssumption DEF Inv, TypeOK, Prompt
<1>2. step > 0 /\ step <= Prompt
  BY <1>1
<1> QED BY <1>2 DEF Inv, Launched, SettledOnce, Assessed, Underway

\* A step of the server, or of SIGKILL, that only ends processes.
LEMMA Vanishing ==
  ASSUME UNCHANGED <<step, refused, airError, answered, reply, timedOut, cancelSent, verdict>>,
         proc' = "absent" <=> proc = "absent", Left' => Left
  PROVE  [Promise!Next]_Promise!vars
<1>1. (IF proc' = "absent" THEN 0 ELSE step') = (IF proc = "absent" THEN 0 ELSE step)
  OBVIOUS
<1>2. CASE Left' <=> Left
  BY <1>1, <1>2 DEF Promise!vars, Left
<1>3. CASE Left /\ ~Left'
  BY <1>1, <1>3 DEF Promise!Next, Promise!Vanish, Left
<1> QED BY <1>2, <1>3

LEMMA PromiseKept == Inv /\ [Next]_vars => [Promise!Next]_Promise!vars
<1> SUFFICES ASSUME Inv, [Next]_vars PROVE [Promise!Next]_Promise!vars
  OBVIOUS
<1>1. pc \notin {"launch", "done"} => Underway
  BY OpenTurn
<1>2. ASSUME Silent
      PROVE  [Promise!Next]_Promise!vars
  BY <1>2 DEF Silent, Promise!vars
<1>3. ASSUME UNCHANGED <<tree, turnVars>>
      PROVE  [Promise!Next]_Promise!vars
  BY <1>2, <1>3 DEF Silent, tree, turnVars, sessionVars, evidence, outcome
<1>4. CASE LaunchFails
  <2>1. /\ pc = "launch" /\ verdict' = "protocol"
        /\ UNCHANGED <<proc, helpers, step, refused, airError, answered, reply, timedOut,
                       cancelSent>>
    BY <1>4 DEF LaunchFails, tree, sessionVars, evidence
  <2>2. Promise!Decide
    BY <2>1, OpenTurn DEF Promise!Decide, Promise!Open, Promise!Earned, Promise!Verdicts
  <2> QED BY <2>2 DEF Promise!Next
<1>5. CASE Launch
  <2>1. /\ pc = "launch" /\ proc' = "running"
        /\ UNCHANGED <<step, refused, airError, answered, reply, timedOut, cancelSent, verdict>>
    BY <1>5 DEF Launch, turnVars, sessionVars, evidence, outcome
  <2>2. Promise!Start
    BY <2>1, OpenTurn DEF Promise!Start, Promise!Open
  <2> QED BY <2>2 DEF Promise!Next
<1>6. CASE FindsDead \/ SendRequest \/ EnterWait \/ Read \/ Watch \/ EnterCancelWait
  BY <1>3, <1>6 DEF FindsDead, SendRequest, EnterWait, Read, Watch, EnterCancelWait
<1>7. CASE CancelExpires \/ SendClose \/ CloseExpires \/ DeadlineExpires
  BY <1>3, <1>7 DEF CancelExpires, SendClose, CloseExpires, DeadlineExpires
<1>8. CASE Pass \/ UNCHANGED vars
  BY <1>3, <1>8 DEF Pass, Tick, vars, processVars
<1>9. CASE SetupExpires \/ PromptExpires
  <2>1. /\ pc \in {"send", "wait"} /\ timedOut'
        /\ UNCHANGED <<proc, helpers, step, refused, airError, answered, reply, cancelSent,
                       verdict>>
    BY <1>9 DEF SetupExpires, PromptExpires, tree, sessionVars, evidence
  <2>2. Underway /\ reply = "none" /\ ~timedOut
    BY <1>1, <2>1 DEF Inv, SettledOnce
  <2>3. Promise!Expire
    BY <2>1, <2>2 DEF Promise!Expire, Promise!Unanswered, Promise!InTime, Promise!Started,
                      Promise!Open, Underway
  <2> QED BY <2>3 DEF Promise!Next
<1>10. CASE SendCancel
  <2>1. /\ pc = "cancel" /\ cancelSent'
        /\ UNCHANGED <<proc, helpers, step, refused, airError, answered, reply, timedOut,
                       verdict>>
    BY <1>10 DEF SendCancel, tree, sessionVars, evidence
  <2>2. Underway /\ reply = "none" /\ timedOut /\ ~cancelSent /\ step = Prompt
    BY <1>1, <2>1 DEF Inv, SettledOnce, PromptSent
  <2>3. Promise!Cancel
    BY <2>1, <2>2 DEF Promise!Cancel, Promise!Unanswered, Promise!Started, Promise!Open,
                      Underway
  <2> QED BY <2>3 DEF Promise!Next
<1>11. CASE Dispatch
  <2> DEFINE f == Head(buffer)
  <2>1. buffer # <<>> /\ buffer \in Seq(Frames) /\ Given(buffer, answered)
    BY <1>11, Zenon DEF Dispatch, Inv, TypeOK, AnswersAreTrue
  <2>2. Terminal(f) => answered
    BY <2>1, GivenFrames, Zenon DEF Inv, TypeOK
  <2> HIDE DEF f
  <2>3. CASE Observe(f)
    <3>1. pc \in Listening /\ UNCHANGED <<proc, helpers, step, answered, reply, timedOut,
                                          cancelSent, verdict>>
      BY <2>3 DEF Observe, Dispatching, tree, sessionVars, outcome
    <3>2. Underway
      BY <1>1, <3>1 DEF Listening
    <3>3. /\ refused' = (refused \/ Rejects(f)) /\ airError' = (airError \/ Fails(f))
          /\ refused \in BOOLEAN /\ airError \in BOOLEAN
      BY <2>3, Zenon DEF Observe, Inv, TypeOK
    <3>4. CASE ~Rejects(f) /\ ~Fails(f)
      BY <1>2, <3>1, <3>3, <3>4 DEF Silent
    <3>5. CASE Rejects(f)
      <4>1. ~Fails(f)
        BY <3>5 DEF Rejects, Fails
      <4>2. refused' = TRUE /\ airError' = airError
        BY <3>3, <3>5, <4>1
      <4>3. Promise!Refuse
        BY <3>1, <3>2, <4>2 DEF Promise!Refuse, Promise!Started, Promise!Open, Underway
      <4> QED BY <4>3 DEF Promise!Next
    <3>6. CASE Fails(f)
      <4>1. ~Rejects(f) /\ step = Prompt
        BY <3>6 DEF Rejects, Fails
      <4>2. airError' = TRUE /\ refused' = refused
        BY <3>3, <3>6, <4>1
      <4>3. Promise!Complain
        BY <3>1, <3>2, <4>1, <4>2 DEF Promise!Complain, Promise!Started, Promise!Open, Underway
      <4> QED BY <4>3 DEF Promise!Next
    <3> QED BY <3>4, <3>5, <3>6
  <2>4. CASE StreamFails(f) \/ AnswerRejected(f) \/ CloseAnswered(f)
    BY <1>3, <2>4 DEF StreamFails, AnswerRejected, CloseAnswered
  <2>5. CASE SetupAnswered(f)
    <3>1. /\ pc = "wait" /\ step < Prompt /\ ~refused /\ step' = step + 1
          /\ UNCHANGED <<proc, helpers, refused, airError, answered, reply, timedOut,
                         cancelSent, verdict>>
      BY <2>5 DEF SetupAnswered, Unacceptable, tree, evidence, outcome
    <3>2. Underway /\ ~timedOut
      BY <1>1, <3>1 DEF Inv, SettledOnce
    <3>3. Promise!Advance
      BY <3>1, <3>2 DEF Promise!Advance, Promise!InTime, Promise!Started, Promise!Open,
                        Underway
    <3> QED BY <3>3 DEF Promise!Next
  <2>6. CASE PromptAnswered(f) \/ LateAnswer(f)
    <3>1. /\ pc \in {"wait", "cancelWait"} /\ Answer(f)
          /\ pc = "wait" => step = Prompt /\ ~refused
          /\ reply' = IF f.good THEN "good" ELSE "bad"
      BY <2>6, Zenon DEF PromptAnswered, LateAnswer, Unacceptable
    <3>2. UNCHANGED <<proc, helpers, step, refused, airError, answered, timedOut, cancelSent,
                      verdict>>
      BY <2>6 DEF PromptAnswered, LateAnswer, tree, sessionVars, outcome
    <3>3. Underway /\ reply = "none" /\ step = Prompt /\ (refused => timedOut)
      BY <1>1, <3>1 DEF Inv, SettledOnce, PromptSent
    <3>4. f.good => answered
      BY <2>2, <3>1, <3>3 DEF Answer, Awaited, Terminal
    <3>5. Promise!Take
      BY <3>1, <3>2, <3>3, <3>4 DEF Promise!Take, Promise!Unanswered, Promise!Started,
                                    Promise!Open, Underway
    <3> QED BY <3>5 DEF Promise!Next
  <2> QED BY <1>11, <2>3, <2>4, <2>5, <2>6, Zenon DEF Dispatch, f
<1>12. CASE CleanUp
  <2>1. UNCHANGED <<step, refused, airError, answered, reply, timedOut, cancelSent, verdict>>
    BY <1>12 DEF CleanUp, turnVars, sessionVars, evidence, outcome
  <2>2. CASE EofWait \/ Reap
    BY <1>2, <2>1, <2>2 DEF EofWait, Reap, Silent, tree
  <2>3. CASE TermWait
    <3>1. pc = "term" /\ Killed
      BY <2>3, Zenon DEF TermWait
    <3>2. proc # "absent" /\ proc' # "absent" /\ (Left' => Left)
      BY <1>1, <3>1 DEF Underway, Killed, Left
    <3> QED BY <2>1, <3>2, Vanishing
  <2> QED BY <1>12, <2>2, <2>3, Zenon DEF CleanUp
<1>13. CASE Finish
  <2>1. /\ pc = "drain" /\ verdict' = Assess
        /\ UNCHANGED <<proc, helpers, step, refused, airError, answered, reply, timedOut,
                       cancelSent>>
    BY <1>13 DEF Finish, tree, sessionVars, evidence
  <2>2. Underway
    BY <1>1, <2>1
  <2>3. /\ ~uncertain => ~Left
        /\ ~failed => ~refused
    BY <2>1 DEF Inv, CertainMeansGone, FailureIsKept, Cleanup, Left
  <2>4. Assess \in Promise!Verdicts
    BY DEF Assess, Promise!Verdicts
  <2>5. Promise!Earned(Assess)
    BY <2>2, <2>3 DEF Promise!Earned, Assess, Underway, Left
  <2>6. Promise!Decide
    BY <2>1, <2>2, <2>4, <2>5 DEF Promise!Decide, Promise!Open, Underway
  <2> QED BY <2>6 DEF Promise!Next
<1>14. CASE ServerWrites
  <2>1. PICK f \in Answers \cup Others \cup {EndOfFile} :
           answered' = (answered \/ f = Frame("response", Prompt, TRUE))
    BY <1>14, Zenon DEF ServerWrites
  <2>2. UNCHANGED <<proc, helpers, step, refused, airError, reply, timedOut, cancelSent,
                    verdict>>
    BY <1>14 DEF ServerWrites, tree, sessionVars, evidence, outcome
  <2>3. Underway
    BY <1>1, <1>14 DEF ServerWrites, Reading, Free, Signalled
  <2>4. CASE answered' = answered
    BY <1>2, <2>2, <2>4 DEF Silent
  <2>5. CASE f = Frame("response", Prompt, TRUE)
    <3>1. Promise!Give
      BY <2>1, <2>2, <2>3, <2>5 DEF Promise!Give, Promise!Started, Promise!Open, Underway
    <3> QED BY <3>1 DEF Promise!Next
  <2>6. answered \in BOOLEAN
    BY DEF Inv, TypeOK
  <2> QED BY <2>1, <2>4, <2>5, <2>6
<1>15. CASE Server
  <2>1. UNCHANGED <<step, refused, airError, answered, reply, timedOut, cancelSent, verdict>>
    BY <1>15 DEF Server, turnVars, sessionVars, evidence, outcome
  <2>2. (proc' = "absent" <=> proc = "absent") /\ (Left' => Left)
    BY <1>15 DEF Server, Exit, Spawn, HelperEnds, DiesLate, Left
  <2> QED BY <2>1, <2>2, Vanishing
<1> QED BY <1>4, <1>5, <1>6, <1>7, <1>8, <1>9, <1>10, <1>11, <1>12, <1>13, <1>14,
           <1>15 DEF Next, Client

\* The turn the scheduler sees is the one of TurnPromise, whatever the server writes,
\* spawns and leaves behind, and whatever the deadlines.
THEOREM TurnKeepsPromise == Spec => ImplementsPromise
<1>1. Init => Promise!Init
  BY DEF Init, ProcessInit, Promise!Init
<1> QED BY <1>1, InvCorrect, PromiseKept, PTL DEF Spec, ImplementsPromise, Promise!Spec
=============================================================================
