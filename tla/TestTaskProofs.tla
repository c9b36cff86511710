--------------------------- MODULE TestTaskProofs ---------------------------
(***************************************************************************)
(* TestTask for any number of inputs and any behaviour of the hooks: the   *)
(* status stays faithful to the result, and a pause is always noticed.     *)
(***************************************************************************)
EXTENDS TestTask, TLAPS

\* The types the proofs need: what a channel of messages M looks like.
ChannelOf(M) ==
    [buf : Seq(M), op : {"none", "starting", "waiting", "ready"}, got : Seq(M)]

\* Between its creation and its reading the result goes with the coroutine.
ResultInv ==
    /\ result \notin {"none", "pending"} => cpc = "done"
    /\ cached_result # "none" => cpc = "done"
    /\ ResultFaithful

\* A PAUSED task whose coroutine is at its wait for input has a command that
\* the wait will find.
PauseInv ==
    /\ control \in ChannelOf(TaskCommand)
    /\ current_status = "INITIAL" => cpc = "not_started"
    /\ cpc = "input_wait" => control.op # "none"
    /\ cpc \notin {"input_wait", "resume_wait"} => control.op = "none"
    /\ (current_status = "PAUSED" /\ cpc = "input") => control.buf # <<>>
    /\ (current_status = "PAUSED" /\ cpc = "input_wait") =>
         control.op = "ready" \/ (control.op = "starting" /\ control.buf # <<>>)

\* A command that is sent makes the channel non-empty or wakes the receiver.
LEMMA SendFacts ==
  ASSUME NEW M, NEW ch \in ChannelOf(M), NEW m \in M
  PROVE  /\ Send(ch, m) \in ChannelOf(M)
         /\ ch.op = "waiting" => Send(ch, m).op = "ready"
         /\ ch.op # "waiting" => Send(ch, m).op = ch.op /\ Send(ch, m).buf # <<>>
<1>1. CASE ch.op = "waiting"
  <2>1. Send(ch, m) = [buf |-> ch.buf, op |-> "ready", got |-> <<m>>]
    BY <1>1 DEF Send, ChannelOf
  <2>2. QED
    BY <1>1, <2>1 DEF ChannelOf
<1>2. CASE ch.op # "waiting"
  <2>1. Send(ch, m) = [buf |-> Append(ch.buf, m), op |-> ch.op, got |-> ch.got]
    BY <1>2 DEF Send, ChannelOf
  <2>2. ch.buf \in Seq(M)
    BY DEF ChannelOf
  <2>3. Append(ch.buf, m) \in Seq(M) /\ Append(ch.buf, m) # <<>>
    BY <2>2
  <2>4. QED
    BY <1>2, <2>1, <2>3 DEF ChannelOf
<1>3. QED
  BY <1>1, <1>2

\* A receive of async_receive() has a message at once or waits for one.
LEMMA ReceiveFacts ==
  ASSUME NEW M, NEW ch \in ChannelOf(M)
  PROVE  /\ Receive(ch) \in ChannelOf(M)
         /\ Receive(ch).op # "none"
         /\ ch.buf # <<>> => Receive(ch).op = "ready"
BY DEF Receive, ChannelOf

\* A receive that ends, or is only spawned, takes nothing out of the buffer.
LEMMA FinishFacts ==
  ASSUME NEW M, NEW ch \in ChannelOf(M)
  PROVE  /\ Finish(ch) \in ChannelOf(M) /\ Finish(ch).op = "none"
         /\ Spawn(ch) \in ChannelOf(M) /\ Spawn(ch).op = "starting"
         /\ Spawn(ch).buf = ch.buf
<1>1. /\ Finish(ch).buf = ch.buf /\ Finish(ch).op = "none" /\ Finish(ch).got = <<>>
      /\ Finish(ch) \in ChannelOf(M)
  <2> DEFINE c == [ch EXCEPT !.op = "none"]
  <2>1. c \in ChannelOf(M) /\ c.buf = ch.buf /\ c.op = "none"
    BY DEF ChannelOf
  <2>2. Finish(ch) = [c EXCEPT !.got = <<>>]
    BY DEF Finish
  <2> HIDE DEF c
  <2>3. <<>> \in Seq(M)
    OBVIOUS
  <2>4. QED
    BY <2>1, <2>2, <2>3 DEF ChannelOf
<1>2. Spawn(ch) = [buf |-> ch.buf, op |-> "starting", got |-> ch.got]
  BY DEF Spawn, ChannelOf
<1>3. QED
  BY <1>1, <1>2 DEF ChannelOf

USE DEF status, channels, lifetime, taskVars, testVars

\* No call of a user and no step of the coroutine disturbs ResultInv.
LEMMA ResultStep == ResultInv /\ [Next]_vars => ResultInv'
<1> SUFFICES ASSUME ResultInv, [Next]_vars
             PROVE  ResultInv'
  OBVIOUS
<1> USE DEF ResultInv, ResultFaithful, StatusOf
<1>1. CASE UserRun
  BY <1>1 DEF UserRun, Run
<1>2. CASE UserStatus
  BY <1>2 DEF UserStatus, GetCurrentStatus
<1>3. CASE UserCancel
  BY <1>3 DEF UserCancel, Cancel, CancelBody, CancelSends
<1>4. CASE UserDrop
  BY <1>4 DEF UserDrop, DropRef
<1>5. CASE UserSend
  BY <1>5 DEF UserSend, SendInputParameters
<1>6. CASE UserPause
  BY <1>6 DEF UserPause, Pause
<1>7. CASE UserResume \/ EndTask \/ EndTaskFlag \/ EndTaskResume
  BY <1>7 DEF UserResume, EndTask, EndTaskFlag, EndTaskResume, Resume
<1>8. CASE LoopTest \/ CancelTest
  BY <1>8 DEF LoopTest, CancelTest
<1>9. CASE WaitForResume
  BY <1>9 DEF WaitForResume, AsyncWaitForResume, ResumeTest, ResumeReceive,
              ResumeGot, ResumeSetRunning
<1>10. CASE WaitForInput
  BY <1>10 DEF WaitForInput, InputSpawn, InputStart, InputWins, ControlWins
<1>11. CASE CoReturn
  BY <1>11 DEF CoReturn, CoroutineReturns
<1>12. CASE Destructor
  BY <1>12 DEF Destructor, DestructorCancels, CancelBody, CancelSends
<1>13. CASE UNCHANGED vars
  BY <1>13 DEF vars
<1>14. QED
  BY <1>1, <1>2, <1>3, <1>4, <1>5, <1>6, <1>7, <1>8, <1>9, <1>10, <1>11,
     <1>12, <1>13
     DEF Next, Users, EndTaskSteps, Coroutine

\* Once the result has been taken, the status says what the coroutine returned.
THEOREM StatusIsFaithful == Spec => []ResultFaithful
<1>1. Init => ResultInv
  BY DEF Init, TaskInit, ResultInv, ResultFaithful
<1>2. ResultInv => ResultFaithful
  BY DEF ResultInv
<1>3. QED
  BY <1>1, <1>2, ResultStep, PTL DEF Spec

\* No call of a user and no step of the coroutine disturbs PauseInv.
LEMMA PauseStep == PauseInv /\ [Next]_vars => PauseInv'
<1> SUFFICES ASSUME PauseInv, [Next]_vars
             PROVE  PauseInv'
  OBVIOUS
<1> USE DEF PauseInv, TaskCommand
<1>1. CASE UserRun
  BY <1>1 DEF UserRun, Run
<1>2. CASE UserStatus
  BY <1>2 DEF UserStatus, GetCurrentStatus, StatusOf
<1>3. CASE UserCancel
  BY <1>3, SendFacts DEF UserCancel, Cancel, CancelBody, CancelSends
<1>4. CASE UserDrop
  BY <1>4 DEF UserDrop, DropRef
<1>5. CASE UserSend
  BY <1>5 DEF UserSend, SendInputParameters
<1>6. CASE UserPause
  <2>1. CASE control' = Send(control, "PAUSE") /\ current_status' = "PAUSED"
    <3>1. cpc' = cpc
      BY <1>6 DEF UserPause, Pause
    <3>2. /\ control' \in ChannelOf(TaskCommand)
          /\ control.op = "waiting" => control'.op = "ready"
          /\ control.op # "waiting" => control'.op = control.op /\ control'.buf # <<>>
      BY <2>1, SendFacts
    <3>3. current_status # "INITIAL" /\ control.op \in {"none", "starting", "waiting", "ready"}
      BY <1>6, <2>1 DEF UserPause, Pause, ChannelOf
    <3>4. QED
      BY <2>1, <3>1, <3>2, <3>3
  <2>2. CASE UNCHANGED <<control, current_status>>
    BY <1>6, <2>2 DEF UserPause, Pause
  <2>3. QED
    BY <1>6, <2>1, <2>2 DEF UserPause, Pause
<1>7. CASE UserResume \/ EndTask \/ EndTaskFlag \/ EndTaskResume
  <2>1. CASE control' = Send(control, "RESUME")
    BY <1>7, <2>1, SendFacts
       DEF UserResume, EndTask, EndTaskFlag, EndTaskResume, Resume
  <2>2. CASE UNCHANGED control
    BY <1>7, <2>2 DEF UserResume, EndTask, EndTaskFlag, EndTaskResume, Resume
  <2>3. QED
    BY <1>7, <2>1, <2>2
       DEF UserResume, EndTask, EndTaskFlag, EndTaskResume, Resume, SendResume
<1>8. CASE LoopTest \/ CancelTest
  BY <1>8 DEF LoopTest, CancelTest
<1>9. CASE WaitForResume
  <2>1. CASE ResumeTest("input", "return_cancelled")
    BY <2>1 DEF ResumeTest
  <2>2. CASE ResumeReceive
    BY <2>2, ReceiveFacts DEF ResumeReceive
  <2>3. CASE ResumeGot("return_cancelled")
    BY <2>3, FinishFacts DEF ResumeGot
  <2>4. CASE ResumeSetRunning("input", "return_cancelled")
    BY <2>4 DEF ResumeSetRunning
  <2>5. QED
    BY <1>9, <2>1, <2>2, <2>3, <2>4 DEF WaitForResume, AsyncWaitForResume
<1>10. CASE WaitForInput
  BY <1>10, ReceiveFacts, FinishFacts
     DEF WaitForInput, InputSpawn, InputStart, InputWins, ControlWins
<1>11. CASE CoReturn
  BY <1>11 DEF CoReturn, CoroutineReturns
<1>12. CASE Destructor
  BY <1>12, SendFacts DEF Destructor, DestructorCancels, CancelBody, CancelSends
<1>13. CASE UNCHANGED vars
  BY <1>13 DEF vars
<1>14. QED
  BY <1>1, <1>2, <1>3, <1>4, <1>5, <1>6, <1>7, <1>8, <1>9, <1>10, <1>11,
     <1>12, <1>13
     DEF Next, Users, EndTaskSteps, Coroutine

\* The coroutine never waits for input of a paused task without a command on
\* its way.
THEOREM PauseAlwaysNoticed == Spec => []PauseIsNoticed
<1>1. Init => PauseInv
  BY DEF Init, TaskInit, PauseInv, ChannelOf, Empty
<1>2. PauseInv => PauseIsNoticed
  BY DEF PauseInv, PauseIsNoticed
<1>3. QED
  BY <1>1, <1>2, PauseStep, PTL DEF Spec
=============================================================================
