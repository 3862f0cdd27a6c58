--------------------------- MODULE CliAdapter_proofs ---------------------------
(***************************************************************************)
(* Proofs about CliAdapter: for any number of retries and whatever the     *)
(* server does, a call is what CodexCall describes, an answer is never the *)
(* message of a turn that the adapter has stopped in the middle, and a     *)
(* completed turn is not run again without need.                           *)
(***************************************************************************)
EXTENDS CliAdapter, TLAPS

Conversing == {"read", "stop", "wait"}
Ends       == {"completed", "aborted"}

(* An attempt is under way, or there is one left, or none is.              *)
AttemptsInv ==
    /\ pc = "start" => attempt <= Retries
    /\ pc # "start" => attempt > 0
    /\ pc = "failed" => attempt = Retries + 1

(* Only the current attempt has a process, and only while it is talked to  *)
(* or being stopped.                                                       *)
OwnProcess == \A a \in Attempts : Alive(a) => a = attempt /\ pc \in Conversing

(* What the other protocols never touch.                                   *)
KindInv ==
    /\ pc \in Conversing \cup {"settle"} => kind = "app_server"
    /\ pc \in {"post", "shell"} => kind = "local_shell"
    /\ kind # "app_server" => queue = <<>> /\ cut = {}

(* The end of a turn is announced once the server is done with it.         *)
EndsTold == \A i \in 1 .. Len(queue) : queue[i] \in Ends => phase[attempt] \in Ends

(* The adapter stops a process without having failed only when the turn is *)
(* over or the process is gone.                                            *)
StopsInTime ==
    pc = "stop" /\ failure[attempt] = "none" => ~Alive(attempt) \/ phase[attempt] \in Ends

(* An attempt that was cut short has failed.                               *)
CutFails ==
    /\ \A a \in cut : a <= attempt /\ failure[a] # "none"
    /\ NeverCutsShort

AdapterInv ==
    TypeOK /\ AttemptsInv /\ OwnProcess /\ KindInv /\ EndsTold /\ StopsInTime /\ CutFails

(* The adapter starts between attempts with an empty queue.                *)
LEMMA AdapterInit == Init => AdapterInv
<1> SUFFICES ASSUME Init PROVE AdapterInv
  OBVIOUS
<1>1. TypeOK
  <2>1. got \in Got /\ queue \in Seq(Lines)
    BY DEF Init, Got, NothingGot, Messages
  <2>2. attempt \in 0..Retries + 1 /\ items \in 0..MaxItems
    BY AdapterAssumption DEF Init
  <2>3. /\ proc \in [Attempts -> Procs] /\ phase \in [Attempts -> Phases]
        /\ said \in [Attempts -> Messages \cup {"none"}] /\ failure \in [Attempts -> Failures]
    BY DEF Init, Procs, Phases, Messages, Failures
  <2> QED
    BY <2>1, <2>2, <2>3 DEF Init, TypeOK, PCs
<1> QED
  BY <1>1, AdapterAssumption DEF Init, AdapterInv, AttemptsInv, OwnProcess, KindInv, EndsTold,
     StopsInTime, CutFails, NeverCutsShort, Alive, Conversing

(* The number of the next attempt.                                         *)
LEMMA NextAttempt ==
    ASSUME AdapterInv, pc = "start"
    PROVE  /\ attempt + 1 \in Attempts /\ attempt \in Nat
           /\ AfterFailure(attempt + 1) = "start" => attempt + 1 <= Retries
           /\ AfterFailure(attempt + 1) = "failed" => attempt + 1 = Retries + 1
           /\ AfterFailure(attempt + 1) \in {"start", "failed"}
           /\ \A a \in Attempts : ~Alive(a)
  BY AdapterAssumption DEF AdapterInv, TypeOK, AttemptsInv, Attempts, AfterFailure, OwnProcess,
     Conversing

(* The number of the current one.                                          *)
LEMMA ThisAttempt ==
    ASSUME AdapterInv, pc # "start"
    PROVE  /\ attempt \in Attempts /\ attempt \in Nat
           /\ AfterFailure(attempt) = "start" => attempt <= Retries
           /\ AfterFailure(attempt) = "failed" => attempt = Retries + 1
           /\ AfterFailure(attempt) \in {"start", "failed"}
  BY AdapterAssumption DEF AdapterInv, TypeOK, AttemptsInv, Attempts, AfterFailure

(* Launching an attempt keeps the invariant.                               *)
LEMMA LaunchKeeps == AdapterInv /\ Launch => AdapterInv'
<1> SUFFICES ASSUME AdapterInv, Launch PROVE AdapterInv'
  OBVIOUS
<1>1. pc = "start" /\ kind = "app_server" /\ attempt' = attempt + 1 /\ queue' = <<>>
  BY DEF Launch
<1>2. TypeOK'
  <2>1. got' \in Got /\ queue' \in Seq(Lines)
    BY DEF Launch, Got, NothingGot, Messages
  <2>2. attempt' \in 0..Retries + 1 /\ items' \in 0..MaxItems
    BY <1>1, NextAttempt, AdapterAssumption DEF Launch, Attempts
  <2>3. /\ proc' \in [Attempts -> Procs] /\ phase' \in [Attempts -> Phases]
        /\ failure' \in [Attempts -> Failures]
    BY DEF Launch, Raise, AdapterInv, TypeOK, Procs, Phases, Failures
  <2>4. pc' \in PCs
    BY NextAttempt, <1>1 DEF Launch, Raise, PCs
  <2> QED
    BY <2>1, <2>2, <2>3, <2>4 DEF Launch, AdapterInv, TypeOK
<1>3. AttemptsInv' /\ OwnProcess' /\ KindInv' /\ EndsTold'
  BY <1>1, NextAttempt DEF Launch, AdapterInv, TypeOK, Raise, AttemptsInv, OwnProcess, KindInv,
     EndsTold, Alive, Conversing
<1>4. StopsInTime'
  BY <1>1, NextAttempt DEF Launch, AdapterInv, TypeOK, Raise, StopsInTime
<1>5. CutFails'
  <2>1. pc' # "answered" /\ cut' = cut
    BY <1>1, NextAttempt DEF Launch, Raise
  <2>2. ASSUME NEW a \in cut PROVE a <= attempt' /\ failure'[a] # "none"
    <3>1. a \in Attempts /\ a \in Nat /\ a <= attempt /\ failure[a] # "none"
      BY DEF AdapterInv, TypeOK, CutFails, Attempts
    <3>2. a # attempt + 1 /\ a <= attempt + 1
      BY <3>1, <1>1, NextAttempt
    <3> QED
      BY <1>1, <3>1, <3>2 DEF Launch, Raise, AdapterInv, TypeOK
  <2> QED
    BY <2>1, <2>2 DEF CutFails, NeverCutsShort
<1> QED
  BY <1>2, <1>3, <1>4, <1>5 DEF AdapterInv

(* A command and the rounds of the Responses API touch little.             *)
LEMMA OthersKeep ==
    AdapterInv /\ (RunCommand \/ StartRounds \/ Round) => AdapterInv'
<1> SUFFICES ASSUME AdapterInv, RunCommand \/ StartRounds \/ Round PROVE AdapterInv'
  OBVIOUS
<1>1. kind # "app_server" /\ queue = <<>> /\ cut = {}
  BY DEF AdapterInv, KindInv, RunCommand, StartRounds, Round, RoundRaises, ShellCallsAsked,
     ShellCallsRun, RoundAnswers, Kinds
<1>2. UNCHANGED <<kind, got, queue, serverVars, cut>>
  BY DEF RunCommand, StartRounds, Round, RoundRaises, ShellCallsAsked, ShellCallsRun, RoundAnswers,
     historyVars
<1>3. CASE RunCommand \/ StartRounds
  <2>1. TypeOK' /\ AttemptsInv'
    BY <1>1, <1>2, <1>3, NextAttempt DEF AdapterInv, TypeOK, RunCommand, StartRounds, Raise,
       AttemptsInv, Attempts, PCs, Failures, historyVars, serverVars
  <2>2. OwnProcess' /\ KindInv' /\ EndsTold' /\ StopsInTime' /\ CutFails'
    BY <1>1, <1>2, <1>3, NextAttempt DEF AdapterInv, RunCommand, StartRounds, Raise, OwnProcess,
       KindInv, EndsTold, StopsInTime, CutFails, NeverCutsShort, Alive, Conversing, serverVars
  <2> QED
    BY <2>1, <2>2 DEF AdapterInv
<1>4. CASE Round
  <2>1. pc \in {"post", "shell"} /\ attempt' = attempt
    BY <1>4 DEF Round, RoundRaises, ShellCallsAsked, ShellCallsRun, RoundAnswers
  <2>2. TypeOK' /\ AttemptsInv'
    BY <1>1, <1>2, <1>4, <2>1, ThisAttempt DEF AdapterInv, TypeOK, Round, RoundRaises,
       ShellCallsAsked, ShellCallsRun, RoundAnswers, Raise, AttemptsInv, PCs, Failures,
       historyVars, serverVars
  <2>3. OwnProcess' /\ KindInv' /\ EndsTold' /\ StopsInTime' /\ CutFails'
    BY <1>1, <1>2, <1>4, <2>1, ThisAttempt DEF AdapterInv, Round, RoundRaises, ShellCallsAsked,
       ShellCallsRun, RoundAnswers, Raise, OwnProcess, KindInv, EndsTold, StopsInTime, CutFails,
       NeverCutsShort, Alive, Conversing, serverVars, historyVars
  <2> QED
    BY <2>2, <2>3 DEF AdapterInv
<1> QED
  BY <1>3, <1>4

(* Taking a line leaves a queue of lines, and no end that was not there.   *)
LEMMA TakeKeeps ==
    ASSUME AdapterInv, NEW line, Take(line)
    PROVE  /\ queue' \in Seq(Lines)
           /\ Len(queue') \in Nat /\ Len(queue) = Len(queue') + 1
           /\ \A i \in 1 .. Len(queue') : queue'[i] = queue[i + 1]
           /\ queue[1] = line
           /\ line \in Lines
  BY DEF Take, AdapterInv, TypeOK

(* The message loop and the deadline change what the adapter has got, and  *)
(* go on or stop.                                                          *)
LEMMA LoopKeeps ==
    AdapterInv /\ (Receive \/ Timeout) => AdapterInv'
<1> SUFFICES ASSUME AdapterInv, Receive \/ Timeout PROVE AdapterInv'
  OBVIOUS
<1>1. pc = "read" /\ pc' \in {"read", "stop"} /\ Reading
  BY DEF Receive, Timeout, Take, ThreadAnswered, RefusalIgnored, TurnAnswered, MessageArrives,
     TurnEnds, ClientActionRequested, EndOfOutput
<1>2. attempt \in Attempts /\ kind = "app_server"
  BY <1>1, ThisAttempt DEF AdapterInv, KindInv, Conversing
<1>3. /\ failure' \in [Attempts -> Failures]
      /\ \A a \in Attempts : failure'[a] = "none" => failure[a] = "none"
  BY <1>2 DEF AdapterInv, TypeOK, Receive, Timeout, ThreadAnswered, RefusalIgnored, TurnAnswered,
     MessageArrives, TurnEnds, ClientActionRequested, EndOfOutput, Failures
<1>4. got' \in Got
  BY DEF AdapterInv, TypeOK, Receive, Timeout, ThreadAnswered, RefusalIgnored, TurnAnswered,
     MessageArrives, TurnEnds, ClientActionRequested, EndOfOutput, Got, Messages
<1>5. queue' \in Seq(Lines) /\ EndsTold'
  <2>1. CASE Timeout
    BY <2>1, <1>1 DEF Timeout, Reading, AdapterInv, TypeOK, EndsTold, serverVars
  <2>2. CASE Receive
    <3>1. PICK line : Take(line)
      BY <2>2 DEF Receive, ThreadAnswered, RefusalIgnored, TurnAnswered, MessageArrives, TurnEnds,
         ClientActionRequested, EndOfOutput
    <3> QED
      BY <3>1, <1>1, TakeKeeps DEF AdapterInv, EndsTold, Reading, serverVars
  <2> QED
    BY <2>1, <2>2
<1>6. StopsInTime'
  <2> SUFFICES ASSUME pc' = "stop", failure'[attempt] = "none"
               PROVE  ~Alive(attempt) \/ phase[attempt] \in Ends
    BY <1>1 DEF StopsInTime, Reading, serverVars, Alive
  <2>1. TurnEnds \/ EndOfOutput
    BY <1>1, <1>2 DEF AdapterInv, TypeOK, Receive, Timeout, ThreadAnswered, RefusalIgnored,
       TurnAnswered, MessageArrives, ClientActionRequested
  <2>2. CASE TurnEnds
    <3>1. PICK line \in Ends : Take(line)
      BY <2>2 DEF TurnEnds, Ends
    <3>2. queue[1] \in Ends /\ 1 \in 1 .. Len(queue)
      BY <3>1, TakeKeeps
    <3> QED
      BY <3>2 DEF AdapterInv, EndsTold
  <2>3. CASE EndOfOutput
    BY <2>3 DEF EndOfOutput
  <2> QED
    BY <2>1, <2>2, <2>3
<1>7. TypeOK'
  BY <1>1, <1>3, <1>4, <1>5 DEF AdapterInv, TypeOK, Reading, serverVars, PCs
<1>8. AttemptsInv' /\ OwnProcess' /\ KindInv'
  BY <1>1, <1>2 DEF AdapterInv, AttemptsInv, OwnProcess, KindInv, Alive, Conversing, Reading,
     serverVars
<1>9. CutFails'
  BY <1>1, <1>3 DEF AdapterInv, TypeOK, CutFails, NeverCutsShort, Reading, serverVars
<1> QED
  BY <1>5, <1>6, <1>7, <1>8, <1>9 DEF AdapterInv

(* Stopping the process and settling the attempt.                          *)
LEMMA ConcludeKeeps ==
    AdapterInv /\ (Conclude \/ Kill) => AdapterInv'
<1> SUFFICES ASSUME AdapterInv, Conclude \/ Kill PROVE AdapterInv'
  OBVIOUS
<1>1. attempt \in Attempts /\ attempt \in Nat /\ kind = "app_server" /\ pc # "start"
  BY ThisAttempt DEF AdapterInv, KindInv, Conversing, Conclude, Kill, Terminate, Reaped, Settle
<1>2. CASE Terminate
  <2>1. Alive(attempt) /\ phase[attempt] = "working" => failure[attempt] # "none"
    BY <1>2 DEF Terminate, AdapterInv, StopsInTime, Ends
  <2>2. TypeOK' /\ AttemptsInv' /\ KindInv' /\ EndsTold' /\ StopsInTime'
    BY <1>1, <1>2 DEF Terminate, AdapterInv, TypeOK, AttemptsInv, KindInv, EndsTold, StopsInTime,
       PCs, Conversing, serverVars
  <2>3. OwnProcess' /\ CutFails'
    BY <1>1, <1>2, <2>1 DEF Terminate, AdapterInv, OwnProcess, CutFails, NeverCutsShort, Alive,
       Conversing, serverVars
  <2> QED
    BY <2>2, <2>3 DEF AdapterInv
<1>3. CASE Reaped
  BY <1>1, <1>3 DEF Reaped, AdapterInv, TypeOK, AttemptsInv, OwnProcess, KindInv, EndsTold,
     StopsInTime, CutFails, NeverCutsShort, Alive, PCs, Conversing, serverVars, historyVars
<1>4. CASE Settle
  <2>1. /\ failure' \in [Attempts -> Failures]
        /\ \A a \in Attempts : failure'[a] = "none" => failure[a] = "none"
    BY <1>1, <1>4 DEF Settle, Raise, AdapterInv, TypeOK, Failures
  <2>2. pc' \in {"start", "answered", "failed"} /\ (pc' = "answered" => failure[attempt] = "none")
    BY <1>1, <1>4, ThisAttempt DEF Settle, Raise, Successful
  <2>3. TypeOK' /\ AttemptsInv' /\ KindInv' /\ EndsTold' /\ StopsInTime'
    BY <1>1, <1>4, <2>1, <2>2, ThisAttempt DEF Settle, Raise, AdapterInv, TypeOK, AttemptsInv,
       KindInv, EndsTold, StopsInTime, PCs, Conversing, serverVars
  <2>4. OwnProcess'
    BY <1>1, <1>4 DEF Settle, AdapterInv, OwnProcess, Alive, Conversing, serverVars
  <2>5. CutFails'
    BY <1>1, <1>4, <2>1, <2>2 DEF Settle, AdapterInv, TypeOK, CutFails, NeverCutsShort
  <2> QED
    BY <2>3, <2>4, <2>5 DEF AdapterInv
<1>5. CASE Kill
  BY <1>1, <1>5 DEF Kill, AdapterInv, TypeOK, AttemptsInv, OwnProcess, KindInv, EndsTold,
     StopsInTime, CutFails, NeverCutsShort, Alive, Procs, adapterVars, historyVars
<1> QED
  BY <1>2, <1>3, <1>4, <1>5 DEF Conclude

(* A server that sends a line has not ended its turn before, unless the    *)
(* line is the end of its output.                                          *)
LEMMA PutKeeps ==
    ASSUME AdapterInv, NEW line \in Lines, Put(line), attempt' = attempt,
           line \in Ends => phase'[attempt] \in Ends,
           phase[attempt] \in Ends => phase'[attempt] \in Ends
    PROVE  queue' \in Seq(Lines) /\ EndsTold'
<1>1. /\ queue' \in Seq(Lines) /\ Len(queue') = Len(queue) + 1 /\ Len(queue) \in Nat
      /\ \A i \in 1 .. Len(queue) : queue'[i] = queue[i]
      /\ queue'[Len(queue) + 1] = line
  BY DEF Put, AdapterInv, TypeOK
<1>2. ASSUME NEW i \in 1 .. Len(queue'), queue'[i] \in Ends PROVE phase'[attempt] \in Ends
  <2>1. CASE i = Len(queue) + 1
    BY <1>1, <1>2, <2>1
  <2>2. CASE i # Len(queue) + 1
    <3>1. i \in 1 .. Len(queue)
      BY <1>1, <2>2
    <3> QED
      BY <1>1, <1>2, <3>1 DEF AdapterInv, EndsTold
  <2> QED
    BY <2>1, <2>2
<1> QED
  BY <1>1, <1>2 DEF EndsTold

(* So do the steps of the server.                                          *)
LEMMA ServerKeeps == AdapterInv /\ Server => AdapterInv'
<1> SUFFICES ASSUME AdapterInv, Server PROVE AdapterInv'
  OBVIOUS
<1>1. ServerOnly
  BY DEF Server, AnswerThread, AnswerTurn, SendMessage, RequestAction, EndTurn, CloseOutput, Exit,
     ReadEof
<1>2. \A a \in Attempts : Alive(a)' => Alive(a)
  BY DEF Server, AnswerThread, AnswerTurn, SendMessage, RequestAction, EndTurn, CloseOutput, Exit,
     ReadEof, Alive, Up, AdapterInv, TypeOK
<1>3. \A a \in Attempts : phase[a] \in Ends => phase'[a] \in Ends
  BY DEF Server, AnswerThread, AnswerTurn, SendMessage, RequestAction, EndTurn, CloseOutput, Exit,
     ReadEof, Enters, Ends, AdapterInv, TypeOK
<1>4. queue' \in Seq(Lines) /\ EndsTold' /\ (kind # "app_server" => queue' = queue)
  <2>1. CASE CloseOutput \/ Exit
    BY <1>1, <2>1 DEF CloseOutput, Exit, ServerOnly, AdapterInv, TypeOK, EndsTold
  <2>2. CASE ~(CloseOutput \/ Exit)
    <3>1. pc # "start" /\ attempt \in Attempts /\ kind = "app_server"
      <4>1. pc # "start" /\ (Alive(attempt) \/ pc \in Conversing)
        BY <2>2 DEF Server, AnswerThread, AnswerTurn, SendMessage, RequestAction, EndTurn, ReadEof,
           Up, Alive, Conversing
      <4> QED
        BY <4>1, ThisAttempt DEF AdapterInv, OwnProcess, KindInv
    <3>2. PICK line \in Lines : Put(line) /\ (line \in Ends => phase'[attempt] \in Ends)
      <4>1. CASE EndTurn
        BY <4>1, <3>1 DEF EndTurn, Enters, Ends, Lines, AdapterInv, TypeOK
      <4>2. CASE ~EndTurn
        BY <4>2, <2>2 DEF Server, AnswerThread, AnswerTurn, SendMessage, RequestAction, ReadEof,
           Ends, Lines, Messages
      <4> QED
        BY <4>1, <4>2
    <3> QED
      BY <1>1, <1>3, <3>1, <3>2, PutKeeps DEF ServerOnly
  <2> QED
    BY <2>1, <2>2
<1>5. /\ proc' \in [Attempts -> Procs] /\ phase' \in [Attempts -> Phases]
      /\ said' \in [Attempts -> Messages \cup {"none"}] /\ eof' \in BOOLEAN
  BY DEF Server, AnswerThread, AnswerTurn, SendMessage, RequestAction, EndTurn, CloseOutput, Exit,
     ReadEof, Enters, AdapterInv, TypeOK, Procs, Phases
<1>6. items' \in 0..MaxItems
  BY AdapterAssumption DEF Server, AnswerThread, AnswerTurn, SendMessage, RequestAction, EndTurn,
     CloseOutput, Exit, ReadEof, AdapterInv, TypeOK
<1>7. TypeOK'
  BY <1>1, <1>4, <1>5, <1>6 DEF ServerOnly, historyVars, AdapterInv, TypeOK
<1>8. AttemptsInv' /\ OwnProcess' /\ KindInv' /\ CutFails'
  BY <1>1, <1>2, <1>4 DEF ServerOnly, historyVars, AdapterInv, AttemptsInv, OwnProcess, KindInv,
     CutFails, NeverCutsShort
<1>9. StopsInTime'
  <2>1. pc = "stop" => attempt \in Attempts
    BY ThisAttempt
  <2> QED
    BY <1>1, <1>2, <1>3, <2>1 DEF ServerOnly, historyVars, AdapterInv, StopsInTime
<1> QED
  BY <1>4, <1>7, <1>8, <1>9 DEF AdapterInv

(* Every step keeps the invariant.                                         *)
LEMMA AdapterNext == AdapterInv /\ [Next]_vars => AdapterInv'
<1>1. AdapterInv /\ UNCHANGED vars => AdapterInv'
  BY DEF vars, adapterVars, serverVars, historyVars, AdapterInv, TypeOK, AttemptsInv, OwnProcess,
     KindInv, EndsTold, StopsInTime, CutFails, NeverCutsShort, Alive
<1> QED
  BY <1>1, LaunchKeeps, OthersKeep, LoopKeeps, ConcludeKeeps, ServerKeeps DEF Next, Begin

(* The invariant holds throughout.                                         *)
LEMMA AdapterInvariant == Spec => []AdapterInv
  BY AdapterInit, AdapterNext, PTL DEF Spec

(* The state of adapter, server and history is always well typed.          *)
THEOREM AdapterTypes == Spec => []TypeOK
<1>1. AdapterInv => TypeOK
  BY DEF AdapterInv
<1> QED
  BY <1>1, AdapterInvariant, PTL

(* An answer never comes from a turn that the adapter has stopped in the   *)
(* middle, however often it tries.                                         *)
THEOREM AnswersAreWhole == Spec => []NeverCutsShort
<1>1. AdapterInv => NeverCutsShort
  BY DEF AdapterInv, CutFails
<1> QED
  BY <1>1, AdapterInvariant, PTL

-----------------------------------------------------------------------------
(* The refinement of CodexCall.                                            *)

Running == {a \in Attempts : Alive(a)}

(* The initial states map to initial states of the abstract call.          *)
LEMMA CallInit == Init => Call!Init
  BY DEF Init, Call!Init, Alive

(* Nobody sees a step that neither begins nor ends an attempt or process.  *)
LEMMA Unseen ==
    ASSUME attempt' = attempt, Running' = Running,
           pc' \in Over <=> pc \in Over, pc \in Over => pc' = pc
    PROVE  UNCHANGED Call!callVars
  BY DEF Call!callVars, Running, Over

(* Beginning an attempt that is over at once, or leaves its process alone. *)
LEMMA BeginIsCall == AdapterInv /\ Begin => Call!Next
<1> SUFFICES ASSUME AdapterInv, Begin PROVE Call!Next
  OBVIOUS
<1>1. pc = "start" /\ attempt' = attempt + 1 /\ Running = {} /\ attempt < Retries + 1 /\ attempt \in Nat
  BY NextAttempt, AdapterAssumption DEF Begin, Launch, RunCommand, StartRounds, Running, Attempts
<1>2. Running' = {} \/ (Running' = {attempt + 1} /\ pc' = "read")
  BY NextAttempt, <1>1 DEF Begin, Launch, RunCommand, StartRounds, Running, Alive, AdapterInv, TypeOK,
     serverVars, Raise
<1>3. \/ pc' \notin Over
      \/ pc' = "answered" /\ Running' = {}
      \/ pc' = "failed" /\ Running' = {} /\ attempt + 1 = Retries + 1
  BY NextAttempt, <1>1, <1>2 DEF Begin, Launch, RunCommand, StartRounds, Raise, Over
<1>4. CASE pc' \notin Over
  BY <1>1, <1>2, <1>4 DEF Call!Next, Call!Begin, Running, Over
<1>5. CASE pc' = "answered" /\ Running' = {}
  BY <1>1, <1>5 DEF Call!Next, Call!AnswerAtOnce, Running
<1>6. CASE pc' = "failed" /\ Running' = {} /\ attempt + 1 = Retries + 1
  BY <1>1, <1>6 DEF Call!Next, Call!GiveUpAtOnce, Running
<1> QED
  BY <1>3, <1>4, <1>5, <1>6

(* An attempt that is over gives an answer, another attempt or an error.   *)
LEMMA SettleIsCall ==
    ASSUME AdapterInv, Settle \/ Round
    PROVE  Call!Next \/ UNCHANGED Call!callVars
<1>1. /\ pc \in {"settle", "post", "shell"} /\ attempt' = attempt /\ proc' = proc
      /\ pc' \notin Over \/ pc' = "answered" \/ (pc' = "failed" /\ attempt = Retries + 1)
  BY ThisAttempt DEF Settle, Round, RoundRaises, ShellCallsAsked, ShellCallsRun, RoundAnswers, Raise,
     serverVars, Over
<1>2. Running = {} /\ Running' = {} /\ attempt > 0
  BY <1>1 DEF AdapterInv, OwnProcess, AttemptsInv, Conversing, Running, Alive
<1>3. CASE pc' \notin Over
  BY <1>1, <1>2, <1>3, Unseen DEF Over
<1>4. CASE pc' = "answered"
  BY <1>1, <1>2, <1>4 DEF Call!Next, Call!Answer, Running
<1>5. CASE pc' = "failed" /\ attempt = Retries + 1
  BY <1>1, <1>2, <1>5 DEF Call!Next, Call!GiveUp, Running
<1> QED
  BY <1>1, <1>3, <1>4, <1>5

(* The end of a process, by itself or killed.                              *)
LEMMA ExitIsCall ==
    ASSUME AdapterInv, Exit \/ Kill
    PROVE  Call!Next
<1>1. PICK a \in Attempts : Alive(a) /\ proc' = [proc EXCEPT ![a] = "exited"]
  BY ThisAttempt DEF Exit, Kill
<1>2. Running = {a} /\ Running' = {}
  BY <1>1 DEF AdapterInv, TypeOK, OwnProcess, Running, Alive
<1>3. UNCHANGED <<attempt, pc>>
  BY DEF Exit, Kill, ServerOnly, adapterVars
<1> QED
  BY <1>2, <1>3 DEF Call!Next, Call!ProcessEnds, Running

(* Every step maps to a step of the abstract call or to none.              *)
LEMMA CallNext == AdapterInv /\ [Next]_vars => Call!Next \/ UNCHANGED Call!callVars
<1> SUFFICES ASSUME AdapterInv, [Next]_vars PROVE Call!Next \/ UNCHANGED Call!callVars
  OBVIOUS
<1>1. CASE Begin
  BY <1>1, BeginIsCall
<1>2. CASE Settle \/ Round
  BY <1>2, SettleIsCall
<1>3. CASE Exit \/ Kill
  BY <1>3, ExitIsCall
<1>4. CASE Receive \/ Timeout \/ Terminate \/ Reaped
  <2>1. /\ pc \in Conversing /\ pc' \in Conversing \cup {"settle"}
        /\ attempt' = attempt /\ proc' = proc
    BY <1>4 DEF Receive, Timeout, Take, ThreadAnswered, RefusalIgnored, TurnAnswered, MessageArrives,
       TurnEnds, ClientActionRequested, EndOfOutput, Terminate, Reaped, Reading, Conversing, serverVars
  <2> QED
    BY <2>1, Unseen DEF Running, Alive, Conversing, Over
<1>5. CASE Server /\ ~Exit
  <2>1. UNCHANGED <<attempt, pc>>
    BY <1>5 DEF Server, AnswerThread, AnswerTurn, SendMessage, RequestAction, EndTurn, CloseOutput,
       ReadEof, ServerOnly
  <2>2. Running' = Running
    BY <1>5 DEF Server, AnswerThread, AnswerTurn, SendMessage, RequestAction, EndTurn, CloseOutput,
       ReadEof, Running, Alive, Up, AdapterInv, TypeOK
  <2> QED
    BY <2>1, <2>2, Unseen
<1>6. CASE UNCHANGED vars
  BY <1>6, Unseen DEF vars, adapterVars, serverVars, Running, Alive
<1> QED
  BY <1>1, <1>2, <1>3, <1>4, <1>5, <1>6 DEF Next, Conclude

(* For any number of retries the adapter is a call as CodexCall describes  *)
(* it: tries follow one another, no process outlives its try, and the      *)
(* caller gets an answer or, after the last try, an error.                 *)
THEOREM AdapterImplementsCall == Spec => ImplementsCall
<1>1. AdapterInv /\ [Next]_vars => [Call!Next]_(Call!callVars)
  BY CallNext
<1> QED
  BY <1>1, CallInit, AdapterInvariant, PTL DEF Spec, ImplementsCall, Call!Spec

(* The promise follows from CodexCall alone.                               *)
LEMMA CallPromise == ImplementsCall => []Call!Promise /\ Call!OverIsOver
<1>1. Call!Init => Call!Promise
  BY DEF Call!Init, Call!Promise
<1>2. Call!Promise /\ [Call!Next]_(Call!callVars) => Call!Promise'
  BY DEF Call!Next, Call!Begin, Call!ProcessEnds, Call!Answer, Call!AnswerAtOnce, Call!GiveUp,
         Call!GiveUpAtOnce, Call!callVars, Call!Promise
<1>3. Call!Promise /\ [Call!Next]_(Call!callVars) =>
          [(IF pc = "answered" THEN "answer" ELSE IF pc = "failed" THEN "error" ELSE "none")
               = "none"]_(Call!callVars)
  BY DEF Call!Next, Call!Begin, Call!ProcessEnds, Call!Answer, Call!AnswerAtOnce, Call!GiveUp,
         Call!GiveUpAtOnce, Call!callVars, Call!Promise
<1> QED
  BY <1>1, <1>2, <1>3, PTL DEF ImplementsCall, Call!Spec, Call!OverIsOver

(* So when execute has returned or raised, no process that it has started  *)
(* is alive, none but that of the latest attempt ever was at that time,    *)
(* and it raises only after the last attempt.                              *)
THEOREM NothingLeftBehind == Spec => []Call!Promise /\ Call!OverIsOver
  BY AdapterImplementsCall, CallPromise, PTL
-----------------------------------------------------------------------------
(* A completed turn is not run again.                                      *)

(* Nothing comes after the end of the output, no message after the end of  *)
(* the turn, and the thread is answered once.                              *)
QueueOrdered ==
    \A i, j \in 1 .. Len(queue) : i < j =>
        /\ queue[i] # "eof"
        /\ queue[i] \in Ends => queue[j] \notin Messages
        /\ queue[i] # "thread" \/ queue[j] # "thread"

(* What a line that is waiting says of the server and of the adapter.      *)
QueueStates ==
    \A i \in 1 .. Len(queue) :
        /\ queue[i] \in Ends => queue[i] = phase[attempt]
        /\ queue[i] = "eof" => eof
        /\ queue[i] = "thread" => ~got.asked /\ phase[attempt] # "fresh"

(* A turn is at work only after the adapter has asked for it.              *)
TurnAsked ==
    /\ got.asked => got.thread /\ phase[attempt] # "fresh"
    /\ phase[attempt] \in {"working"} \cup Ends => got.asked
    /\ eof => proc[attempt] # "up"

(* The last message of the server has been taken, or is the last to take.  *)
LastSaid ==
    \/ /\ got.final = said[attempt]
       /\ \A i \in 1 .. Len(queue) : queue[i] \notin Messages
    \/ \E i \in 1 .. Len(queue) :
           /\ queue[i] = said[attempt]
           /\ \A j \in 1 .. Len(queue) : i < j => queue[j] \notin Messages

EndWaits ==
    phase[attempt] = "completed" => \E i \in 1 .. Len(queue) : queue[i] = "completed"

Reads ==
    pc = "read" =>
        failure[attempt] = "none" /\ QueueOrdered /\ QueueStates /\ TurnAsked /\ LastSaid /\ EndWaits

(* A call that is stopped without a failure has all of a completed turn.   *)
Stops ==
    pc \in {"stop", "wait", "settle"} /\ failure[attempt] = "none" =>
        /\ ~Alive(attempt) \/ phase[attempt] \in Ends
        /\ phase[attempt] = "completed" /\ said[attempt] = "json" =>
               got.status = "completed" /\ got.thread /\ got.turn /\ got.final = "json"

Rerun == Failures \ {"none", "timeout", "request"}

Kept ==
    \A a \in Attempts :
        /\ failure[a] \in Rerun =>
               ~Alive(a) /\ ~(phase[a] = "completed" /\ said[a] = "json")
        /\ a > attempt => phase[a] = "none" /\ said[a] = "none" /\ failure[a] = "none"
        /\ kind # "app_server" => phase[a] = "none"

TurnInv == Reads /\ Stops /\ Kept

(* Nothing has been said and nothing is waiting at first.                  *)
LEMMA TurnInit == Init => TurnInv
<1> SUFFICES ASSUME Init PROVE TurnInv
  OBVIOUS
<1>1. Reads /\ Stops
  BY DEF Init, Reads, Stops
<1>2. Kept
  BY DEF Init, Kept, Rerun
<1> QED
  BY <1>1, <1>2 DEF TurnInv

(* Launching an attempt starts from an empty queue.                        *)
LEMMA LaunchTurn == AdapterInv /\ TurnInv /\ Launch => TurnInv'
<1> SUFFICES ASSUME AdapterInv, TurnInv, Launch PROVE TurnInv'
  OBVIOUS
<1>1. /\ attempt + 1 \in Attempts /\ attempt' = attempt + 1 /\ attempt \in Nat
      /\ queue' = <<>> /\ got' = NothingGot /\ eof' = FALSE /\ said' = said /\ kind' = kind
      /\ kind = "app_server" /\ \A a \in Attempts : ~Alive(a)
  BY NextAttempt DEF Launch
<1>2. phase[attempt + 1] = "none" /\ said[attempt + 1] = "none" /\ failure[attempt + 1] = "none"
  BY <1>1 DEF TurnInv, Kept
<1>3. /\ proc \in [Attempts -> Procs] /\ phase \in [Attempts -> Phases]
      /\ failure \in [Attempts -> Failures]
  BY DEF AdapterInv, TypeOK
<1>4. CASE Raise(attempt + 1, "spawn") /\ UNCHANGED <<proc, phase>>
  <2>1. pc' \in {"start", "failed"} /\ failure' = [failure EXCEPT ![attempt + 1] = "spawn"]
    BY <1>1, <1>4, NextAttempt DEF Raise, Launch
  <2>2. Kept'
    BY <1>1, <1>2, <1>3, <1>4, <2>1 DEF TurnInv, Kept, Rerun, Alive
  <2> QED
    BY <2>1, <2>2 DEF TurnInv, Reads, Stops
<1>5. CASE ~(Raise(attempt + 1, "spawn") /\ UNCHANGED <<proc, phase>>)
  <2>1. /\ phase' = [phase EXCEPT ![attempt + 1] = "fresh"]
        /\ \/ /\ proc' = [proc EXCEPT ![attempt + 1] = "up"]
              /\ pc' = "read" /\ failure' = failure
           \/ /\ proc' = [proc EXCEPT ![attempt + 1] = "exited"]
              /\ pc' = "stop" /\ failure' = [failure EXCEPT ![attempt + 1] = "pipe"]
    BY <1>5 DEF Launch
  <2>2. Kept'
    BY <1>1, <1>2, <1>3, <2>1 DEF TurnInv, Kept, Rerun, Alive
  <2>3. Reads'
    BY <1>1, <1>2, <1>3, <2>1 DEF Reads, QueueOrdered, QueueStates, TurnAsked, LastSaid, EndWaits,
       NothingGot, Ends
  <2>4. Stops'
    BY <1>1, <1>2, <1>3, <2>1 DEF Stops
  <2> QED
    BY <2>2, <2>3, <2>4 DEF TurnInv
<1> QED
  BY <1>4, <1>5

(* Attempts without a server keep the invariant.                           *)
LEMMA OthersTurn == AdapterInv /\ TurnInv /\ (RunCommand \/ StartRounds \/ Round) => TurnInv'
<1> SUFFICES ASSUME AdapterInv, TurnInv, RunCommand \/ StartRounds \/ Round PROVE TurnInv'
  OBVIOUS
<1>1. /\ kind # "app_server" /\ kind' = kind /\ proc' = proc /\ phase' = phase /\ said' = said
      /\ \A a \in Attempts : phase[a] = "none"
  BY DEF AdapterInv, KindInv, TurnInv, Kept, RunCommand, StartRounds, Round, RoundRaises,
     ShellCallsAsked, ShellCallsRun, RoundAnswers, serverVars
<1>2. pc' \notin {"read", "stop", "wait", "settle"} /\ \A a \in Attempts : ~Alive(a)
  BY NextAttempt, ThisAttempt DEF RunCommand, StartRounds, Round, RoundRaises, ShellCallsAsked,
     ShellCallsRun, RoundAnswers, Raise, AdapterInv, OwnProcess, Conversing
<1>3. /\ attempt' \in {attempt, attempt + 1} /\ attempt \in Nat /\ attempt' \in Attempts
      /\ \A a \in Attempts : failure'[a] # failure[a] => a = attempt'
  BY NextAttempt, ThisAttempt DEF RunCommand, StartRounds, Round, RoundRaises, ShellCallsAsked,
     ShellCallsRun, RoundAnswers, Raise, AdapterInv, TypeOK, historyVars
<1>4. Kept'
  <2> SUFFICES ASSUME NEW a \in Attempts
               PROVE  /\ ~Alive(a)' /\ phase'[a] = "none"
                      /\ a > attempt' => said'[a] = "none" /\ failure'[a] = "none"
    BY <1>1 DEF Kept
  <2>1. a > attempt' => a > attempt /\ a # attempt'
    BY <1>3 DEF Attempts
  <2> QED
    BY <1>1, <1>2, <1>3, <2>1 DEF TurnInv, Kept, Alive
<1> QED
  BY <1>2, <1>4 DEF TurnInv, Reads, Stops

(* What a line that is taken leaves in the queue.                          *)
LEMMA TakenQueue ==
    ASSUME AdapterInv, Reads, NEW line, Take(line), Reading
    PROVE  /\ QueueOrdered'
           /\ got'.asked = got.asked \/ (line = "thread" /\ phase[attempt] # "fresh") => QueueStates'
<1>1. pc = "read"
  BY DEF Take
<1>2. QueueOrdered /\ QueueStates
  BY <1>1 DEF Reads
<1>3. \A i \in 1 .. Len(queue') : i + 1 \in 1 .. Len(queue) /\ queue'[i] = queue[i + 1] /\ 1 < i + 1
  BY TakeKeeps
<1>4. queue[1] = line /\ (Len(queue') > 0 => 1 \in 1 .. Len(queue)) /\ Len(queue') \in Nat
  BY TakeKeeps
<1>5. QueueOrdered'
  <2> SUFFICES ASSUME NEW i \in 1 .. Len(queue'), NEW j \in 1 .. Len(queue'), i < j
               PROVE  /\ queue'[i] # "eof"
                      /\ queue'[i] \in Ends => queue'[j] \notin Messages
                      /\ queue'[i] # "thread" \/ queue'[j] # "thread"
    BY DEF QueueOrdered
  <2>1. i + 1 < j + 1
    OBVIOUS
  <2> QED
    BY <1>2, <1>3, <2>1 DEF QueueOrdered
<1>6. ASSUME got'.asked = got.asked \/ (line = "thread" /\ phase[attempt] # "fresh"),
             NEW i \in 1 .. Len(queue')
      PROVE  /\ queue'[i] \in Ends => queue'[i] = phase[attempt]
             /\ queue'[i] = "eof" => eof
             /\ queue'[i] = "thread" => ~got'.asked /\ phase[attempt] # "fresh"
  <2>1. line # "thread" \/ queue'[i] # "thread"
    <3>1. 1 \in 1 .. Len(queue) /\ i + 1 \in 1 .. Len(queue) /\ 1 < i + 1
      BY <1>3, <1>4
    <3> QED
      BY <1>2, <1>3, <1>4, <3>1 DEF QueueOrdered
  <2> QED
    BY <1>2, <1>3, <1>6, <2>1 DEF QueueStates
<1> QED
  BY <1>5, <1>6 DEF QueueStates, Reading, serverVars

(* A line the adapter reads and records leaves the server's last message   *)
(* taken or waiting.                                                       *)
LEMMA TakenMessage ==
    ASSUME AdapterInv, Reads, NEW line, Take(line), Reading,
           IF line \in Messages THEN got'.final = line ELSE got'.final = got.final
    PROVE  /\ LastSaid'
           /\ line # "completed" => EndWaits'
<1>1. pc = "read" /\ attempt' = attempt /\ said' = said /\ phase' = phase
  BY DEF Take, Reading, serverVars
<1>2. LastSaid /\ EndWaits
  BY <1>1 DEF Reads
<1>3. /\ Len(queue') \in Nat /\ Len(queue) = Len(queue') + 1
      /\ \A i \in 1 .. Len(queue') : queue'[i] = queue[i + 1]
      /\ queue[1] = line
  BY TakeKeeps
<1>4. ASSUME NEW i \in 1 .. Len(queue)
      PROVE  i = 1 \/ (i - 1 \in 1 .. Len(queue') /\ queue'[i - 1] = queue[i])
  BY <1>3
<1>5. \A i \in 1 .. Len(queue') : i + 1 \in 1 .. Len(queue) /\ queue'[i] = queue[i + 1]
  BY <1>3
<1>6. LastSaid'
  <2>1. CASE got.final = said[attempt] /\ \A i \in 1 .. Len(queue) : queue[i] \notin Messages
    <3>1. line \notin Messages
      BY <1>3, <2>1
    <3> QED
      BY <1>1, <1>5, <2>1, <3>1 DEF LastSaid
  <2>2. CASE \E i \in 1 .. Len(queue) : /\ queue[i] = said[attempt]
                                        /\ \A j \in 1 .. Len(queue) : i < j => queue[j] \notin Messages
    <3>1. PICK i \in 1 .. Len(queue) : /\ queue[i] = said[attempt]
                                       /\ \A j \in 1 .. Len(queue) : i < j => queue[j] \notin Messages
      BY <2>2
    <3>2. CASE i = 1
      <4>1. line = said[attempt] /\ line \in Messages
        <5>1. said[attempt] \in Messages \cup {"none"} /\ line \in Lines /\ "none" \notin Lines
          BY <1>1, ThisAttempt, TakeKeeps DEF AdapterInv, TypeOK, Lines, Messages
        <5> QED
          BY <1>3, <3>1, <3>2, <5>1
      <4>2. \A j \in 1 .. Len(queue') : queue'[j] \notin Messages
        <5> SUFFICES ASSUME NEW j \in 1 .. Len(queue') PROVE queue[j + 1] \notin Messages
          BY <1>5
        <5>1. j + 1 \in 1 .. Len(queue) /\ i < j + 1
          BY <1>5, <3>2
        <5> QED
          BY <3>1, <5>1
      <4> QED
        BY <1>1, <4>1, <4>2 DEF LastSaid
    <3>3. CASE i # 1
      <4>1. i - 1 \in 1 .. Len(queue') /\ queue'[i - 1] = said'[attempt']
        BY <1>1, <1>4, <3>1, <3>3
      <4>2. ASSUME NEW j \in 1 .. Len(queue'), i - 1 < j PROVE queue'[j] \notin Messages
        <5>1. i < j + 1 /\ j + 1 \in 1 .. Len(queue)
          BY <1>5, <4>2
        <5> QED
          BY <1>5, <3>1, <5>1
      <4> QED
        BY <4>1, <4>2 DEF LastSaid
    <3> QED
      BY <3>2, <3>3
  <2> QED
    BY <1>2, <2>1, <2>2 DEF LastSaid
<1>7. ASSUME line # "completed", phase[attempt] = "completed"
      PROVE  \E i \in 1 .. Len(queue') : queue'[i] = "completed"
  <2>1. PICK i \in 1 .. Len(queue) : queue[i] = "completed"
    BY <1>2, <1>7 DEF EndWaits
  <2>2. i # 1
    BY <1>3, <1>7, <2>1
  <2> QED
    BY <1>4, <2>1, <2>2
<1> QED
  BY <1>1, <1>6, <1>7 DEF EndWaits

(* The end of a turn that is taken has the last message before it.         *)
LEMMA TakenEnd ==
    ASSUME AdapterInv, Reads, NEW line \in Ends, Take(line)
    PROVE  /\ got.final = said[attempt] /\ phase[attempt] = line
           /\ got.asked /\ got.thread
<1>1. pc = "read" /\ queue[1] = line /\ 1 \in 1 .. Len(queue) /\ line \in Lines
  BY TakeKeeps DEF Take
<1>2. QueueOrdered /\ QueueStates /\ TurnAsked /\ LastSaid
  BY <1>1 DEF Reads
<1>3. phase[attempt] = line
  BY <1>1, <1>2 DEF QueueStates
<1>4. got.asked /\ got.thread
  BY <1>2, <1>3 DEF TurnAsked
<1>5. \A i \in 1 .. Len(queue) : queue[i] \notin Messages
  <2> SUFFICES ASSUME NEW i \in 1 .. Len(queue), queue[i] \in Messages PROVE FALSE
    OBVIOUS
  <2>1. i = 1 \/ 1 < i
    BY <1>1
  <2> QED
    BY <1>1, <1>2, <2>1 DEF QueueOrdered, Ends, Messages
<1>6. got.final = said[attempt]
  <2>1. said[attempt] \in Messages \cup {"none"}
    BY <1>1, ThisAttempt DEF AdapterInv, TypeOK
  <2>2. \A i \in 1 .. Len(queue) : queue[i] # said[attempt]
    <3>1. \A i \in 1 .. Len(queue) : queue[i] \in Lines
      BY DEF AdapterInv, TypeOK
    <3> QED
      BY <1>5, <2>1, <3>1 DEF Lines, Messages
  <2> QED
    BY <1>2, <2>2 DEF LastSaid
<1> QED
  BY <1>3, <1>4, <1>6

(* Where a run of the loop ends with a failure, or the loop goes on, only  *)
(* the invariant of the loop is left to show.                              *)
LEMMA LoopTurn == AdapterInv /\ TurnInv /\ (Receive \/ Timeout) => TurnInv'
<1> SUFFICES ASSUME AdapterInv, TurnInv, Receive \/ Timeout PROVE TurnInv'
  OBVIOUS
<1>1. pc = "read" /\ pc' \in {"read", "stop"} /\ Reading
  BY DEF Receive, Timeout, Take, ThreadAnswered, RefusalIgnored, TurnAnswered, MessageArrives,
     TurnEnds, ClientActionRequested, EndOfOutput
<1>2. /\ attempt \in Attempts /\ attempt' = attempt /\ proc' = proc /\ phase' = phase /\ said' = said
      /\ eof' = eof /\ kind' = kind
  BY <1>1, ThisAttempt DEF Reading, serverVars
<1>3. /\ Reads /\ failure[attempt] = "none" /\ QueueStates /\ TurnAsked /\ EndWaits
      /\ failure \in [Attempts -> Failures] /\ got \in Got
  BY <1>1 DEF TurnInv, Reads, AdapterInv, TypeOK
<1>4. ASSUME failure' = failure \/ failure' = [failure EXCEPT ![attempt] = "timeout"]
                 \/ failure' = [failure EXCEPT ![attempt] = "request"]
                 \/ (/\ failure' = [failure EXCEPT ![attempt] = "pipe"]
                     /\ ~Alive(attempt) /\ phase[attempt] # "completed")
      PROVE  Kept'
  <2> SUFFICES ASSUME NEW a \in Attempts
               PROVE  /\ failure'[a] \in Rerun =>
                             ~Alive(a) /\ ~(phase[a] = "completed" /\ said[a] = "json")
                      /\ a > attempt => phase[a] = "none" /\ said[a] = "none" /\ failure'[a] = "none"
                      /\ kind # "app_server" => phase[a] = "none"
    BY <1>2 DEF Kept, Alive
  <2>1. Kept
    BY DEF TurnInv
  <2>2. CASE a = attempt
    <3>1. failure'[a] \in {"none", "timeout", "request"} \/ (~Alive(a) /\ phase[a] # "completed")
      BY <1>2, <1>3, <1>4, <2>2
    <3>2. ~(a > attempt)
      BY <2>2, <1>2 DEF Attempts
    <3> QED
      BY <2>1, <3>1, <3>2 DEF Kept, Rerun
  <2>3. CASE a # attempt
    <3>1. failure'[a] = failure[a]
      BY <1>2, <1>3, <1>4, <2>3
    <3> QED
      BY <2>1, <3>1 DEF Kept
  <2> QED
    BY <2>2, <2>3
<1>5. CASE Timeout \/ ClientActionRequested
  <2>1. /\ failure' \in {[failure EXCEPT ![attempt] = "timeout"], [failure EXCEPT ![attempt] = "request"]}
        /\ pc' = "stop"
    BY <1>5 DEF Timeout, ClientActionRequested
  <2> QED
    BY <1>2, <1>3, <1>4, <2>1 DEF TurnInv, Reads, Stops
<1>6. CASE ThreadAnswered
  <2>1. /\ Take("thread") /\ "thread" \notin Messages /\ "thread" # "completed"
        /\ got' = [got EXCEPT !.thread = TRUE, !.asked = TRUE]
    BY <1>6 DEF ThreadAnswered, Messages
  <2>2. got'.thread /\ got'.asked /\ got'.final = got.final
    BY <1>3, <2>1 DEF Got
  <2>3. phase[attempt] # "fresh" /\ ~got.asked
    BY <1>3, <2>1, TakeKeeps DEF QueueStates
  <2>4. QueueOrdered' /\ QueueStates'
    BY <1>1, <1>3, <2>1, <2>3, TakenQueue
  <2>5. LastSaid' /\ EndWaits'
    BY <1>1, <1>3, <2>1, <2>2, TakenMessage
  <2>6. TurnAsked'
    BY <1>2, <1>3, <2>2, <2>3 DEF TurnAsked
  <2>7. CASE pc' = pc /\ failure' = failure
    BY <1>1, <1>2, <1>3, <1>4, <2>4, <2>5, <2>6, <2>7 DEF TurnInv, Reads, Stops
  <2>8. CASE ~(pc' = pc /\ failure' = failure)
    <3>1. proc[attempt] = "exited" /\ pc' = "stop" /\ failure' = [failure EXCEPT ![attempt] = "pipe"]
      BY <1>6, <2>8 DEF ThreadAnswered
    <3>2. phase[attempt] # "completed"
      BY <1>3, <2>3 DEF TurnAsked, Ends
    <3> QED
      BY <1>2, <1>3, <1>4, <3>1, <3>2 DEF TurnInv, Reads, Stops, Alive
  <2> QED
    BY <2>7, <2>8
<1>7. CASE RefusalIgnored \/ TurnAnswered \/ MessageArrives
  <2>1. PICK line \in Lines \ {"completed"} :
             /\ Take(line)
             /\ IF line \in Messages THEN got'.final = line ELSE got'.final = got.final
             /\ got'.asked = got.asked /\ got'.thread = got.thread
    BY <1>3, <1>7 DEF RefusalIgnored, TurnAnswered, MessageArrives, Lines, Messages, Got
  <2>2. QueueOrdered' /\ QueueStates'
    BY <1>1, <1>3, <2>1, TakenQueue
  <2>3. LastSaid' /\ EndWaits'
    BY <1>1, <1>3, <2>1, TakenMessage
  <2>4. TurnAsked'
    BY <1>2, <1>3, <2>1 DEF TurnAsked
  <2>5. pc' = pc /\ failure' = failure
    BY <1>7 DEF RefusalIgnored, TurnAnswered, MessageArrives
  <2> QED
    BY <1>1, <1>2, <1>3, <1>4, <2>2, <2>3, <2>4, <2>5 DEF TurnInv, Reads, Stops
<1>8. CASE TurnEnds
  <2>1. PICK line \in Ends : Take(line) /\ got' = [got EXCEPT !.status = line, !.turn = TRUE]
    BY <1>8 DEF TurnEnds, Ends
  <2>2. got.final = said[attempt] /\ phase[attempt] = line /\ got.thread
    BY <1>3, <2>1, TakenEnd
  <2>3. got'.status = line /\ got'.turn /\ got'.final = got.final /\ got'.thread = got.thread
    BY <1>3, <2>1 DEF Got
  <2>4. pc' = "stop" /\ failure' = failure
    BY <1>8 DEF TurnEnds
  <2> QED
    BY <1>2, <1>4, <2>1, <2>2, <2>3, <2>4 DEF TurnInv, Reads, Stops
<1>9. CASE EndOfOutput
  <2>1. Take("eof") /\ "eof" \notin Messages /\ "eof" # "completed" /\ got' = got /\ failure' = failure
    BY <1>9 DEF EndOfOutput, Messages
  <2>2. QueueOrdered' /\ QueueStates' /\ LastSaid' /\ EndWaits'
    BY <1>1, <1>3, <2>1, TakenQueue, TakenMessage
  <2>3. TurnAsked'
    BY <1>2, <1>3, <2>1 DEF TurnAsked
  <2>4. CASE Alive(attempt)
    <3>1. pc' = "read"
      BY <1>9, <2>4 DEF EndOfOutput
    <3> QED
      BY <1>2, <1>3, <1>4, <2>1, <2>2, <2>3, <3>1 DEF TurnInv, Reads, Stops
  <2>5. CASE ~Alive(attempt)
    <3>1. pc' = "stop"
      BY <1>9, <2>5 DEF EndOfOutput
    <3>2. phase[attempt] # "completed"
      <4>1. \A i \in 1 .. Len(queue) : i = 1 \/ 1 < i
        OBVIOUS
      <4>2. queue[1] = "eof" /\ 1 \in 1 .. Len(queue) /\ QueueOrdered
        BY <1>1, <1>3, <2>1, TakeKeeps DEF Reads
      <4>3. \A i \in 1 .. Len(queue) : i = 1
        BY <4>1, <4>2 DEF QueueOrdered
      <4> QED
        BY <1>3, <4>2, <4>3 DEF EndWaits
    <3> QED
      BY <1>2, <1>3, <1>4, <2>1, <2>5, <3>1, <3>2 DEF TurnInv, Reads, Stops, Alive
  <2> QED
    BY <2>4, <2>5
<1> QED
  BY <1>5, <1>6, <1>7, <1>8, <1>9 DEF Receive

(* Killing the process and judging the attempt keep the invariant.         *)
LEMMA ConcludeTurn == AdapterInv /\ TurnInv /\ (Conclude \/ Kill) => TurnInv'
<1> SUFFICES ASSUME AdapterInv, TurnInv, Conclude \/ Kill PROVE TurnInv'
  OBVIOUS
<1>1. /\ attempt \in Attempts /\ attempt \in Nat /\ attempt' = attempt /\ got' = got
      /\ phase' = phase /\ said' = said /\ kind' = kind
      /\ pc \in {"stop", "wait", "settle"} /\ pc' # "read"
  BY ThisAttempt DEF Conclude, Kill, Terminate, Reaped, Settle, Raise, serverVars, adapterVars
<1>2. /\ failure \in [Attempts -> Failures] /\ proc \in [Attempts -> Procs]
      /\ \A a \in Attempts : Alive(a)' => Alive(a)
  BY DEF AdapterInv, TypeOK, Conclude, Kill, Terminate, Reaped, Settle, serverVars, Alive
<1>3. CASE ~Settle
  <2>1. failure' = failure
    BY <1>3 DEF Conclude, Kill, Terminate, Reaped, historyVars
  <2> QED
    BY <1>1, <1>2, <2>1 DEF TurnInv, Reads, Stops, Kept
<1>4. CASE Settle
  <2>1. pc = "settle" /\ proc' = proc /\ pc' \in {"start", "answered", "failed"}
    BY <1>4, ThisAttempt DEF Settle, Raise, serverVars
  <2>2. ~Alive(attempt)
    BY <1>1, <2>1 DEF AdapterInv, OwnProcess, Conversing
  <2>3. failure' = failure \/ (/\ failure' = [failure EXCEPT ![attempt] = "noanswer"]
                               /\ failure[attempt] = "none" /\ ~Successful)
    <3>1. CASE Successful \/ failure[attempt] # "none"
      BY <1>2, <1>4, <3>1 DEF Settle, Raise
    <3>2. CASE ~Successful /\ failure[attempt] = "none"
      BY <1>4, <3>2 DEF Settle, Raise
    <3> QED
      BY <3>1, <3>2
  <2>4. Kept'
    <3>1. CASE failure' = failure
      BY <1>1, <1>2, <3>1 DEF TurnInv, Kept
    <3>2. CASE failure' = [failure EXCEPT ![attempt] = "noanswer"] /\ failure[attempt] = "none" /\ ~Successful
      <4>1. ~(phase[attempt] = "completed" /\ said[attempt] = "json")
        BY <2>1, <3>2 DEF TurnInv, Stops, Successful
      <4> QED
        BY <1>1, <1>2, <2>1, <2>2, <3>2, <4>1 DEF TurnInv, Kept, Alive
    <3> QED
      BY <2>3, <3>1, <3>2
  <2> QED
    BY <2>1, <2>4 DEF TurnInv, Reads, Stops
<1> QED
  BY <1>3, <1>4

(* A line that is put into the queue while the adapter reads it.           *)
LEMMA PutQueue ==
    ASSUME AdapterInv, Reads, pc = "read", NEW line \in Lines, Put(line), ~eof,
           line = "eof" \/ \A i \in 1 .. Len(queue) : queue[i] \notin Ends,
           line = "thread" => \A i \in 1 .. Len(queue) : queue[i] # "thread",
           got' = got, attempt' = attempt,
           IF line \in Messages THEN said'[attempt] = line ELSE said'[attempt] = said[attempt]
    PROVE  /\ QueueOrdered' /\ LastSaid'
           /\ \A i \in 1 .. Len(queue) : queue'[i] = queue[i] /\ i \in 1 .. Len(queue')
           /\ \A i \in 1 .. Len(queue') : i \in 1 .. Len(queue) \/ queue'[i] = line
           /\ Len(queue') \in 1 .. Len(queue') /\ queue'[Len(queue')] = line
<1>1. /\ Len(queue) \in Nat /\ Len(queue') = Len(queue) + 1
      /\ \A i \in 1 .. Len(queue) : queue'[i] = queue[i]
      /\ queue'[Len(queue) + 1] = line
  BY DEF Put, AdapterInv, TypeOK
<1>2. QueueOrdered /\ QueueStates /\ LastSaid
  BY DEF Reads
<1>3. \A i \in 1 .. Len(queue) : queue[i] # "eof"
  BY <1>2 DEF QueueStates
<1>4. \A i \in 1 .. Len(queue') : i \in 1 .. Len(queue) \/ i = Len(queue) + 1
  BY <1>1
<1>5. QueueOrdered'
  <2> SUFFICES ASSUME NEW i \in 1 .. Len(queue'), NEW j \in 1 .. Len(queue'), i < j
               PROVE  /\ queue'[i] # "eof"
                      /\ queue'[i] \in Ends => queue'[j] \notin Messages
                      /\ queue'[i] # "thread" \/ queue'[j] # "thread"
    BY DEF QueueOrdered
  <2>1. i \in 1 .. Len(queue) /\ queue'[i] = queue[i]
    BY <1>1
  <2>2. CASE j \in 1 .. Len(queue)
    BY <1>1, <1>2, <2>1, <2>2 DEF QueueOrdered
  <2>3. CASE j = Len(queue) + 1
    BY <1>1, <1>3, <2>1, <2>3 DEF Messages
  <2> QED
    BY <1>4, <2>2, <2>3
<1>6. LastSaid'
  <2>1. CASE line \in Messages
    <3>1. Len(queue) + 1 \in 1 .. Len(queue') /\ \A j \in 1 .. Len(queue') : ~(Len(queue) + 1 < j)
      BY <1>1
    <3> QED
      BY <1>1, <2>1, <3>1 DEF LastSaid
  <2>2. CASE line \notin Messages
    <3>1. CASE got.final = said[attempt] /\ \A i \in 1 .. Len(queue) : queue[i] \notin Messages
      BY <1>1, <1>4, <2>2, <3>1 DEF LastSaid
    <3>2. CASE \E i \in 1 .. Len(queue) : /\ queue[i] = said[attempt]
                                          /\ \A j \in 1 .. Len(queue) : i < j => queue[j] \notin Messages
      <4>1. PICK i \in 1 .. Len(queue) : /\ queue[i] = said[attempt]
                                         /\ \A j \in 1 .. Len(queue) : i < j => queue[j] \notin Messages
        BY <3>2
      <4>2. i \in 1 .. Len(queue') /\ queue'[i] = said'[attempt']
        BY <1>1, <2>2, <4>1
      <4>3. \A j \in 1 .. Len(queue') : i < j => queue'[j] \notin Messages
        BY <1>1, <1>4, <2>2, <4>1
      <4> QED
        BY <4>2, <4>3 DEF LastSaid
    <3> QED
      BY <1>2, <3>1, <3>2 DEF LastSaid
  <2> QED
    BY <2>1, <2>2
<1> QED
  BY <1>1, <1>4, <1>5, <1>6

(* A server that is up and has sent something new, while it is read.       *)
LEMMA PutTurn ==
    ASSUME AdapterInv, Reads, pc = "read", Up,
           AnswerThread \/ AnswerTurn \/ SendMessage \/ RequestAction \/ EndTurn
    PROVE  QueueOrdered' /\ QueueStates' /\ TurnAsked' /\ LastSaid' /\ EndWaits'
<1>1. /\ attempt \in Attempts /\ attempt' = attempt /\ got' = got /\ eof' = eof /\ proc' = proc
      /\ phase \in [Attempts -> Phases] /\ said \in [Attempts -> Messages \cup {"none"}]
  BY ThisAttempt DEF AnswerThread, AnswerTurn, SendMessage, RequestAction, EndTurn, ServerOnly,
     AdapterInv, TypeOK
<1>2. QueueStates /\ TurnAsked /\ EndWaits /\ proc[attempt] = "up" /\ ~eof
  BY DEF Reads, Up, TurnAsked
<1>3. phase[attempt] \notin Ends /\ \A i \in 1 .. Len(queue) : queue[i] \notin Ends
  <2>1. phase[attempt] \notin Ends
    BY DEF AnswerThread, AnswerTurn, SendMessage, RequestAction, EndTurn, Ends
  <2> QED
    BY <1>2, <2>1 DEF QueueStates
<1>4. PICK line \in Lines :
           /\ Put(line) /\ line # "eof"
           /\ IF line \in Messages THEN said'[attempt] = line ELSE said'[attempt] = said[attempt]
           /\ line = "thread" => phase[attempt] = "fresh"
           /\ IF line \in Ends THEN phase'[attempt] = line ELSE phase'[attempt] \notin Ends
           /\ phase'[attempt] # "fresh"
           /\ phase'[attempt] \in {"working"} \cup Ends => phase[attempt] \in {"threaded", "working"} /\ got.asked
  <2>1. phase[attempt] = "working" => got.asked
    BY <1>2 DEF TurnAsked
  <2>2. CASE AnswerThread
    <3>1. CASE Put("thread") /\ Enters("threaded")
      BY <1>1, <2>2, <3>1 DEF AnswerThread, Enters, Lines, Messages, Ends
    <3>2. CASE Put("refusal") /\ Enters("refused")
      BY <1>1, <2>2, <3>2 DEF AnswerThread, Enters, Lines, Messages, Ends
    <3> QED
      BY <2>2, <3>1, <3>2 DEF AnswerThread
  <2>3. CASE AnswerTurn
    <3>1. CASE Put("turn") /\ Enters("working")
      BY <1>1, <2>3, <3>1 DEF AnswerTurn, Enters, Lines, Messages, Ends
    <3>2. CASE Put("refusal") /\ Enters("refused")
      BY <1>1, <2>3, <3>2 DEF AnswerTurn, Enters, Lines, Messages, Ends
    <3> QED
      BY <2>3, <3>1, <3>2 DEF AnswerTurn
  <2>4. CASE SendMessage
    BY <1>1, <2>1, <2>4 DEF SendMessage, Lines, Messages, Ends
  <2>5. CASE RequestAction
    BY <1>1, <2>1, <2>5 DEF RequestAction, Lines, Messages, Ends
  <2>6. CASE EndTurn
    BY <1>1, <2>1, <2>6 DEF EndTurn, Enters, Lines, Messages, Ends
  <2> QED
    BY <2>2, <2>3, <2>4, <2>5, <2>6
<1>5. line = "thread" => ~got.asked /\ \A i \in 1 .. Len(queue) : queue[i] # "thread"
  BY <1>2, <1>4 DEF QueueStates, TurnAsked
<1>6. /\ QueueOrdered' /\ LastSaid'
      /\ \A i \in 1 .. Len(queue) : queue'[i] = queue[i] /\ i \in 1 .. Len(queue')
      /\ \A i \in 1 .. Len(queue') : i \in 1 .. Len(queue) \/ queue'[i] = line
      /\ Len(queue') \in 1 .. Len(queue') /\ queue'[Len(queue')] = line
  BY <1>1, <1>2, <1>3, <1>4, <1>5, PutQueue
<1>7. QueueStates'
  <2> SUFFICES ASSUME NEW i \in 1 .. Len(queue')
               PROVE  /\ queue'[i] \in Ends => queue'[i] = phase'[attempt]
                      /\ queue'[i] # "eof"
                      /\ queue'[i] = "thread" => ~got.asked /\ phase'[attempt] # "fresh"
    BY <1>1 DEF QueueStates
  <2>1. CASE i \in 1 .. Len(queue)
    BY <1>2, <1>3, <1>4, <1>6, <2>1 DEF QueueStates
  <2>2. CASE queue'[i] = line
    BY <1>4, <1>5, <2>2
  <2> QED
    BY <1>6, <2>1, <2>2
<1>8. TurnAsked'
  BY <1>1, <1>2, <1>4 DEF TurnAsked
<1>9. EndWaits'
  BY <1>1, <1>4, <1>6 DEF EndWaits, Ends
<1> QED
  BY <1>6, <1>7, <1>8, <1>9

(* What the server adds to the queue agrees with what it has done.         *)
LEMMA ServerTurn == AdapterInv /\ TurnInv /\ Server => TurnInv'
<1> SUFFICES ASSUME AdapterInv, TurnInv, Server PROVE TurnInv'
  OBVIOUS
<1>1. /\ attempt' = attempt /\ got' = got /\ kind' = kind /\ pc' = pc /\ failure' = failure
      /\ proc \in [Attempts -> Procs] /\ phase \in [Attempts -> Phases]
      /\ said \in [Attempts -> Messages \cup {"none"}]
  BY DEF Server, AnswerThread, AnswerTurn, SendMessage, RequestAction, EndTurn, CloseOutput, Exit,
     ReadEof, ServerOnly, historyVars, AdapterInv, TypeOK
<1>2. CASE AnswerThread \/ AnswerTurn \/ SendMessage \/ RequestAction \/ EndTurn
  <2>1. Up /\ proc' = proc /\ phase[attempt] \notin Ends /\ phase[attempt] # "none"
    BY <1>2 DEF AnswerThread, AnswerTurn, SendMessage, RequestAction, EndTurn, Ends
  <2>2. attempt \in Attempts /\ attempt \in Nat /\ Alive(attempt) /\ kind = "app_server"
    <3>1. pc # "start" /\ Alive(attempt)
      BY <2>1 DEF Up, Alive
    <3> QED
      BY <3>1, ThisAttempt DEF AdapterInv, OwnProcess, KindInv
  <2>3. \A a \in Attempts : a # attempt => phase'[a] = phase[a] /\ said'[a] = said[a]
    BY <1>1, <1>2 DEF AnswerThread, AnswerTurn, SendMessage, RequestAction, EndTurn, Enters
  <2>4. Kept'
    <3> SUFFICES ASSUME NEW a \in Attempts
                 PROVE  /\ failure[a] \in Rerun =>
                               ~Alive(a) /\ ~(phase'[a] = "completed" /\ said'[a] = "json")
                        /\ a > attempt => phase'[a] = "none" /\ said'[a] = "none" /\ failure[a] = "none"
      BY <1>1, <2>1, <2>2 DEF Kept, Alive
    <3>1. Kept
      BY DEF TurnInv
    <3>2. CASE a = attempt
      BY <2>2, <3>1, <3>2 DEF Kept
    <3>3. CASE a # attempt
      BY <2>3, <3>1, <3>3 DEF Kept
    <3> QED
      BY <3>2, <3>3
  <2>5. Stops'
    BY <1>1, <2>1, <2>2 DEF TurnInv, Stops
  <2>6. Reads'
    BY <1>1, <1>2, <2>1, PutTurn DEF TurnInv, Reads
  <2> QED
    BY <2>4, <2>5, <2>6 DEF TurnInv
<1>3. CASE CloseOutput \/ Exit
  <2>1. /\ phase' = phase /\ said' = said /\ eof' = eof /\ queue' = queue
        /\ \A a \in Attempts : /\ Alive(a)' => Alive(a)
                               /\ proc'[a] = "up" => proc[a] = "up"
    BY <1>1, <1>3 DEF CloseOutput, Exit, Up, Alive
  <2>2. Kept'
    BY <1>1, <2>1 DEF TurnInv, Kept
  <2>3. pc \in {"read", "stop", "wait", "settle"} => attempt \in Attempts
    BY ThisAttempt
  <2>4. Stops'
    BY <1>1, <2>1, <2>3 DEF TurnInv, Stops
  <2>5. Reads'
    BY <1>1, <2>1, <2>3 DEF TurnInv, Reads, QueueOrdered, QueueStates, TurnAsked, LastSaid, EndWaits
  <2> QED
    BY <2>2, <2>4, <2>5 DEF TurnInv
<1>4. CASE ReadEof
  <2>1. /\ ~eof /\ eof' = TRUE /\ Put("eof") /\ proc[attempt] # "up"
        /\ proc' = proc /\ phase' = phase /\ said' = said
    BY <1>4 DEF ReadEof
  <2>2. Kept' /\ Stops'
    BY <1>1, <2>1 DEF TurnInv, Kept, Stops, Alive
  <2>3. ASSUME pc = "read" PROVE Reads'
    <3>1. Reads /\ QueueStates /\ TurnAsked /\ EndWaits /\ failure[attempt] = "none"
      BY <2>3 DEF TurnInv, Reads
    <3>2. "eof" \in Lines /\ "eof" \notin Messages /\ "eof" # "thread" /\ "eof" \notin Ends
      BY DEF Lines, Messages, Ends
    <3>3. /\ QueueOrdered' /\ LastSaid'
          /\ \A i \in 1 .. Len(queue) : queue'[i] = queue[i] /\ i \in 1 .. Len(queue')
          /\ \A i \in 1 .. Len(queue') : i \in 1 .. Len(queue) \/ queue'[i] = "eof"
      BY <1>1, <2>1, <2>3, <3>1, <3>2, PutQueue
    <3>4. QueueStates'
      BY <1>1, <2>1, <3>1, <3>2, <3>3 DEF QueueStates
    <3>5. TurnAsked' /\ EndWaits'
      BY <1>1, <2>1, <3>1, <3>3 DEF TurnAsked, EndWaits
    <3> QED
      BY <1>1, <3>1, <3>3, <3>4, <3>5 DEF Reads
  <2> QED
    BY <1>1, <2>2, <2>3 DEF TurnInv, Reads
<1> QED
  BY <1>2, <1>3, <1>4 DEF Server

(* The invariant holds throughout.                                         *)
LEMMA TurnInvariant == Spec => []TurnInv
<1>1. TurnInv /\ UNCHANGED vars => TurnInv'
  BY DEF vars, adapterVars, serverVars, historyVars, TurnInv, Reads, QueueOrdered, QueueStates,
     TurnAsked, LastSaid, EndWaits, Stops, Kept, Alive
<1>2. AdapterInv /\ TurnInv /\ [Next]_vars => TurnInv'
  BY <1>1, LaunchTurn, OthersTurn, LoopTurn, ConcludeTurn, ServerTurn DEF Next, Begin
<1> QED
  BY TurnInit, <1>2, AdapterInvariant, PTL DEF Spec

(* Whatever the server does and however often the call is tried: a turn    *)
(* that was completed and left a readable answer is run again only if the  *)
(* deadline passed first or the server had asked for a client action.      *)
THEOREM GoodTurnsAreKept == Spec => []GoodTurnKept
<1>1. AdapterInv /\ TurnInv => GoodTurnKept
  BY DEF AdapterInv, TypeOK, TurnInv, Kept, Rerun, GoodTurnKept
<1> QED
  BY <1>1, AdapterInvariant, TurnInvariant, PTL
=============================================================================
