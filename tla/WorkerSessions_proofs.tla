------------------------- MODULE WorkerSessions_proofs -------------------------
(***************************************************************************)
(* Proofs about WorkerSessions, for any number of sessions, conversations, *)
(* notes, threads and handlers and any limits.                             *)
(***************************************************************************)
EXTENDS WorkerSessions, SharedGoal_proofs

-----------------------------------------------------------------------------
(* Types                                                                   *)

(* A thread or a handler that has begun is at work on a session.           *)
AtWork ==
    /\ \A t \in Threads : pc[t] # "idle" => sid[t] # NoSession
    /\ \A h \in Handlers : hpc[h] # "idle" => target[h] # NoSession
    /\ \A h \in Handlers : hpc[h] = "superseded" => old[h] # NoSession

WorkTypeOK == TypeOK /\ AtWork

(* The finite sets of names, written out.                                  *)
LEMMA Literals ==
    /\ Methods = {"create", "set_verdict", "write_gemini", "write_codex",
                  "update_input", "supersede", "read"}
    /\ Status = {"planning", "executing", "reviewing", "waiting_user", "completed",
                 "failed", "canceled"}
    /\ {} \in SUBSET Notes
  BY DEF Methods, Status, InProgress, Terminal

(* A caller enters one of the methods there are for a created session; a   *)
(* run has no use for two of them.                                         *)
RunCalls(a, s) ==
    \/ \E m \in {"set_verdict", "write_gemini"}, st \in Status : Enter(a, m, s, st, {})
    \/ \E m \in {"write_codex", "read"} : Enter(a, m, s, "planning", {})

Calls(a, s) ==
    \/ RunCalls(a, s)
    \/ Enter(a, "supersede", s, "planning", {})
    \/ \E ns \in SUBSET Notes : Enter(a, "update_input", s, "planning", ns)

(* What process_session may do to the files: enter a method on its own     *)
(* session, save the request, or nothing.                                  *)
LEMMA ThreadFiles ==
    ASSUME WorkTypeOK, NEW t \in Threads, ThreadStep(t)
    PROVE  /\ t \in Actors /\ sid[t] \in Sessions /\ UNCHANGED handlerVars
           /\ \/ RunCalls(t, sid[t])
              \/ SaveRequest(sid[t], noted[sid[t]]) /\ UNCHANGED <<doc, active, call>>
              \/ UNCHANGED sharedVars
<1>1. /\ GeminiState(t) \in Status
      /\ \A v \in Verdicts : FinalState(v) \in Status
      /\ verdict[t] \in Verdicts
  BY Literals DEF WorkTypeOK, TypeOK, ThreadTypeOK, GeminiState, FinalState
<1>2. pc[t] # "idle" /\ UNCHANGED handlerVars
  BY DEF ThreadStep, At, ThreadOnly, BeginRun, RefreshBegun, PrepareRun, PrepareRaises,
         TurnsExhausted, ObserveCancel, StartTurn, AskGemini, GeminiAnswers, ReviseGoal,
         WriteAnswer, RefreshAnswer, Conclude, StartExecution, InstructCodex, CodexAnswers,
         AdapterRaises, RefreshTurn, FailuresExceeded, NextTurn, Finish, RecordError,
         RefreshError, EndRun
<1>3. t \in Actors /\ sid[t] \in Sessions
  BY <1>2, WorkerAssumption DEF WorkTypeOK, TypeOK, AtWork, ThreadTypeOK
<1>4. CASE \/ BeginRun(t) \/ TurnsExhausted(t) \/ StartTurn(t) \/ WriteAnswer(t) \/ Conclude(t)
           \/ StartExecution(t) \/ CodexAnswers(t) \/ FailuresExceeded(t) \/ RecordError(t)
  BY <1>1, <1>2, <1>3, <1>4, Literals
  DEF BeginRun, TurnsExhausted, StartTurn, WriteAnswer, Conclude, StartExecution,
      CodexAnswers, FailuresExceeded, RecordError, RunCalls
<1>5. CASE \/ RefreshBegun(t) \/ RefreshAnswer(t) \/ RefreshTurn(t) \/ Finish(t)
           \/ RefreshError(t)
  BY <1>2, <1>3, <1>5, Literals
  DEF RefreshBegun, RefreshAnswer, RefreshTurn, Finish, RefreshError, RunCalls
<1>6. CASE ReviseGoal(t)
  BY <1>2, <1>3, <1>6 DEF ReviseGoal
<1>7. CASE \/ PrepareRun(t) \/ PrepareRaises(t) \/ ObserveCancel(t) \/ AskGemini(t)
           \/ GeminiAnswers(t) \/ InstructCodex(t) \/ AdapterRaises(t) \/ NextTurn(t) \/ EndRun(t)
  BY <1>2, <1>3, <1>7
  DEF PrepareRun, PrepareRaises, ObserveCancel, AskGemini, GeminiAnswers, InstructCodex,
      AdapterRaises, NextTurn, EndRun
<1> QED
  BY <1>4, <1>5, <1>6, <1>7 DEF ThreadStep

(* Entering such a method keeps the types of the files and of the calls.   *)
LEMMA CallsType ==
    ASSUME SharedTypeOK, NEW a \in Actors, NEW s \in Sessions, Calls(a, s)
    PROVE  SharedTypeOK'
<1>1. PICK m \in Methods, st \in Status, ns \in SUBSET Notes : Enter(a, m, s, st, ns)
  BY Literals DEF Calls, RunCalls
<1> QED
  BY <1>1, EnterType

(* The steps of process_session keep the types.                            *)
LEMMA ThreadStepType ==
    ASSUME WorkTypeOK, NEW t \in Threads, ThreadStep(t)
    PROVE  WorkTypeOK'
<1> USE DEF ThreadStep, BeginRun, RefreshBegun, PrepareRun, PrepareRaises, TurnsExhausted,
            ObserveCancel, StartTurn, AskGemini, GeminiAnswers, ReviseGoal, WriteAnswer,
            RefreshAnswer, Conclude, StartExecution, InstructCodex, CodexAnswers, AdapterRaises,
            RefreshTurn, FailuresExceeded, NextTurn, Finish, RecordError, RefreshError, EndRun
<1> USE DEF WorkTypeOK, TypeOK
<1>1. t \in Actors /\ sid[t] \in Sessions /\ UNCHANGED handlerVars
  BY ThreadFiles
<1>2. SharedTypeOK'
  <2>1. CASE RunCalls(t, sid[t])
    <3> HIDE DEF ThreadStep
    <3> QED BY <1>1, <2>1, CallsType DEF Calls
  <2>2. CASE SaveRequest(sid[t], noted[sid[t]]) /\ UNCHANGED <<doc, active, call>>
    <3> HIDE DEF ThreadStep
    <3> QED BY <1>1, <2>2 DEF SaveRequest, SharedTypeOK, RuntimeTypeOK
  <2>3. CASE UNCHANGED sharedVars
    <3> HIDE DEF ThreadStep
    <3> QED BY <2>3 DEF SharedTypeOK, sharedVars
  <2> HIDE DEF ThreadStep
  <2> QED BY <2>1, <2>2, <2>3, ThreadFiles
<1>3. ThreadTypeOK'
  <2>1. pc' \in [Threads -> ThreadPCs]
    BY DEF Go, Die, ThreadPCs, ThreadTypeOK
  <2>2. sid' \in [Threads -> Sessions \cup {NoSession}] /\ turn' \in [Threads -> Nat]
    BY DEF Die, ThreadTypeOK
  <2>3. failures' \in [Threads -> Nat]
    BY <1>1 DEF Die, ThreadTypeOK, RuntimeTypeOK
  <2>4. verdict' \in [Threads -> Verdicts]
    BY DEF Die, Verdicts, ThreadTypeOK
  <2> QED
    BY <2>1, <2>2, <2>3, <2>4 DEF ThreadTypeOK
<1>4. RuntimeTypeOK'
  <2>1. \A v \in Verdicts : FinalState(v) \in Status
    BY Literals DEF FinalState
  <2> QED
    BY <1>1, <2>1, Literals DEF runtimeVars, RuntimeTypeOK, ThreadTypeOK
<1>5. HistoryTypeOK'
  BY <1>1 DEF CountLate, historyVars, RuntimeTypeOK, HistoryTypeOK
<1>6. AtWork'
  BY <1>1 DEF At, Go, Die, handlerVars, ThreadTypeOK, AtWork
<1>7. HandlerTypeOK'
  BY <1>1 DEF HandlerTypeOK, handlerVars
<1> QED
  BY <1>2, <1>3, <1>4, <1>5, <1>6, <1>7

(* What a request may do to the files: enter a method on a session, save   *)
(* the request, clear an entry, or nothing.                                *)
LEMMA HandlerFiles ==
    ASSUME WorkTypeOK, NEW h \in Handlers, HandlerStep(h) \/ Request(h)
    PROVE  /\ h \in Actors
           /\ \/ \E m \in Methods, s \in Sessions, st \in Status, ns \in SUBSET Notes :
                     Enter(h, m, s, st, ns)
              \/ /\ \E s \in Sessions : SaveRequest(s, noted[s])
                 /\ UNCHANGED <<doc, active, call>>
              \/ /\ \E s \in Sessions : ClearActive(s)
                 /\ UNCHANGED <<doc, req, call>>
              \/ UNCHANGED sharedVars
<1>1. h \in Actors
  BY WorkerAssumption
<1>2. /\ hpc[h] # "idle" => target[h] \in Sessions
      /\ old[h] # NoSession => old[h] \in Sessions
      /\ hpc[h] = "superseded" => old[h] \in Sessions
  BY DEF WorkTypeOK, TypeOK, AtWork, HandlerTypeOK
<1>3. CASE \/ Supersede(h) \/ RefreshSuperseded(h) \/ MakeSession(h) \/ RefreshContinued(h)
           \/ RefreshCanceled(h)
  BY <1>1, <1>2, <1>3, Literals
  DEF HAt, Supersede, RefreshSuperseded, MakeSession, RefreshContinued, RefreshCanceled
<1>4. CASE StoreRequest(h)
  BY <1>1, <1>2, <1>4 DEF HAt, StoreRequest
<1>5. CASE SupersedeUnknown(h) \/ SupersedeEnded(h) \/ UnmapCanceled(h)
  BY <1>1, <1>2, <1>5 DEF HAt, SupersedeUnknown, SupersedeEnded, UnmapCanceled
<1>6. CASE \/ NothingToSupersede(h) \/ RegisterSession(h) \/ ResumeSession(h) \/ LeaveNote(h)
           \/ AlreadyProcessing(h) \/ NotProcessing(h) \/ (\E t \in Threads : StartThread(h, t))
  BY <1>1, <1>6
  DEF NothingToSupersede, RegisterSession, ResumeSession, LeaveNote, AlreadyProcessing,
      NotProcessing, StartThread
<1>7. CASE Request(h)
  <2>1. ASSUME NEW s \in Sessions, NEW n \in Notes, BeginContinue(h, s, n)
        PROVE  Enter(h, "update_input", s, "planning", {n}) /\ {n} \in SUBSET Notes
    BY <2>1 DEF BeginContinue
  <2> QED
    BY <1>1, <1>7, <2>1, Literals DEF Request, BeginCreate, BeginCancel
<1> QED
  BY <1>3, <1>4, <1>5, <1>6, <1>7 DEF HandlerStep

(* The steps of requests keep the types.                                   *)
LEMMA HandlerStepType ==
    ASSUME WorkTypeOK, NEW h \in Handlers, HandlerStep(h) \/ Request(h)
    PROVE  WorkTypeOK'
<1> USE DEF HandlerStep, Request, NothingToSupersede, SupersedeUnknown, SupersedeEnded,
            Supersede, RefreshSuperseded, MakeSession, RegisterSession, StoreRequest,
            RefreshContinued, ResumeSession, LeaveNote, AlreadyProcessing, NotProcessing,
            StartThread, UnmapCanceled, RefreshCanceled, BeginCreate, BeginContinue, BeginCancel
<1> USE DEF WorkTypeOK, TypeOK
<1>1. SharedTypeOK'
  <2> HIDE DEF HandlerStep, Request
  <2>1. CASE \E m \in Methods, s \in Sessions, st \in Status, ns \in SUBSET Notes :
                 Enter(h, m, s, st, ns)
    BY <2>1, HandlerFiles, EnterType
  <2>2. CASE (\E s \in Sessions : SaveRequest(s, noted[s])) /\ UNCHANGED <<doc, active, call>>
    BY <2>2 DEF SaveRequest, SharedTypeOK, RuntimeTypeOK
  <2>3. CASE (\E s \in Sessions : ClearActive(s)) /\ UNCHANGED <<doc, req, call>>
    BY <2>3 DEF ClearActive, Unmapped, SharedTypeOK
  <2>4. CASE UNCHANGED sharedVars
    BY <2>4 DEF SharedTypeOK, sharedVars
  <2> QED
    BY <2>1, <2>2, <2>3, <2>4, HandlerFiles
<1>2. HandlerTypeOK'
  <2>1. hpc' \in [Handlers -> HandlerPCs] /\ lock' \in SUBSET Handlers
    BY DEF HGo, Reply, HandlerPCs, HandlerTypeOK
  <2>2. target' \in [Handlers -> Sessions \cup {NoSession}]
    BY DEF Reply, HandlerTypeOK
  <2>3. old' \in [Handlers -> Sessions \cup {NoSession}]
    BY SharedGoalAssumption DEF Reply, HandlerTypeOK, SharedTypeOK
  <2> QED
    BY <2>1, <2>2, <2>3 DEF HandlerTypeOK
<1>3. ThreadTypeOK'
  <2>1. \/ UNCHANGED threadVars
        \/ \E t \in Threads : StartThread(h, t) /\ target[h] # NoSession
    BY DEF HandlerOnly, HAt, AtWork
  <2>2. CASE UNCHANGED threadVars
    <3> HIDE DEF HandlerStep, Request
    <3> QED BY <2>2 DEF threadVars, ThreadTypeOK
  <2>3. ASSUME NEW t \in Threads, StartThread(h, t) PROVE ThreadTypeOK'
    <3> HIDE DEF HandlerStep, Request
    <3> QED BY <2>3 DEF Go, ThreadTypeOK, ThreadPCs, HandlerTypeOK
  <2> HIDE DEF HandlerStep, Request
  <2> QED BY <2>1, <2>2, <2>3
<1>4. RuntimeTypeOK'
  <2>1. mem' \in [Sessions -> Status \cup {"absent"}]
    BY Literals DEF runtimeVars, RuntimeTypeOK
  <2>2. noted' \in [Sessions -> SUBSET Notes]
    <3>1. \/ noted' = noted
          \/ \E s \in Sessions, n \in Notes : noted' = [noted EXCEPT ![s] = @ \cup {n}]
      BY DEF runtimeVars
    <3> HIDE DEF HandlerStep, Request
    <3> QED BY <3>1 DEF RuntimeTypeOK
  <2>3. processing' \in [Sessions -> BOOLEAN]
    BY DEF runtimeVars, RuntimeTypeOK
  <2>4. cancel' \in [Sessions -> BOOLEAN]
    BY DEF runtimeVars, RuntimeTypeOK
  <2>5. UNCHANGED <<hasTurns, carried>>
    BY DEF runtimeVars
  <2> HIDE DEF HandlerStep, Request
  <2> QED BY <2>1, <2>2, <2>3, <2>4, <2>5 DEF RuntimeTypeOK
<1>5. HistoryTypeOK'
  <2>1. seen' = seen
    BY DEF historyVars
  <2>2. stopped' \in [Sessions -> BOOLEAN]
    <3>1. stopped' = stopped \/ \E s : \E b \in BOOLEAN : stopped' = [stopped EXCEPT ![s] = b]
      BY DEF historyVars
    <3> HIDE DEF HandlerStep, Request
    <3> QED BY <3>1 DEF HistoryTypeOK
  <2>3. late' \in [Sessions -> Nat]
    <3>1. late' = late \/ \E s : late' = [late EXCEPT ![s] = 0]
      BY DEF historyVars
    <3> HIDE DEF HandlerStep, Request
    <3> QED BY <3>1 DEF HistoryTypeOK
  <2>4. stops' \in Nat
    <3>1. stops' = stops \/ stops' = stops + 1
      BY DEF historyVars
    <3> HIDE DEF HandlerStep, Request
    <3> QED BY <3>1 DEF HistoryTypeOK
  <2> HIDE DEF HandlerStep, Request
  <2> QED BY <2>1, <2>2, <2>3, <2>4 DEF HistoryTypeOK
<1>6. AtWork'
  <2>1. \A t \in Threads : pc'[t] # "idle" => sid'[t] # NoSession
    <3>1. \/ UNCHANGED threadVars
          \/ \E t \in Threads : StartThread(h, t) /\ target[h] # NoSession
      BY DEF HandlerOnly, HAt, AtWork
    <3> HIDE DEF HandlerStep, Request
    <3> QED BY <3>1 DEF Go, threadVars, ThreadTypeOK, AtWork
  <2>2. \A g \in Handlers : g # h => hpc'[g] = hpc[g] /\ target'[g] = target[g] /\ old'[g] = old[g]
    BY DEF HGo, Reply, HandlerTypeOK
  <2>3. /\ hpc'[h] # "idle" => target'[h] # NoSession
        /\ hpc'[h] = "superseded" => old'[h] # NoSession
    <3>1. CASE HandlerStep(h)
      <4>1. hpc'[h] # "idle" => target'[h] = target[h] /\ hpc[h] # "idle"
        BY <3>1 DEF HAt, HGo, Reply, HandlerTypeOK
      <4>2. hpc'[h] = "superseded" => old'[h] = old[h] /\ old[h] # NoSession
        BY <3>1 DEF HAt, HGo, Reply, HandlerTypeOK
      <4> HIDE DEF HandlerStep, Request
      <4> QED BY <4>1, <4>2 DEF AtWork
    <3>2. CASE Request(h)
      <4> HIDE DEF HandlerStep, Request
      <4>1. ASSUME NEW s \in Sessions, BeginCreate(h, s) \/ BeginCancel(h, s)
            PROVE  hpc'[h] # "superseded" /\ target'[h] = s
        BY <4>1 DEF HGo, HandlerTypeOK
      <4>2. ASSUME NEW s \in Sessions, NEW n \in Notes, BeginContinue(h, s, n)
            PROVE  hpc'[h] # "superseded" /\ target'[h] = s
        BY <4>2 DEF HGo, HandlerTypeOK
      <4>3. NoSession \notin Sessions
        BY DEF Sessions, NoSession
      <4> QED BY <3>2, <4>1, <4>2, <4>3 DEF Request
    <3> HIDE DEF HandlerStep, Request
    <3> QED BY <3>1, <3>2
  <2> HIDE DEF HandlerStep, Request
  <2> QED BY <2>1, <2>2, <2>3 DEF AtWork
<1> QED
  BY <1>1, <1>2, <1>3, <1>4, <1>5, <1>6

(* The service keeps the types.                                            *)
LEMMA ServiceType ==
    ASSUME WorkTypeOK, NEW a \in Actors, Serve(a) \/ AssignSummary(a)
    PROVE  WorkTypeOK'
<1>1. SharedTypeOK'
  BY ProgressType, ReturnType DEF Serve, AssignSummary, WorkTypeOK, TypeOK
<1>2. RuntimeTypeOK'
  BY DEF Serve, AssignSummary, WorkTypeOK, TypeOK, SharedTypeOK, RuntimeTypeOK, runtimeVars,
         Call, Document
<1>3. ThreadTypeOK' /\ HandlerTypeOK' /\ HistoryTypeOK' /\ AtWork'
  BY DEF Serve, AssignSummary, WorkTypeOK, TypeOK, ThreadTypeOK, HandlerTypeOK, HistoryTypeOK,
         AtWork, threadVars, handlerVars, historyVars
<1> QED
  BY <1>1, <1>2, <1>3 DEF WorkTypeOK, TypeOK

(* The manager starts with well typed state and with nobody at work.       *)
LEMMA InitType == Init => WorkTypeOK
  BY SharedInitType
  DEF Init, WorkTypeOK, TypeOK, AtWork, RuntimeTypeOK, ThreadTypeOK, HandlerTypeOK,
      HistoryTypeOK, ThreadPCs, HandlerPCs, Verdicts, NoSession

(* Every step of the worker keeps the types.                               *)
LEMMA NextType == WorkTypeOK /\ [Next]_vars => WorkTypeOK'
<1> SUFFICES ASSUME WorkTypeOK, [Next]_vars PROVE WorkTypeOK'
  OBVIOUS
<1>1. ASSUME NEW t \in Threads, ThreadStep(t) PROVE WorkTypeOK'
  BY <1>1, ThreadStepType
<1>2. ASSUME NEW h \in Handlers, HandlerStep(h) \/ Request(h) PROVE WorkTypeOK'
  BY <1>2, HandlerStepType
<1>3. ASSUME NEW a \in Actors, Serve(a) \/ AssignSummary(a) PROVE WorkTypeOK'
  BY <1>3, ServiceType
<1>4. CASE UNCHANGED vars
  BY <1>4
  DEF vars, WorkTypeOK, TypeOK, AtWork, SharedTypeOK, RuntimeTypeOK, ThreadTypeOK,
      HandlerTypeOK, HistoryTypeOK, sharedVars, runtimeVars, threadVars, handlerVars, historyVars
<1> QED
  BY <1>1, <1>2, <1>3, <1>4 DEF Next

(* The worker's state keeps its types, and a thread or a request that has  *)
(* begun always knows the session it is at work on.                        *)
THEOREM WorkerTypes == Spec => []TypeOK
<1>1. Init => WorkTypeOK
  BY InitType
<1>2. WorkTypeOK /\ [Next]_vars => WorkTypeOK'
  BY NextType
<1>3. WorkTypeOK => TypeOK
  BY DEF WorkTypeOK
<1> QED
  BY <1>1, <1>2, <1>3, PTL DEF Spec

-----------------------------------------------------------------------------
(* One thread per session.  The flag is read in one step and set in        *)
(* another, so the proof needs what the gateway provides: one request is   *)
(* handled at a time.                                                      *)

OneRequestAtATime == \A g, h \in Handlers : g = h

(* Between the look at the flag and its setting the flag stays down, and   *)
(* an idle thread slot holds on to no session.                             *)
ThreadInv ==
    /\ WorkTypeOK
    /\ OneThreadPerSession
    /\ \A t \in Threads : pc[t] = "idle" => sid[t] = NoSession
    /\ \A h \in Handlers : hpc[h] = "spawn" => ~processing[target[h]]

(* What a thread may do to the flag and to its own session: nothing, or    *)
(* give the session up, with the flag still up or put down.                *)
LEMMA ThreadRelease ==
    ASSUME WorkTypeOK, NEW t \in Threads, ThreadStep(t)
    PROVE  /\ pc[t] # "idle"
           /\ \A u \in Threads : u # t => pc'[u] = pc[u] /\ sid'[u] = sid[u]
           /\ \/ processing' = processing /\ sid'[t] = sid[t] /\ pc'[t] # "idle"
              \/ processing' = processing /\ sid'[t] = NoSession
              \/ /\ processing' = [processing EXCEPT ![sid[t]] = FALSE]
                 /\ sid'[t] = NoSession
<1> USE DEF BeginRun, RefreshBegun, PrepareRun, PrepareRaises, TurnsExhausted,
            ObserveCancel, StartTurn, AskGemini, GeminiAnswers, ReviseGoal, WriteAnswer,
            RefreshAnswer, Conclude, StartExecution, InstructCodex, CodexAnswers, AdapterRaises,
            RefreshTurn, FailuresExceeded, NextTurn, Finish, RecordError, RefreshError, EndRun
<1> USE DEF WorkTypeOK, TypeOK, ThreadTypeOK, Go
<1>1. CASE PrepareRaises(t) \/ EndRun(t)
  BY <1>1 DEF At, Die, runtimeVars
<1>2. CASE ReviseGoal(t) \/ GeminiAnswers(t) \/ AdapterRaises(t)
  BY <1>2 DEF At, runtimeVars
<1>3. CASE \/ BeginRun(t) \/ RefreshBegun(t) \/ PrepareRun(t) \/ TurnsExhausted(t)
           \/ ObserveCancel(t) \/ StartTurn(t) \/ AskGemini(t) \/ WriteAnswer(t)
           \/ RefreshAnswer(t) \/ Conclude(t)
  BY <1>3 DEF At, runtimeVars
<1>4. CASE \/ StartExecution(t) \/ InstructCodex(t) \/ CodexAnswers(t) \/ RefreshTurn(t)
           \/ FailuresExceeded(t) \/ NextTurn(t) \/ Finish(t) \/ RecordError(t) \/ RefreshError(t)
  BY <1>4 DEF At, runtimeVars
<1> QED
  BY <1>1, <1>2, <1>3, <1>4 DEF ThreadStep

(* What a request may do to the flag and to the threads: nothing, except   *)
(* that the last step of a start raises the flag and starts a thread.      *)
LEMMA HandlerStarts ==
    ASSUME WorkTypeOK, NEW h \in Handlers, HandlerStep(h) \/ Request(h)
    PROVE  /\ \A g \in Handlers : g # h => hpc'[g] = hpc[g] /\ target'[g] = target[g]
           /\ \/ /\ UNCHANGED <<processing, threadVars>>
                 /\ hpc'[h] = "spawn" => ~processing[target'[h]]
              \/ \E t \in Threads : StartThread(h, t)
<1> USE DEF WorkTypeOK, TypeOK, HandlerTypeOK, HGo, HandlerOnly, runtimeVars
<1>1. CASE \/ NothingToSupersede(h) \/ SupersedeUnknown(h) \/ SupersedeEnded(h) \/ Supersede(h)
           \/ RefreshSuperseded(h) \/ MakeSession(h) \/ RegisterSession(h) \/ StoreRequest(h)
           \/ RefreshContinued(h) \/ ResumeSession(h) \/ NotProcessing(h) \/ UnmapCanceled(h)
  BY <1>1 DEF NothingToSupersede, SupersedeUnknown, SupersedeEnded, Supersede,
              RefreshSuperseded, MakeSession, RegisterSession, StoreRequest,
              RefreshContinued, ResumeSession, NotProcessing, UnmapCanceled
<1>2. CASE LeaveNote(h) \/ AlreadyProcessing(h) \/ RefreshCanceled(h)
  BY <1>2 DEF LeaveNote, AlreadyProcessing, RefreshCanceled, Reply
<1>3. ASSUME NEW s \in Sessions, BeginCreate(h, s) \/ BeginCancel(h, s)
      PROVE  /\ \A g \in Handlers : g # h => hpc'[g] = hpc[g] /\ target'[g] = target[g]
             /\ UNCHANGED <<processing, threadVars>> /\ hpc'[h] # "spawn"
  BY <1>3 DEF BeginCreate, BeginCancel
<1>4. ASSUME NEW s \in Sessions, NEW n \in Notes, BeginContinue(h, s, n)
      PROVE  /\ \A g \in Handlers : g # h => hpc'[g] = hpc[g] /\ target'[g] = target[g]
             /\ UNCHANGED <<processing, threadVars>> /\ hpc'[h] # "spawn"
  BY <1>4 DEF BeginContinue
<1>5. ASSUME NEW t \in Threads, StartThread(h, t)
      PROVE  \A g \in Handlers : g # h => hpc'[g] = hpc[g] /\ target'[g] = target[g]
  BY <1>5 DEF StartThread, Reply
<1> QED
  BY <1>1, <1>2, <1>3, <1>4, <1>5 DEF HandlerStep, Request

(* Every step keeps the invariant of one thread per session, as long as    *)
(* handlers run one at a time.                                             *)
LEMMA ThreadInvNext ==
    ASSUME OneRequestAtATime, ThreadInv, [Next]_vars
    PROVE  ThreadInv'
<1>0. WorkTypeOK /\ WorkTypeOK'
  BY NextType DEF ThreadInv
<1>1. ASSUME NEW t \in Threads, ThreadStep(t) PROVE ThreadInv'
  <2>1. UNCHANGED handlerVars /\ sid[t] \in Sessions
    BY <1>0, <1>1, ThreadFiles
  <2>2. OneThreadPerSession'
    <3>1. \A u \in Threads : sid'[u] # NoSession => sid'[u] = sid[u]
      BY <1>0, <1>1, ThreadRelease
    <3>2. \A u, v \in Threads : sid'[u] = sid'[v] /\ sid'[u] # NoSession => u = v
      BY <3>1 DEF ThreadInv, OneThreadPerSession
    <3>3. ASSUME NEW u \in Threads, sid'[u] # NoSession
          PROVE  processing'[sid'[u]]
      <4>1. sid[u] \in Sessions /\ processing[sid[u]] /\ sid'[u] = sid[u]
        BY <1>0, <3>1, <3>3
        DEF ThreadInv, OneThreadPerSession, WorkTypeOK, TypeOK, ThreadTypeOK
      <4>2. u # t => sid[u] # sid[t]
        BY <4>1, <3>3 DEF ThreadInv, OneThreadPerSession
      <4>3. processing \in [Sessions -> BOOLEAN]
        BY <1>0 DEF WorkTypeOK, TypeOK, RuntimeTypeOK
      <4> QED BY <1>0, <1>1, <2>1, <3>3, <4>1, <4>2, <4>3, ThreadRelease
    <3> QED BY <3>2, <3>3 DEF OneThreadPerSession
  <2>3. \A u \in Threads : pc'[u] = "idle" => sid'[u] = NoSession
    BY <1>0, <1>1, ThreadRelease DEF ThreadInv
  <2>4. \A h \in Handlers : hpc'[h] = "spawn" => ~processing'[target'[h]]
    BY <1>0, <1>1, <2>1, ThreadRelease
    DEF ThreadInv, handlerVars, WorkTypeOK, TypeOK, AtWork, RuntimeTypeOK, HandlerTypeOK
  <2> QED
    BY <1>0, <2>2, <2>3, <2>4 DEF ThreadInv
<1>2. ASSUME NEW h \in Handlers, HandlerStep(h) \/ Request(h) PROVE ThreadInv'
  <2>1. CASE /\ UNCHANGED <<processing, threadVars>>
             /\ hpc'[h] = "spawn" => ~processing[target'[h]]
    BY <1>0, <2>1 DEF OneRequestAtATime, ThreadInv, OneThreadPerSession, threadVars
  <2>2. ASSUME NEW t \in Threads, StartThread(h, t) PROVE ThreadInv'
    <3>1. /\ pc[t] = "idle" /\ pc' = [pc EXCEPT ![t] = "begin"]
          /\ sid' = [sid EXCEPT ![t] = target[h]]
          /\ processing' = [processing EXCEPT ![target[h]] = TRUE]
          /\ hpc[h] = "spawn" /\ hpc' = [hpc EXCEPT ![h] = "idle"]
      BY <2>2 DEF StartThread, HAt, At, Go, Reply, HGo
    <3>2. target[h] \in Sessions /\ ~processing[target[h]]
      BY <1>0, <3>1 DEF ThreadInv, WorkTypeOK, TypeOK, AtWork, HandlerTypeOK
    <3>3. \A u \in Threads : sid[u] # target[h]
      BY <3>2 DEF ThreadInv, OneThreadPerSession, Sessions, NoSession
    <3>4. OneThreadPerSession'
      BY <1>0, <3>1, <3>2, <3>3
      DEF ThreadInv, OneThreadPerSession, WorkTypeOK, TypeOK, RuntimeTypeOK, ThreadTypeOK
    <3>5. \A u \in Threads : pc'[u] = "idle" => sid'[u] = NoSession
      BY <1>0, <3>1 DEF ThreadInv, WorkTypeOK, TypeOK, ThreadTypeOK
    <3>6. \A g \in Handlers : hpc'[g] # "spawn"
      BY <1>0, <3>1 DEF OneRequestAtATime, WorkTypeOK, TypeOK, HandlerTypeOK
    <3> QED
      BY <1>0, <3>4, <3>5, <3>6 DEF ThreadInv
  <2> QED
    BY <1>0, <1>2, <2>1, <2>2, HandlerStarts
<1>3. ASSUME NEW a \in Actors, Serve(a) \/ AssignSummary(a) PROVE ThreadInv'
  BY <1>0, <1>3
  DEF Serve, AssignSummary, ThreadInv, OneThreadPerSession, runtimeVars, threadVars, handlerVars
<1>4. CASE UNCHANGED vars
  BY <1>0, <1>4
  DEF vars, ThreadInv, OneThreadPerSession, runtimeVars, threadVars, handlerVars
<1> QED
  BY <1>1, <1>2, <1>3, <1>4 DEF Next

(* As long as requests come one at a time, no session ever runs on two     *)
(* threads and a running session is marked as such, whatever its thread,   *)
(* the adapters and the other sessions do.                                 *)
THEOREM OneThread ==
    ASSUME OneRequestAtATime
    PROVE  Spec => []OneThreadPerSession
<1>1. Init => ThreadInv
  <2>1. Init => WorkTypeOK
    BY InitType
  <2> QED
    BY <2>1 DEF Init, ThreadInv, OneThreadPerSession
<1>2. ThreadInv /\ [Next]_vars => ThreadInv'
  BY ThreadInvNext
<1>3. ThreadInv => OneThreadPerSession
  BY DEF ThreadInv
<1> QED
  BY <1>1, <1>2, <1>3, PTL DEF Spec
=============================================================================
