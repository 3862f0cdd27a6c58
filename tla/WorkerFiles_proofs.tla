-------------------------- MODULE WorkerFiles_proofs --------------------------
(***************************************************************************)
(* Proofs about how the worker uses the session files, for any number of   *)
(* sessions, conversations, notes, threads and handlers: it implements     *)
(* SharedGoal, and what the files promise holds across restarts.           *)
(***************************************************************************)
EXTENDS WorkerRestart, WorkerSessions_proofs

-----------------------------------------------------------------------------
(* Restarts keep the types, and so does every step of WorkerRestart.       *)

(* A restart keeps the types.                                              *)
LEMMA RestartType ==
    ASSUME WorkTypeOK, Restart
    PROVE  WorkTypeOK'
<1>1. PICK found \in SUBSET Sessions :
        /\ Loadable(found)
        /\ mem' = [s \in Sessions |-> IF s \in found THEN doc[s].status ELSE "absent"]
        /\ noted' = [s \in Sessions |-> IF s \in found THEN req[s] ELSE {}]
        /\ call' = [a \in Actors |-> NoCall]
  BY DEF Restart, Reload
<1>2. NoCall \in Call
  BY DEF NoCall, Call, Stages, Methods, NoSession, Status, InProgress, NoDoc, Document
<1>3. SharedTypeOK'
  BY <1>1, <1>2 DEF Restart, Reload, WorkTypeOK, TypeOK, SharedTypeOK
<1>4. \A s \in Sessions : doc[s].status \in Status \cup {"absent"} /\ req[s] \in SUBSET Notes
  BY DEF WorkTypeOK, TypeOK, SharedTypeOK, Document
<1>5. RuntimeTypeOK'
  BY <1>1, <1>4 DEF Restart, Reload, RuntimeTypeOK
<1>6. ThreadTypeOK' /\ HandlerTypeOK' /\ HistoryTypeOK' /\ AtWork'
  BY DEF Restart, Reload, WorkTypeOK, TypeOK, ThreadTypeOK, HandlerTypeOK, HistoryTypeOK, AtWork,
         historyVars, ThreadPCs, HandlerPCs, Verdicts
<1> QED
  BY <1>3, <1>5, <1>6 DEF WorkTypeOK, TypeOK

(* Every step of the worker with restarts keeps the types.                 *)
LEMMA RestartNextType == WorkTypeOK /\ [RestartNext]_vars => WorkTypeOK'
  BY NextType, RestartType DEF RestartNext

(* The worker's state keeps its types across restarts at any moment.       *)
THEOREM RestartTypes == RestartSpec => []TypeOK
<1>1. Init => WorkTypeOK
  BY InitType
<1>2. WorkTypeOK => TypeOK
  BY DEF WorkTypeOK
<1> QED
  BY <1>1, <1>2, RestartNextType, PTL DEF RestartSpec

(* No step of the worker puts a session on a second thread, restarts       *)
(* included.                                                               *)
LEMMA RestartNextThread ==
    ASSUME OneRequestAtATime, ThreadInv, [RestartNext]_vars
    PROVE  ThreadInv'
<1>1. CASE Restart
  <2>1. WorkTypeOK'
    BY <1>1, RestartType DEF ThreadInv
  <2>2. (\A t \in Threads : sid'[t] = NoSession) /\ (\A h \in Handlers : hpc'[h] = "idle")
    BY <1>1 DEF Restart, Reload
  <2> QED
    BY <2>1, <2>2 DEF ThreadInv, OneThreadPerSession
<1> QED
  BY <1>1, ThreadInvNext DEF RestartNext

(* As long as requests come one at a time, no session runs on two threads, *)
(* and a running session is marked as such, across restarts too.           *)
THEOREM RestartOneThread ==
    ASSUME OneRequestAtATime
    PROVE  RestartSpec => []OneThreadPerSession
<1>1. Init => ThreadInv
  <2>1. Init => WorkTypeOK
    BY InitType
  <2> QED
    BY <2>1 DEF Init, ThreadInv, OneThreadPerSession
<1>2. ThreadInv /\ [RestartNext]_vars => ThreadInv'
  BY RestartNextThread
<1>3. ThreadInv => OneThreadPerSession
  BY DEF ThreadInv
<1> QED
  BY <1>1, <1>2, <1>3, PTL DEF RestartSpec

-----------------------------------------------------------------------------
(* Who works on which session.  Threads, requests and calls are at work on *)
(* sessions that the manager knows; only the request that holds the lock   *)
(* creates one, and nobody else knows of that session before it is done.   *)

Creating == {"supersede", "superseded", "make", "register"}

(* A call creates the session of its request, or is on a known session and *)
(* has loaded a document that was there.                                   *)
CallsFit ==
    \A a \in Actors : ~Idle(a) =>
        /\ call[a].sid \in Sessions
        /\ call[a].method = "create" =>
              /\ a \in Handlers /\ hpc[a] = "register" /\ call[a].sid = target[a]
              /\ \/ call[a].stage = "save" /\ ~Exists(target[a])
                 \/ call[a].stage = "activate" /\ Exists(target[a])
        /\ call[a].method # "create" =>
              /\ Known(call[a].sid)
              /\ call[a].stage \in {"save", "return", "pop"}
              /\ call[a].stage # "pop" => call[a].buf.status # "absent"

(* Whoever works on a session that is not being created knows it.          *)
SubjectsKnown ==
    /\ \A s \in Sessions : Known(s) => Exists(s)
    /\ \A t \in Threads : sid[t] # NoSession => Known(sid[t])
    /\ \A h \in Handlers : hpc[h] \notin Creating \cup {"idle"} => Known(target[h])
    /\ \A h \in Handlers : hpc[h] = "superseded" => Known(old[h])

(* The one request that creates a session holds the lock.  Its session is  *)
(* the next one, unknown and unwritten until its creation is under way.    *)
OneCreator ==
    \A h \in Handlers : hpc[h] \in Creating =>
        /\ lock = {h}
        /\ ~Known(target[h])
        /\ hpc[h] # "register" => ~Exists(target[h])
        /\ hpc[h] = "register" =>
              Exists(target[h]) \/ (~Idle(h) /\ call[h].method = "create")
        /\ \A r \in Sessions : r < target[h] => Exists(r)
        /\ \A r \in Sessions : target[h] < r => ~Exists(r)

CreatedInOrder == \A r, s \in Sessions : r < s /\ Exists(s) => Exists(r)

FilesInv == WorkTypeOK /\ CallsFit /\ SubjectsKnown /\ OneCreator /\ CreatedInOrder

(* What the next steps leave alone when they are not a restart: a request  *)
(* waits for its call, and a known session stays known.                    *)
Waits == \A h \in Handlers : ~Idle(h) => hpc'[h] = hpc[h] /\ target'[h] = target[h]
Stays == \A s \in Sessions : Known(s) => Known(s)'

(* A thread knows its session and no other; it leaves requests alone.      *)
LEMMA ThreadKnows ==
    ASSUME WorkTypeOK, NEW t \in Threads, ThreadStep(t)
    PROVE  /\ noted' = noted
           /\ \A s \in Sessions : s # sid[t] => mem'[s] = mem[s]
           /\ mem'[sid[t]] = mem[sid[t]] \/ mem'[sid[t]] # "absent"
<1>1. \A v \in Verdicts : FinalState(v) # "absent"
  BY DEF FinalState
<1>2. sid[t] \in Sessions /\ verdict[t] \in Verdicts /\ mem \in [Sessions -> Status \cup {"absent"}]
  BY ThreadFiles DEF WorkTypeOK, TypeOK, ThreadTypeOK, RuntimeTypeOK
<1>3. CASE Finish(t) \/ RefreshError(t)
  BY <1>1, <1>2, <1>3 DEF Finish, RefreshError, Known
<1>4. CASE \/ BeginRun(t) \/ RefreshBegun(t) \/ PrepareRun(t) \/ TurnsExhausted(t)
           \/ ObserveCancel(t) \/ StartTurn(t) \/ AskGemini(t) \/ WriteAnswer(t)
           \/ RefreshAnswer(t) \/ Conclude(t) \/ PrepareRaises(t) \/ EndRun(t)
  BY <1>4
  DEF BeginRun, RefreshBegun, PrepareRun, TurnsExhausted, ObserveCancel, StartTurn, AskGemini,
      WriteAnswer, RefreshAnswer, Conclude, PrepareRaises, EndRun, runtimeVars
<1>5. CASE \/ StartExecution(t) \/ InstructCodex(t) \/ CodexAnswers(t) \/ RefreshTurn(t)
           \/ FailuresExceeded(t) \/ NextTurn(t) \/ RecordError(t) \/ ReviseGoal(t)
           \/ GeminiAnswers(t) \/ AdapterRaises(t)
  BY <1>5
  DEF StartExecution, InstructCodex, CodexAnswers, RefreshTurn, FailuresExceeded, NextTurn,
      RecordError, ReviseGoal, GeminiAnswers, AdapterRaises, runtimeVars
<1> QED
  BY <1>3, <1>4, <1>5 DEF ThreadStep

(* The steps of a creation up to the call that creates the session.        *)
CreationStep(h) ==
    \/ NothingToSupersede(h) \/ SupersedeUnknown(h) \/ SupersedeEnded(h) \/ Supersede(h)
    \/ RefreshSuperseded(h) \/ MakeSession(h)

(* What such a step does: it moves its request on, learns and forgets no   *)
(* session, and touches the files by one call or the clearing of an entry  *)
(* only.                                                                   *)
LEMMA CreationMoves ==
    ASSUME WorkTypeOK, NEW h \in Handlers, CreationStep(h)
    PROVE  /\ Idle(h) /\ target[h] \in Sessions
           /\ hpc[h] \in {"supersede", "superseded", "make"}
           /\ hpc'[h] \in {"superseded", "make", "register"}
           /\ \A g \in Handlers : g # h => hpc'[g] = hpc[g]
           /\ UNCHANGED <<doc, req, noted, target, old, lock, threadVars>>
           /\ \A s \in Sessions : Known(s)' <=> Known(s)
           /\ hpc'[h] = "superseded" => Known(old[h]) /\ old[h] \in Sessions
           /\ IF hpc'[h] = "register"
              THEN Enter(h, "create", target[h], "planning", {})
              ELSE \/ \E m \in {"supersede", "read"} :
                          /\ Enter(h, m, old[h], "planning", {})
                          /\ old[h] \in Sessions
                          /\ hpc[h] = "superseded" \/ hpc'[h] = "superseded"
                   \/ \E s \in Sessions : ClearActive(s) /\ UNCHANGED call
                   \/ UNCHANGED sharedVars
<1> USE DEF HAt, HGo, HandlerOnly
<1>1. hpc \in [Handlers -> HandlerPCs] /\ mem \in [Sessions -> Status \cup {"absent"}]
  BY DEF WorkTypeOK, TypeOK, HandlerTypeOK, RuntimeTypeOK
<1>2. /\ hpc[h] # "idle" => target[h] \in Sessions
      /\ old[h] # NoSession => old[h] \in Sessions
      /\ hpc[h] = "superseded" => old[h] \in Sessions
  BY DEF WorkTypeOK, TypeOK, AtWork, HandlerTypeOK
<1>3. CASE NothingToSupersede(h)
  BY <1>1, <1>2, <1>3 DEF NothingToSupersede, sharedVars, runtimeVars, Known
<1>4. CASE SupersedeUnknown(h) \/ SupersedeEnded(h)
  BY <1>1, <1>2, <1>4 DEF SupersedeUnknown, SupersedeEnded, runtimeVars, Known
<1>5. CASE Supersede(h)
  BY <1>1, <1>2, <1>5 DEF Supersede, Enter, Known
<1>6. CASE RefreshSuperseded(h) \/ MakeSession(h)
  BY <1>1, <1>2, <1>6 DEF RefreshSuperseded, MakeSession, Enter, runtimeVars, Known
<1> QED
  BY <1>3, <1>4, <1>5, <1>6 DEF CreationStep

(* The other steps of requests: starting a thread, and all of continue and *)
(* cancel.                                                                 *)
WorkStep(h) ==
    \/ StoreRequest(h) \/ RefreshContinued(h) \/ ResumeSession(h) \/ LeaveNote(h)
    \/ AlreadyProcessing(h) \/ NotProcessing(h) \/ (\E t \in Threads : StartThread(h, t))
    \/ UnmapCanceled(h) \/ RefreshCanceled(h)
    \/ (\E s \in Sessions : BeginCancel(h, s))
    \/ (\E s \in Sessions, n \in Notes : BeginContinue(h, s, n))

(* What such a step does: it leaves the documents and the knowledge of     *)
(* sessions alone and touches the files by one call on a known session, or *)
(* by saving the request or clearing the entry of its session.             *)
LEMMA WorkMoves ==
    ASSUME WorkTypeOK, SubjectsKnown, NEW h \in Handlers, WorkStep(h)
    PROVE  /\ Idle(h) /\ hpc[h] \notin Creating /\ hpc'[h] \notin Creating
           /\ \A g \in Handlers :
                  g # h => hpc'[g] = hpc[g] /\ target'[g] = target[g] /\ old'[g] = old[g]
           /\ doc' = doc /\ lock' \in {lock, lock \ {h}}
           /\ \A s \in Sessions : Known(s)' <=> Known(s)
           /\ hpc'[h] # "idle" => Known(target'[h]) /\ target'[h] \in Sessions
           /\ \A t \in Threads : sid'[t] = sid[t] \/ (Known(sid'[t]) /\ sid'[t] \in Sessions)
           /\ \/ \E s \in Sessions : Known(s) /\ Calls(h, s)
              \/ /\ SaveRequest(target[h], noted[target[h]]) /\ UNCHANGED <<doc, active, call>>
                 /\ Known(target[h]) /\ target[h] \in Sessions
              \/ ClearActive(target[h]) /\ UNCHANGED <<doc, req, call>> /\ target[h] \in Sessions
              \/ UNCHANGED sharedVars
<1> USE DEF HAt, HGo, HandlerOnly, Creating
<1>1. hpc \in [Handlers -> HandlerPCs] /\ mem \in [Sessions -> Status \cup {"absent"}]
  BY DEF WorkTypeOK, TypeOK, HandlerTypeOK, RuntimeTypeOK
<1>2. hpc[h] # "idle" => target[h] \in Sessions
  BY DEF WorkTypeOK, TypeOK, AtWork, HandlerTypeOK
<1>3. hpc[h] \notin Creating \cup {"idle"} => Known(target[h])
  BY DEF SubjectsKnown
<1>4. target \in [Handlers -> Sessions \cup {NoSession}] /\ old \in [Handlers -> Sessions \cup {NoSession}]
  BY DEF WorkTypeOK, TypeOK, HandlerTypeOK
<1>5. CASE StoreRequest(h) \/ UnmapCanceled(h)
  BY <1>1, <1>2, <1>3, <1>5 DEF StoreRequest, UnmapCanceled, runtimeVars, threadVars, Known
<1>6. CASE ResumeSession(h) \/ NotProcessing(h)
  BY <1>1, <1>2, <1>3, <1>6
  DEF ResumeSession, NotProcessing, runtimeVars, threadVars, sharedVars, Known
<1>7. CASE LeaveNote(h) \/ AlreadyProcessing(h)
  BY <1>1, <1>4, <1>7
  DEF LeaveNote, AlreadyProcessing, Reply, runtimeVars, threadVars, sharedVars, Known
<1>8. CASE RefreshContinued(h)
  BY <1>1, <1>2, <1>3, <1>8 DEF RefreshContinued, Calls, RunCalls, Enter, runtimeVars, threadVars, Known
<1>9. CASE RefreshCanceled(h)
  BY <1>1, <1>2, <1>3, <1>4, <1>9
  DEF RefreshCanceled, Reply, Calls, RunCalls, Enter, runtimeVars, threadVars, Known
<1>10. ASSUME NEW t \in Threads, StartThread(h, t)
       PROVE  /\ Idle(h) /\ hpc[h] = "spawn" /\ hpc'[h] = "idle"
              /\ \A g \in Handlers :
                     g # h => hpc'[g] = hpc[g] /\ target'[g] = target[g] /\ old'[g] = old[g]
              /\ UNCHANGED sharedVars /\ mem' = mem /\ lock' = lock \ {h}
              /\ \A u \in Threads : sid'[u] = sid[u] \/ sid'[u] = target[h]
  BY <1>1, <1>4, <1>10 DEF StartThread, Reply, WorkTypeOK, TypeOK, ThreadTypeOK
<1>11. CASE \E t \in Threads : StartThread(h, t)
  BY <1>2, <1>3, <1>10, <1>11 DEF sharedVars, Known
<1>12. ASSUME NEW s \in Sessions, BeginCancel(h, s) PROVE Calls(h, s) /\ Known(s)
  BY <1>12, Literals DEF BeginCancel, Calls, RunCalls
<1>13. CASE \E s \in Sessions : BeginCancel(h, s)
  <2> PICK s \in Sessions : BeginCancel(h, s)
    BY <1>13
  <2> QED
    BY <1>1, <1>4, <1>12 DEF BeginCancel, Enter, threadVars, Known
<1>14. ASSUME NEW s \in Sessions, NEW n \in Notes, BeginContinue(h, s, n)
       PROVE  Calls(h, s) /\ Known(s)
  <2>1. {n} \in SUBSET Notes /\ Enter(h, "update_input", s, "planning", {n})
    BY <1>14 DEF BeginContinue
  <2> QED
    BY <1>14, <2>1 DEF BeginContinue, Calls
<1>15. CASE \E s \in Sessions, n \in Notes : BeginContinue(h, s, n)
  <2> PICK s \in Sessions, n \in Notes : BeginContinue(h, s, n)
    BY <1>15
  <2> QED
    BY <1>1, <1>4, <1>14 DEF BeginContinue, Enter, threadVars, Known
<1> QED
  BY <1>5, <1>6, <1>7, <1>8, <1>9, <1>11, <1>13, <1>15 DEF WorkStep

(* Entering a method for a known session fits, and leaves the documents    *)
(* and the callers of other sessions alone.                                *)
LEMMA CallsFits ==
    ASSUME WorkTypeOK, CallsFit, Waits, Stays, NEW a \in Actors, NEW s \in Sessions,
           Known(s)', Exists(s), Calls(a, s)
    PROVE  CallsFit' /\ doc' = doc /\ Idle(a) /\ \A b \in Actors : b # a => call'[b] = call[b]
<1>1. PICK m \in Methods, st \in Status, ns \in SUBSET Notes :
          m # "create" /\ Enter(a, m, s, st, ns)
  BY Literals DEF Calls, RunCalls
<1>2. /\ Idle(a) /\ doc' = doc /\ \A b \in Actors : b # a => call'[b] = call[b]
      /\ call'[a].sid = s /\ call'[a].method = m /\ call'[a].stage \in {"save", "return"}
      /\ call'[a].buf = doc[s]
  BY <1>1 DEF Enter, WorkTypeOK, TypeOK, SharedTypeOK
<1>3. ASSUME NEW b \in Actors, b # a, ~Idle(b)'
      PROVE  ~Idle(b) /\ call'[b] = call[b]
  BY <1>2, <1>3 DEF Idle
<1> QED
  BY <1>1, <1>2, <1>3 DEF CallsFit, Waits, Stays, Exists

(* So does a step that enters no method.                                   *)
LEMMA NoCallFits ==
    ASSUME CallsFit, Waits, Stays, UNCHANGED <<doc, call>>
    PROVE  CallsFit'
  BY DEF CallsFit, Waits, Stays, Idle, Exists

(* A stage of a call: what it does to the documents and to the calls.      *)
LEMMA ProgressFiles ==
    ASSUME WorkTypeOK, CallsFit, NEW a \in Actors, Progress(a) \/ Return(a)
    PROVE  /\ ~Idle(a) /\ call[a].sid \in Sessions
           /\ \A b \in Actors : b # a => call'[b] = call[b]
           /\ \A s \in Sessions : s # call[a].sid => doc'[s] = doc[s]
           /\ Idle(a)' \/ (call'[a].sid = call[a].sid /\ call'[a].method = call[a].method)
           /\ IF call[a].method = "create"
              THEN \/ /\ CreateDocument(a)
                      /\ ~Exists(call[a].sid) /\ doc'[call[a].sid].status = "planning"
                      /\ call'[a].stage = "activate"
                   \/ Activate(a) /\ Exists(call[a].sid) /\ Idle(a)' /\ doc' = doc
              ELSE /\ Exists(call[a].sid) => doc'[call[a].sid].status # "absent"
                   /\ call'[a].stage \in {"none", "pop"}
<1>1. /\ call[a] \in Call /\ doc \in [Sessions -> Document] /\ call \in [Actors -> Call]
      /\ call[a].status \in Status /\ call[a].buf \in Document
  BY DEF WorkTypeOK, TypeOK, SharedTypeOK, Call
<1>2. Status \cap {"absent"} = {}
  BY Literals
<1>3. ~Idle(a)
  BY DEF Progress, Return, SetVerdict, WriteGemini, WriteCodex, UpdateUserInput, MarkSuperseded,
         CreateDocument, Pop, Activate, Saving, Idle
<1>4. /\ call[a].sid \in Sessions
      /\ call[a].method = "create" => \/ call[a].stage = "save" /\ ~Exists(call[a].sid)
                                      \/ call[a].stage = "activate" /\ Exists(call[a].sid)
      /\ call[a].method # "create" => /\ call[a].stage \in {"save", "return", "pop"}
                                      /\ call[a].stage # "pop" => call[a].buf.status # "absent"
  BY <1>3 DEF CallsFit
<1>5. ASSUME NEW d \in Document, NEW next \in Stages, Store(a, d, next)
      PROVE  /\ doc'[call[a].sid] = d
             /\ \A s \in Sessions : s # call[a].sid => doc'[s] = doc[s]
             /\ \A b \in Actors : b # a => call'[b] = call[b]
             /\ next = "none" => Idle(a)' /\ call'[a].stage = "none"
             /\ next # "none" => /\ call'[a].stage = next
                                 /\ call'[a].sid = call[a].sid /\ call'[a].method = call[a].method
  BY <1>1, <1>4, <1>5 DEF Store, NoCall, Idle, Call
<1>6. CASE SetVerdict(a) \/ WriteGemini(a)
  <2>1. /\ WithStatus(a) \in Document /\ WithStatus(a).status = call[a].status
        /\ AfterStatus(a) \in {"none", "pop"}
    BY <1>1 DEF WithStatus, AfterStatus, Document
  <2>2. /\ Store(a, WithStatus(a), AfterStatus(a)) /\ call[a].method # "create"
    BY <1>6 DEF SetVerdict, WriteGemini, Saving
  <2>3. AfterStatus(a) \in Stages
    BY <2>1 DEF Stages
  <2> QED
    BY <1>1, <1>2, <1>3, <1>4, <1>5, <2>1, <2>2, <2>3 DEF Exists
<1>7. CASE WriteCodex(a)
  <2>1. Store(a, call[a].buf, "none") /\ call[a].method # "create" /\ call[a].stage = "save"
    BY <1>7 DEF WriteCodex, Saving
  <2> QED
    BY <1>1, <1>3, <1>4, <1>5, <2>1 DEF Exists, Stages
<1>8. CASE UpdateUserInput(a)
  <2> DEFINE d == [call[a].buf EXCEPT !.notes = call[a].buf.notes \cup call[a].notes]
  <2>1. d \in Document /\ d.status = call[a].buf.status
    BY <1>1 DEF Document, Call
  <2>2. Store(a, d, "none") /\ call[a].stage = "save" /\ call[a].method # "create"
    BY <1>8 DEF UpdateUserInput, Saving
  <2> HIDE DEF d
  <2> QED
    BY <1>1, <1>3, <1>4, <1>5, <2>1, <2>2 DEF Exists, Stages
<1>9. CASE MarkSuperseded(a)
  <2> DEFINE d == [call[a].buf EXCEPT !.status = "canceled"]
  <2>1. d \in Document /\ d.status = "canceled"
    BY <1>1 DEF Document, Status, Terminal
  <2>2. Store(a, d, "pop") /\ call[a].stage = "save" /\ call[a].method # "create"
    BY <1>9 DEF MarkSuperseded, Saving
  <2> HIDE DEF d
  <2> QED
    BY <1>1, <1>3, <1>4, <1>5, <2>1, <2>2 DEF Exists, Stages
<1>10. CASE CreateDocument(a)
  <2> DEFINE d == [status |-> "planning", notes |-> {}]
  <2>1. d \in Document /\ d.status = "planning"
    BY DEF Document, Status, InProgress
  <2>2. Store(a, d, "activate") /\ call[a].stage = "save" /\ call[a].method = "create"
    BY <1>10 DEF CreateDocument, Saving
  <2> HIDE DEF d
  <2> QED
    BY <1>1, <1>3, <1>4, <1>5, <1>10, <2>1, <2>2 DEF Exists, Stages
<1>11. CASE Pop(a) \/ Activate(a) \/ Return(a)
  <2>1. doc' = doc /\ call' = [call EXCEPT ![a] = NoCall]
    BY <1>11 DEF Pop, Activate, Return
  <2>2. Idle(a)' /\ call'[a].stage = "none" /\ \A b \in Actors : b # a => call'[b] = call[b]
    BY <1>1, <2>1 DEF NoCall, Idle
  <2>3. call[a].method = "create" => Activate(a) /\ Exists(call[a].sid)
    BY <1>4, <1>11 DEF Pop, Return, Activate
  <2> QED
    BY <1>3, <1>4, <2>1, <2>2, <2>3 DEF Exists
<1> QED
  BY <1>6, <1>7, <1>8, <1>9, <1>10, <1>11 DEF Progress

(* What is said of the files and of who knows which session holds after a  *)
(* step that keeps the documents and the sessions known, and in which a    *)
(* request goes on to work on a session only if it knows it.               *)
LEMMA DocsKept ==
    ASSUME FilesInv, WorkTypeOK', CallsFit', doc' = doc,
           \A s \in Sessions : Known(s)' <=> Known(s),
           \A t \in Threads : \/ sid'[t] = sid[t]
                              \/ sid'[t] = NoSession
                              \/ sid'[t] \in Sessions /\ Known(sid'[t]),
           \A h \in Handlers :
               \/ /\ hpc'[h] = hpc[h] /\ target'[h] = target[h] /\ old'[h] = old[h]
                  /\ call'[h] = call[h]
               \/ /\ hpc[h] \notin Creating /\ hpc'[h] \notin Creating
                  /\ hpc'[h] # "idle" => target'[h] \in Sessions /\ Known(target'[h]),
           \A h \in Handlers : lock = {h} /\ hpc[h] \in Creating => lock' = {h}
    PROVE  FilesInv'
<1>0. WorkTypeOK
  BY DEF FilesInv
<1>1. /\ \A t \in Threads : sid[t] # NoSession => sid[t] \in Sessions
      /\ \A h \in Handlers : hpc[h] # "idle" => target[h] \in Sessions
      /\ \A h \in Handlers : hpc[h] = "superseded" => old[h] \in Sessions
  BY <1>0 DEF WorkTypeOK, TypeOK, AtWork, ThreadTypeOK, HandlerTypeOK
<1>2. SubjectsKnown'
  <2>1. \A s \in Sessions : Known(s)' => Exists(s)'
    BY DEF FilesInv, SubjectsKnown, Exists
  <2>2. ASSUME NEW t \in Threads, sid'[t] # NoSession PROVE Known(sid[t])'
    <3>1. sid'[t] \in Sessions /\ Known(sid'[t])
      BY <1>1, <2>2 DEF FilesInv, SubjectsKnown
    <3> QED BY <3>1 DEF Known
  <2>3. ASSUME NEW h \in Handlers, hpc'[h] \notin Creating \cup {"idle"} PROVE Known(target[h])'
    <3>1. target'[h] \in Sessions /\ Known(target'[h])
      BY <1>1, <2>3 DEF FilesInv, SubjectsKnown
    <3> QED BY <3>1 DEF Known
  <2>4. ASSUME NEW h \in Handlers, hpc'[h] = "superseded" PROVE Known(old[h])'
    <3>1. hpc[h] = "superseded" /\ old'[h] = old[h]
      BY <2>4 DEF Creating
    <3>2. old[h] \in Sessions /\ Known(old[h])
      BY <1>1, <3>1 DEF FilesInv, SubjectsKnown
    <3> QED BY <3>1, <3>2 DEF Known
  <2> QED BY <2>1, <2>2, <2>3, <2>4 DEF SubjectsKnown
<1>3. OneCreator'
  <2> SUFFICES ASSUME NEW h \in Handlers, hpc'[h] \in Creating
               PROVE  /\ lock' = {h}
                      /\ ~Known(target[h])'
                      /\ hpc'[h] # "register" => ~Exists(target[h])'
                      /\ hpc'[h] = "register" =>
                            Exists(target[h])' \/ (~Idle(h)' /\ call'[h].method = "create")
                      /\ \A r \in Sessions : r < target'[h] => Exists(r)'
                      /\ \A r \in Sessions : target'[h] < r => ~Exists(r)'
    BY DEF OneCreator
  <2>1. /\ hpc'[h] = hpc[h] /\ target'[h] = target[h] /\ call'[h] = call[h]
        /\ target[h] \in Sessions
    BY <1>1 DEF Creating
  <2> QED
    BY <2>1 DEF FilesInv, OneCreator, Exists, Known, Idle
<1>4. CreatedInOrder'
  BY DEF FilesInv, CreatedInOrder, Exists
<1> QED
  BY <1>2, <1>3, <1>4 DEF FilesInv

(* The steps of process_session.                                           *)
LEMMA ThreadStepFiles ==
    ASSUME FilesInv, NEW t \in Threads, ThreadStep(t)
    PROVE  FilesInv'
<1>0. WorkTypeOK /\ WorkTypeOK' /\ CallsFit
  BY ThreadStepType DEF FilesInv
<1>1. t \in Actors /\ t \notin Handlers /\ sid[t] \in Sessions /\ UNCHANGED handlerVars
  BY <1>0, ThreadFiles, WorkerAssumption
<1>2. Known(sid[t]) /\ Exists(sid[t])
  BY <1>1 DEF FilesInv, SubjectsKnown, Sessions, NoSession
<1>3. \A s \in Sessions : Known(s)' <=> Known(s)
  BY <1>0, <1>2, ThreadKnows DEF Known
<1>4. Waits /\ Stays
  BY <1>1, <1>3 DEF Waits, Stays, handlerVars
<1>5. CallsFit' /\ doc' = doc /\ \A h \in Handlers : call'[h] = call[h]
  <2>1. CASE RunCalls(t, sid[t])
    <3>1. CallsFit' /\ doc' = doc /\ \A b \in Actors : b # t => call'[b] = call[b]
      <4> DEFINE s == sid[t]
      <4>1. s \in Sessions /\ Known(s) /\ Exists(s) /\ Calls(t, s)
        BY <1>1, <1>2, <2>1 DEF Calls
      <4> HIDE DEF s
      <4>2. \A r \in Sessions : Known(r) /\ Exists(r) /\ Calls(t, r) =>
                CallsFit' /\ doc' = doc /\ \A b \in Actors : b # t => call'[b] = call[b]
        BY <1>0, <1>1, <1>3, <1>4, CallsFits
      <4> QED BY <4>1, <4>2
    <3> QED BY <1>1, <3>1, WorkerAssumption
  <2>2. CASE UNCHANGED <<doc, call>>
    BY <1>0, <1>4, <2>2, NoCallFits
  <2> QED BY <1>0, <2>1, <2>2, ThreadFiles DEF sharedVars
<1>6. \A u \in Threads : sid'[u] = sid[u] \/ sid'[u] = NoSession
  BY <1>0, ThreadRelease
<1> QED
  BY <1>0, <1>1, <1>3, <1>5, <1>6, DocsKept DEF handlerVars

(* Starting a thread, and the steps of continue and cancel.                *)
LEMMA WorkStepFiles ==
    ASSUME FilesInv, NEW h \in Handlers, WorkStep(h)
    PROVE  FilesInv'
<1>0. WorkTypeOK /\ WorkTypeOK' /\ CallsFit /\ SubjectsKnown /\ h \in Actors
  <2>1. HandlerStep(h) \/ Request(h)
    BY DEF WorkStep, HandlerStep, Request
  <2> QED BY <2>1, HandlerStepType, WorkerAssumption DEF FilesInv
<1>1. /\ Idle(h) /\ doc' = doc
      /\ \A s \in Sessions : Known(s)' <=> Known(s)
      /\ \A g \in Handlers :
             g # h => hpc'[g] = hpc[g] /\ target'[g] = target[g] /\ old'[g] = old[g]
  BY <1>0, WorkMoves
<1>2. Waits /\ Stays
  BY <1>1 DEF Waits, Stays
<1>3. CallsFit' /\ \A g \in Handlers : g # h => call'[g] = call[g]
  <2>1. ASSUME NEW s \in Sessions, Known(s), Calls(h, s)
        PROVE  CallsFit' /\ \A b \in Actors : b # h => call'[b] = call[b]
    <3>1. Exists(s) /\ Known(s)'
      BY <1>0, <1>1, <2>1 DEF SubjectsKnown
    <3> QED BY <1>0, <1>2, <2>1, <3>1, CallsFits
  <2>2. CASE UNCHANGED <<doc, call>>
    BY <1>0, <1>2, <2>2, NoCallFits
  <2>3. (\E s \in Sessions : Known(s) /\ Calls(h, s)) \/ UNCHANGED <<doc, call>>
    BY <1>0, WorkMoves DEF sharedVars
  <2> QED BY <2>1, <2>2, <2>3, WorkerAssumption
<1>4. /\ hpc[h] \notin Creating /\ hpc'[h] \notin Creating
      /\ hpc'[h] # "idle" => Known(target'[h]) /\ target'[h] \in Sessions
      /\ \A t \in Threads : sid'[t] = sid[t] \/ (Known(sid'[t]) /\ sid'[t] \in Sessions)
      /\ lock' \in {lock, lock \ {h}}
  BY <1>0, WorkMoves
<1> QED
  BY <1>0, <1>1, <1>3, <1>4, DocsKept

(* A request that is creating a session goes on.                           *)
LEMMA CreationStepFiles ==
    ASSUME FilesInv, NEW h \in Handlers, CreationStep(h)
    PROVE  FilesInv'
<1>0. WorkTypeOK /\ WorkTypeOK' /\ CallsFit /\ SubjectsKnown /\ OneCreator /\ h \in Actors
  <2>1. HandlerStep(h)
    BY DEF CreationStep, HandlerStep
  <2> QED BY <2>1, HandlerStepType, WorkerAssumption DEF FilesInv
<1>1. /\ Idle(h) /\ target[h] \in Sessions
      /\ hpc[h] \in {"supersede", "superseded", "make"}
      /\ hpc'[h] \in {"superseded", "make", "register"}
      /\ \A g \in Handlers : g # h => hpc'[g] = hpc[g]
      /\ UNCHANGED <<doc, target, old, lock, threadVars>>
      /\ \A s \in Sessions : Known(s)' <=> Known(s)
      /\ hpc'[h] = "superseded" => Known(old[h]) /\ old[h] \in Sessions
  BY <1>0, CreationMoves
<1>2. Waits /\ Stays
  BY <1>1 DEF Waits, Stays
<1>3. /\ lock = {h} /\ ~Known(target[h]) /\ ~Exists(target[h])
      /\ \A r \in Sessions : r < target[h] => Exists(r)
      /\ \A r \in Sessions : target[h] < r => ~Exists(r)
  BY <1>0, <1>1 DEF OneCreator, Creating
<1>4. \A g \in Handlers : g # h => hpc[g] \notin Creating
  BY <1>0, <1>3 DEF OneCreator
<1>5. CallsFit' /\ (hpc'[h] = "register" => ~Idle(h)' /\ call'[h].method = "create")
  <2>1. CASE hpc'[h] = "register"
    <3>1. Enter(h, "create", target[h], "planning", {})
      BY <1>0, <2>1, CreationMoves
    <3>2. /\ call'[h].stage = "save" /\ call'[h].method = "create" /\ call'[h].sid = target[h]
          /\ \A b \in Actors : b # h => call'[b] = call[b]
      BY <1>0, <3>1 DEF Enter, WorkTypeOK, TypeOK, SharedTypeOK
    <3>3. \A b \in Actors : b # h /\ ~Idle(b)' => ~Idle(b) /\ call'[b] = call[b]
      BY <3>2 DEF Idle
    <3> QED
      BY <1>0, <1>1, <1>2, <1>3, <2>1, <3>2, <3>3 DEF CallsFit, Waits, Stays, Exists, Idle
  <2>2. ASSUME hpc'[h] # "register",
               NEW m \in {"supersede", "read"}, Enter(h, m, old[h], "planning", {}),
               old[h] \in Sessions, hpc[h] = "superseded" \/ hpc'[h] = "superseded"
        PROVE  CallsFit'
    <3>1. Calls(h, old[h])
      BY <2>2 DEF Calls, RunCalls
    <3>2. Known(old[h]) /\ Exists(old[h])
      BY <1>0, <1>1, <2>2 DEF SubjectsKnown
    <3>3. \A s \in Sessions : Known(s) /\ Exists(s) /\ Calls(h, s) => CallsFit'
      BY <1>0, <1>1, <1>2, CallsFits
    <3> QED BY <2>2, <3>1, <3>2, <3>3
  <2>3. ASSUME UNCHANGED call PROVE CallsFit'
    BY <1>0, <1>1, <1>2, <2>3, NoCallFits
  <2> QED
    BY <1>0, <2>1, <2>2, <2>3, CreationMoves DEF sharedVars
<1>6. SubjectsKnown'
  <2>1. \A s \in Sessions : Known(s)' => Exists(s)'
    BY <1>0, <1>1 DEF SubjectsKnown, Exists
  <2>2. \A t \in Threads : sid'[t] # NoSession => Known(sid[t])'
    BY <1>0, <1>1 DEF SubjectsKnown, threadVars, Known, WorkTypeOK, TypeOK, ThreadTypeOK
  <2>3. \A g \in Handlers : hpc'[g] \notin Creating \cup {"idle"} => Known(target[g])'
    BY <1>0, <1>1 DEF SubjectsKnown, Creating, Known, WorkTypeOK, TypeOK, AtWork, HandlerTypeOK
  <2>4. \A g \in Handlers : hpc'[g] = "superseded" => Known(old[g])'
    BY <1>0, <1>1, <1>4 DEF Creating, Known
  <2> QED BY <2>1, <2>2, <2>3, <2>4 DEF SubjectsKnown
<1>7. OneCreator'
  BY <1>1, <1>3, <1>4, <1>5 DEF OneCreator, Creating, Exists, Known
<1>8. CreatedInOrder'
  BY <1>1 DEF FilesInv, CreatedInOrder, Exists
<1> QED
  BY <1>0, <1>5, <1>6, <1>7, <1>8 DEF FilesInv

(* The manager takes the new session in.                                   *)
LEMMA RegisterFiles ==
    ASSUME FilesInv, NEW h \in Handlers, RegisterSession(h)
    PROVE  FilesInv'
<1>0. WorkTypeOK /\ WorkTypeOK' /\ CallsFit /\ SubjectsKnown /\ OneCreator /\ CreatedInOrder
  BY HandlerStepType DEF HandlerStep, FilesInv
<1>1. /\ Idle(h) /\ hpc[h] = "register" /\ target[h] \in Sessions
      /\ hpc' = [hpc EXCEPT ![h] = "start"]
      /\ mem' = [mem EXCEPT ![target[h]] = "planning"]
      /\ UNCHANGED <<sharedVars, target, old, lock, threadVars>>
      /\ hpc \in [Handlers -> HandlerPCs]
      /\ mem \in [Sessions -> Status \cup {"absent"}]
  BY <1>0
  DEF RegisterSession, HAt, HGo, HandlerOnly, WorkTypeOK, TypeOK, AtWork, HandlerTypeOK,
      RuntimeTypeOK
<1>2. Stays /\ Waits /\ Known(target[h])'
  BY <1>0, <1>1 DEF Stays, Waits, Known, WorkTypeOK, TypeOK, RuntimeTypeOK
<1>3. /\ lock = {h} /\ Exists(target[h])
      /\ \A g \in Handlers : g # h => hpc[g] \notin Creating
  BY <1>0, <1>1 DEF OneCreator, Creating
<1>4. CallsFit'
  BY <1>0, <1>1, <1>2, NoCallFits DEF sharedVars
<1>5. SubjectsKnown'
  <2>1. \A s \in Sessions : Known(s)' => Exists(s)'
    BY <1>0, <1>1, <1>3 DEF SubjectsKnown, Exists, Known, sharedVars
  <2>2. \A t \in Threads : sid'[t] # NoSession => Known(sid[t])'
    BY <1>0, <1>1, <1>2 DEF SubjectsKnown, threadVars, Known, Stays, WorkTypeOK, TypeOK, ThreadTypeOK
  <2>3. \A g \in Handlers : hpc'[g] \notin Creating \cup {"idle"} => Known(target[g])'
    BY <1>0, <1>1, <1>2
    DEF SubjectsKnown, Creating, Known, Stays, WorkTypeOK, TypeOK, AtWork, HandlerTypeOK
  <2>4. \A g \in Handlers : hpc'[g] # "superseded"
    BY <1>1, <1>3 DEF Creating
  <2> QED BY <2>1, <2>2, <2>3, <2>4 DEF SubjectsKnown
<1>6. OneCreator'
  BY <1>1, <1>3 DEF OneCreator, Creating
<1>7. CreatedInOrder'
  BY <1>0, <1>1 DEF CreatedInOrder, Exists, sharedVars
<1> QED
  BY <1>0, <1>4, <1>5, <1>6, <1>7 DEF FilesInv

(* A request takes the lock to create the next session.                    *)
LEMMA BeginCreateFiles ==
    ASSUME FilesInv, NEW h \in Handlers, NEW s \in Sessions, BeginCreate(h, s)
    PROVE  FilesInv'
<1>0. WorkTypeOK /\ WorkTypeOK' /\ CallsFit /\ SubjectsKnown /\ OneCreator /\ CreatedInOrder
  BY HandlerStepType DEF Request, FilesInv
<1>1. /\ Idle(h) /\ hpc[h] = "idle" /\ lock = {} /\ lock' = {h}
      /\ ~Exists(s) /\ \A r \in Sessions : r < s => Exists(r)
      /\ hpc' = [hpc EXCEPT ![h] = "supersede"]
      /\ target' = [target EXCEPT ![h] = s]
      /\ old' = [old EXCEPT ![h] = active[ConvOf[s]]]
      /\ UNCHANGED <<sharedVars, mem, threadVars>>
      /\ hpc \in [Handlers -> HandlerPCs] /\ target \in [Handlers -> Sessions \cup {NoSession}]
  BY <1>0
  DEF BeginCreate, HAt, HGo, HandlerOnly, runtimeVars, WorkTypeOK, TypeOK, HandlerTypeOK
<1>2. Stays /\ Waits
  BY <1>1 DEF Stays, Waits, Known
<1>3. \A g \in Handlers : hpc[g] \notin Creating
  BY <1>0, <1>1 DEF OneCreator
<1>4. CallsFit'
  BY <1>0, <1>1, <1>2, NoCallFits DEF sharedVars
<1>5. SubjectsKnown'
  <2>1. \A r \in Sessions : Known(r)' => Exists(r)'
    BY <1>0, <1>1 DEF SubjectsKnown, Exists, Known, sharedVars
  <2>2. \A t \in Threads : sid'[t] # NoSession => Known(sid[t])'
    BY <1>0, <1>1 DEF SubjectsKnown, threadVars, Known
  <2>3. \A g \in Handlers : hpc'[g] \notin Creating \cup {"idle"} => Known(target[g])'
    BY <1>0, <1>1 DEF SubjectsKnown, Creating, Known
  <2>4. \A g \in Handlers : hpc'[g] # "superseded"
    BY <1>1, <1>3 DEF Creating
  <2> QED BY <2>1, <2>2, <2>3, <2>4 DEF SubjectsKnown
<1>6. ~Known(s) /\ \A r \in Sessions : s < r => ~Exists(r)
  BY <1>0, <1>1 DEF SubjectsKnown, CreatedInOrder
<1>7. OneCreator'
  BY <1>1, <1>3, <1>6 DEF OneCreator, Creating, Exists, Known, sharedVars
<1>8. CreatedInOrder'
  BY <1>0, <1>1 DEF CreatedInOrder, Exists, sharedVars
<1> QED
  BY <1>0, <1>4, <1>5, <1>7, <1>8 DEF FilesInv

(* The service runs a call.                                                *)
LEMMA ServiceFiles ==
    ASSUME FilesInv, NEW a \in Actors, Serve(a) \/ AssignSummary(a)
    PROVE  FilesInv'
<1>0. WorkTypeOK /\ WorkTypeOK' /\ CallsFit /\ SubjectsKnown /\ OneCreator /\ CreatedInOrder
  BY ServiceType DEF FilesInv
<1> DEFINE s == call[a].sid
<1>1. /\ ~Idle(a) /\ s \in Sessions
      /\ \A b \in Actors : b # a => call'[b] = call[b]
      /\ \A r \in Sessions : r # s => doc'[r] = doc[r]
      /\ Idle(a)' \/ (call'[a].sid = s /\ call'[a].method = call[a].method)
      /\ UNCHANGED <<threadVars, handlerVars>>
  BY <1>0, ProgressFiles DEF Serve, AssignSummary
<1>2. /\ Known(s) \/ mem' = mem
      /\ \A r \in Sessions : Known(r)' <=> Known(r)
  <2>1. CASE Serve(a)
    BY <2>1 DEF Serve, runtimeVars, Known
  <2>2. CASE AssignSummary(a)
    <3>1. call[a].stage = "return" /\ mem' = [mem EXCEPT ![s] = call[a].buf.status]
      BY <2>2 DEF AssignSummary, Return
    <3>2. Known(s) /\ call[a].buf.status # "absent"
      BY <1>0, <1>1, <3>1 DEF CallsFit
    <3> QED BY <1>0, <1>1, <3>1, <3>2 DEF Known, WorkTypeOK, TypeOK, RuntimeTypeOK
  <2> QED BY <2>1, <2>2
<1>3. CASE call[a].method = "create"
  <2>1. /\ a \in Handlers /\ hpc[a] = "register" /\ s = target[a] /\ lock = {a} /\ ~Known(s)
        /\ \A r \in Sessions : r < s => Exists(r)
        /\ \A r \in Sessions : s < r => ~Exists(r)
    BY <1>0, <1>1, <1>3 DEF CallsFit, OneCreator, Creating
  <2>2. \A g \in Handlers : g # a => hpc[g] \notin Creating
    BY <1>0, <2>1 DEF OneCreator
  <2>3. doc'[s].status # "absent" /\ (call'[a].stage = "activate" \/ Idle(a)')
    BY <1>0, <1>3, ProgressFiles DEF Serve, AssignSummary, Exists
  <2>4. \A b \in Actors : b # a /\ ~Idle(b)' =>
            ~Idle(b) /\ call'[b] = call[b] /\ call[b].method # "create"
    BY <1>0, <1>1, <2>2 DEF Idle, CallsFit, Creating
  <2> HIDE DEF s
  <2>5. CallsFit'
    BY <1>0, <1>1, <1>2, <1>3, <2>1, <2>3, <2>4 DEF CallsFit, handlerVars, Exists, Idle
  <2>6. SubjectsKnown'
    BY <1>0, <1>1, <1>2, <2>3
    DEF SubjectsKnown, handlerVars, threadVars, Exists, Known, WorkTypeOK, TypeOK, ThreadTypeOK,
        AtWork, HandlerTypeOK, Creating
  <2>7. OneCreator'
    BY <1>1, <1>2, <2>1, <2>2, <2>3 DEF OneCreator, handlerVars, Creating, Exists, Known, Sessions
  <2>8. CreatedInOrder'
    BY <1>0, <1>1, <2>1, <2>3 DEF CreatedInOrder, Exists
  <2> QED BY <1>0, <2>5, <2>6, <2>7, <2>8 DEF FilesInv
<1>4. CASE call[a].method # "create"
  <2>1. Known(s) /\ Exists(s)
    BY <1>0, <1>1, <1>4 DEF CallsFit, SubjectsKnown
  <2>2. doc'[s].status # "absent" /\ call'[a].stage \in {"none", "pop"}
    BY <1>0, <1>4, <2>1, ProgressFiles DEF Serve, AssignSummary
  <2>3. \A r \in Sessions : (doc'[r].status # "absent") <=> Exists(r)
    BY <1>1, <2>1, <2>2 DEF Exists
  <2>4. \A b \in Actors : b # a /\ ~Idle(b)' => ~Idle(b) /\ call'[b] = call[b]
    BY <1>1 DEF Idle
  <2>5. \A g \in Handlers : ~Idle(g) /\ call[g].method = "create" => call'[g] = call[g]
    BY <1>1, <1>4, WorkerAssumption
  <2> HIDE DEF s
  <2>7. CallsFit'
    BY <1>0, <1>1, <1>2, <1>4, <2>1, <2>2, <2>3, <2>4
    DEF CallsFit, handlerVars, Exists, Idle, Known
  <2>8. SubjectsKnown'
    BY <1>0, <1>1, <1>2, <2>3
    DEF SubjectsKnown, handlerVars, threadVars, Exists, Known, WorkTypeOK, TypeOK, ThreadTypeOK,
        AtWork, HandlerTypeOK, Creating
  <2>6. OneCreator'
    <3> SUFFICES ASSUME NEW g \in Handlers, hpc[g] \in Creating
                 PROVE  /\ lock = {g} /\ mem'[target[g]] = "absent"
                        /\ hpc[g] # "register" => doc'[target[g]].status = "absent"
                        /\ hpc[g] = "register" =>
                              \/ doc'[target[g]].status # "absent"
                              \/ ~Idle(g)' /\ call'[g].method = "create"
                        /\ \A r \in Sessions : r < target[g] => doc'[r].status # "absent"
                        /\ \A r \in Sessions : target[g] < r => doc'[r].status = "absent"
      BY <1>1 DEF OneCreator, handlerVars, Exists, Known
    <3>1. target[g] \in Sessions
      BY <1>0 DEF WorkTypeOK, TypeOK, AtWork, HandlerTypeOK, Creating
    <3> QED
      BY <1>0, <1>2, <2>3, <2>5, <3>1 DEF OneCreator, Exists, Known, Idle
  <2>9. CreatedInOrder'
    BY <1>0, <2>3 DEF CreatedInOrder, Exists
  <2> QED BY <1>0, <2>6, <2>7, <2>8, <2>9 DEF FilesInv
<1> QED
  BY <1>3, <1>4

(* A restart forgets all work in progress; a session whose creation it     *)
(* cuts short is one like any other.                                       *)
LEMMA RestartFiles ==
    ASSUME FilesInv, Restart
    PROVE  FilesInv'
<1>0. WorkTypeOK' /\ CreatedInOrder
  BY RestartType DEF FilesInv
<1>1. PICK found \in SUBSET Sessions :
        /\ \A s \in found : Exists(s)
        /\ mem' = [s \in Sessions |-> IF s \in found THEN doc[s].status ELSE "absent"]
        /\ \A t \in Threads : sid'[t] = NoSession
        /\ \A h \in Handlers : hpc'[h] = "idle"
        /\ \A a \in Actors : call'[a] = NoCall
        /\ doc' = doc
  BY DEF Restart, Reload, Loadable
<1>2. CallsFit'
  BY <1>1 DEF CallsFit, Idle, NoCall
<1>3. SubjectsKnown'
  BY <1>1 DEF SubjectsKnown, Known, Exists
<1>4. OneCreator' /\ CreatedInOrder'
  BY <1>0, <1>1 DEF OneCreator, Creating, CreatedInOrder, Exists
<1> QED
  BY <1>0, <1>2, <1>3, <1>4 DEF FilesInv

(* The manager starts with no session and with nobody at work.             *)
LEMMA FilesInit == Init => FilesInv
<1> SUFFICES ASSUME Init PROVE FilesInv
  OBVIOUS
<1>1. /\ \A a \in Actors : Idle(a)
      /\ \A s \in Sessions : ~Known(s) /\ ~Exists(s)
      /\ \A t \in Threads : sid[t] = NoSession
      /\ \A h \in Handlers : hpc[h] = "idle"
  BY DEF Init, SharedInit, Idle, NoCall, Known, Exists, NoDoc
<1> QED
  BY <1>1, InitType DEF FilesInv, CallsFit, SubjectsKnown, OneCreator, Creating, CreatedInOrder

(* A request's step is one of a creation or one of other work.             *)
LEMMA HandlerCases ==
    ASSUME NEW h \in Handlers, HandlerStep(h) \/ Request(h)
    PROVE  \/ CreationStep(h) \/ RegisterSession(h) \/ WorkStep(h)
           \/ \E s \in Sessions : BeginCreate(h, s)
  BY DEF HandlerStep, Request, CreationStep, WorkStep

(* Every step of the worker keeps the invariant.                           *)
LEMMA NextFiles == FilesInv /\ [Next]_vars => FilesInv'
<1> SUFFICES ASSUME FilesInv, [Next]_vars PROVE FilesInv'
  OBVIOUS
<1>1. ASSUME NEW t \in Threads, ThreadStep(t) PROVE FilesInv'
  BY <1>1, ThreadStepFiles
<1>2. ASSUME NEW h \in Handlers, HandlerStep(h) \/ Request(h) PROVE FilesInv'
  BY <1>2, HandlerCases, CreationStepFiles, RegisterFiles, WorkStepFiles, BeginCreateFiles
<1>3. ASSUME NEW a \in Actors, Serve(a) \/ AssignSummary(a) PROVE FilesInv'
  BY <1>3, ServiceFiles
<1>4. CASE UNCHANGED vars
  <2>1. WorkTypeOK'
    BY <1>4, NextType DEF FilesInv
  <2> QED
    BY <1>4, <2>1
    DEF vars, sharedVars, runtimeVars, threadVars, handlerVars, FilesInv, CallsFit,
        SubjectsKnown, OneCreator, CreatedInOrder, Idle, Known, Exists
<1> QED
  BY <1>1, <1>2, <1>3, <1>4 DEF Next

-----------------------------------------------------------------------------
(* The worker uses the service as SharedGoal lets its callers use it.      *)

(* A known session is not being created, hence may be subject of a method. *)
LEMMA KnownMayEnter ==
    ASSUME FilesInv, NEW a \in Actors, NEW s \in Sessions, Known(s), Calls(a, s)
    PROVE  EnterMethod(a)
<1>1. Exists(s)
  BY DEF FilesInv, SubjectsKnown
<1>2. \A b \in CallsOn(s) : call[b].method # "create"
  <2> SUFFICES ASSUME NEW b \in Actors, ~Idle(b), call[b].sid = s, call[b].method = "create"
               PROVE  FALSE
    BY DEF CallsOn
  <2>1. b \in Handlers /\ hpc[b] = "register" /\ target[b] = s
    BY DEF FilesInv, CallsFit
  <2> QED BY <2>1 DEF FilesInv, OneCreator, Creating
<1> QED
  BY <1>1, <1>2 DEF EnterMethod, Calls, RunCalls

(* Each step of the worker is a step of SharedGoal or leaves the files and *)
(* the calls unchanged.                                                    *)
LEMMA StepRefines ==
    ASSUME FilesInv, [Next]_vars
    PROVE  [SharedNext]_sharedVars
<1>0. WorkTypeOK /\ SubjectsKnown /\ CallsFit /\ OneCreator
  BY DEF FilesInv
<1>1. ASSUME NEW t \in Threads, ThreadStep(t) PROVE [SharedNext]_sharedVars
  <2>1. t \in Actors /\ sid[t] \in Sessions /\ Known(sid[t])
    BY <1>0, <1>1, ThreadFiles DEF SubjectsKnown, Sessions, NoSession
  <2>2. CASE RunCalls(t, sid[t])
    BY <2>1, <2>2, KnownMayEnter DEF SharedNext, Calls
  <2>3. CASE SaveRequest(sid[t], noted[sid[t]]) /\ UNCHANGED <<doc, active, call>>
    BY <1>0, <2>1, <2>3 DEF SharedNext, Direct, WorkTypeOK, TypeOK, RuntimeTypeOK
  <2> QED BY <1>0, <1>1, <2>2, <2>3, ThreadFiles
<1>2. ASSUME NEW h \in Handlers, CreationStep(h) PROVE [SharedNext]_sharedVars
  <2>1. /\ h \in Actors /\ target[h] \in Sessions
        /\ hpc[h] \in {"supersede", "superseded", "make"}
        /\ hpc'[h] = "superseded" => Known(old[h]) /\ old[h] \in Sessions
        /\ UNCHANGED <<doc, req>>
    BY <1>0, <1>2, CreationMoves, WorkerAssumption
  <2>2. CASE hpc'[h] = "register"
    <3>1. Enter(h, "create", target[h], "planning", {})
      BY <1>0, <1>2, <2>2, CreationMoves
    <3>2. ~Exists(target[h]) /\ lock = {h}
      BY <1>0, <2>1 DEF OneCreator, Creating
    <3>3. CallsOn(target[h]) = {}
      <4> SUFFICES ASSUME NEW b \in Actors, ~Idle(b), call[b].sid = target[h] PROVE FALSE
        BY DEF CallsOn
      <4>1. b \in Handlers /\ hpc[b] = "register"
        BY <1>0, <3>2 DEF CallsFit, SubjectsKnown
      <4>2. b = h
        BY <1>0, <3>2, <4>1 DEF OneCreator, Creating
      <4> QED BY <2>1, <4>1, <4>2
    <3> QED BY <2>1, <3>1, <3>2, <3>3 DEF SharedNext, EnterCreate
  <2>3. ASSUME NEW m \in {"supersede", "read"}, Enter(h, m, old[h], "planning", {}),
               old[h] \in Sessions, hpc[h] = "superseded" \/ hpc'[h] = "superseded"
        PROVE  [SharedNext]_sharedVars
    <3>1. Known(old[h]) /\ Calls(h, old[h])
      BY <1>0, <2>1, <2>3 DEF SubjectsKnown, Calls, RunCalls
    <3> QED BY <2>1, <2>3, <3>1, KnownMayEnter DEF SharedNext
  <2>4. ASSUME NEW s \in Sessions, ClearActive(s), UNCHANGED call
        PROVE  [SharedNext]_sharedVars
    BY <2>1, <2>4 DEF SharedNext, Direct
  <2> QED BY <1>0, <1>2, <2>2, <2>3, <2>4, CreationMoves
<1>3. ASSUME NEW h \in Handlers, WorkStep(h) PROVE [SharedNext]_sharedVars
  <2>1. ASSUME NEW s \in Sessions, Known(s), Calls(h, s) PROVE [SharedNext]_sharedVars
    BY <2>1, KnownMayEnter, WorkerAssumption DEF SharedNext
  <2>2. CASE /\ SaveRequest(target[h], noted[target[h]]) /\ UNCHANGED <<doc, active, call>>
             /\ target[h] \in Sessions
    BY <1>0, <2>2 DEF SharedNext, Direct, WorkTypeOK, TypeOK, RuntimeTypeOK
  <2>3. CASE ClearActive(target[h]) /\ UNCHANGED <<doc, req, call>> /\ target[h] \in Sessions
    BY <2>3 DEF SharedNext, Direct
  <2> QED BY <1>0, <1>3, <2>1, <2>2, <2>3, WorkMoves
<1>4. ASSUME NEW h \in Handlers, NEW s \in Sessions, RegisterSession(h) \/ BeginCreate(h, s)
      PROVE  UNCHANGED sharedVars
  BY <1>4 DEF RegisterSession, BeginCreate
<1>5. ASSUME NEW h \in Handlers, HandlerStep(h) \/ Request(h) PROVE [SharedNext]_sharedVars
  <2>1. CASE RegisterSession(h)
    BY <2>1 DEF RegisterSession
  <2> QED BY <1>2, <1>3, <1>4, <1>5, <2>1, HandlerCases
<1>6. ASSUME NEW a \in Actors, Serve(a) \/ AssignSummary(a) PROVE [SharedNext]_sharedVars
  BY <1>6 DEF Serve, AssignSummary, SharedNext
<1>7. CASE UNCHANGED vars
  BY <1>7 DEF vars
<1> QED
  BY <1>1, <1>5, <1>6, <1>7 DEF Next

(* The manager and its threads implement SharedGoal: they enter a method   *)
(* only for a session whose creation is over, and create none twice, so    *)
(* that all that is true of the shared files under any such callers is     *)
(* true of the worker's.                                                   *)
THEOREM WorkerImplementsService == Spec => SharedSpec
<1>1. Init => FilesInv /\ SharedInit
  BY FilesInit DEF Init
<1>2. FilesInv /\ [Next]_vars => [SharedNext]_sharedVars
  BY StepRefines
<1> QED
  BY <1>1, <1>2, NextFiles, PTL DEF Spec, SharedSpec

(* In the worker, no finished session is left behind as the active one of  *)
(* its conversation, whatever threads and requests do at the same time.    *)
THEOREM WorkerLeavesMap == Spec => []TerminalLeavesMap
  BY WorkerImplementsService, FinishedSessionsLeaveMap, PTL

-----------------------------------------------------------------------------
(* The notes of a session survive.  Whatever else happens to the request   *)
(* file, the request that added a note saves all notes after it.           *)

(* Every step of the worker, restarts included, keeps the invariant.       *)
LEMMA RestartNextFiles == FilesInv /\ [RestartNext]_vars => FilesInv'
  BY NextFiles, RestartFiles DEF RestartNext

BeingKept(s) == \E h \in Handlers : hpc[h] = "saveRequest" /\ target[h] = s

(* The file has what the manager has, or a continue of the session is      *)
(* still to save it; a session in creation has no notes.                   *)
RequestInv ==
    /\ FilesInv
    /\ \A s \in Sessions : ~Known(s) => noted[s] = {}
    /\ \A s \in Sessions : Known(s) => req[s] = noted[s] \/ BeingKept(s)
    /\ \A h \in Handlers : hpc[h] = "register" /\ Exists(target[h]) => req[target[h]] = {}
    /\ \A a \in Actors : ~Idle(a) /\ call[a].method = "update_input" =>
           a \in Handlers /\ hpc[a] = "saveRequest" /\ target[a] = call[a].sid

(* What a step of other work than a creation does to the notes.            *)
LEMMA WorkNotes ==
    ASSUME WorkTypeOK, NEW h \in Handlers, WorkStep(h)
    PROVE  \/ /\ UNCHANGED <<noted, req>> /\ hpc[h] # "saveRequest"
              /\ UNCHANGED call \/ call'[h].method # "update_input"
           \/ /\ hpc[h] = "saveRequest" /\ noted' = noted /\ call' = call
              /\ req' = [req EXCEPT ![target[h]] = noted[target[h]]]
           \/ \E s \in Sessions :
                  /\ hpc[h] = "idle" /\ hpc'[h] = "saveRequest" /\ target'[h] = s /\ req' = req
                  /\ Known(s) /\ call'[h].sid = s
                  /\ \A r \in Sessions : r # s => noted'[r] = noted[r]
<1>0. /\ h \in Actors /\ call \in [Actors -> Call] /\ hpc \in [Handlers -> HandlerPCs]
      /\ target \in [Handlers -> Sessions \cup {NoSession}]
  BY WorkerAssumption DEF WorkTypeOK, TypeOK, SharedTypeOK, HandlerTypeOK
<1>1. CASE StoreRequest(h)
  BY <1>1 DEF StoreRequest, HAt, SaveRequest, runtimeVars
<1>2. CASE \/ ResumeSession(h) \/ NotProcessing(h) \/ LeaveNote(h) \/ AlreadyProcessing(h)
           \/ UnmapCanceled(h) \/ (\E t \in Threads : StartThread(h, t))
  BY <1>2
  DEF HAt, ResumeSession, NotProcessing, LeaveNote, AlreadyProcessing, UnmapCanceled,
      StartThread, sharedVars, runtimeVars
<1>3. CASE \/ RefreshContinued(h) \/ RefreshCanceled(h) \/ (\E s \in Sessions : BeginCancel(h, s))
  BY <1>0, <1>3 DEF HAt, RefreshContinued, RefreshCanceled, BeginCancel, Enter, runtimeVars
<1>4. CASE \E s \in Sessions, n \in Notes : BeginContinue(h, s, n)
  BY <1>0, <1>4 DEF HAt, HGo, BeginContinue, Enter, WorkTypeOK, TypeOK, RuntimeTypeOK
<1> QED
  BY <1>1, <1>2, <1>3, <1>4 DEF WorkStep

(* What a run does to the notes: save them.                                *)
LEMMA ThreadNotes ==
    ASSUME WorkTypeOK, NEW t \in Threads, ThreadStep(t)
    PROVE  /\ noted' = noted
           /\ req' = req \/ req' = [req EXCEPT ![sid[t]] = noted[sid[t]]]
           /\ \A b \in Actors : call'[b] = call[b] \/ call'[b].method # "update_input"
           /\ \A b \in Actors : b # t => call'[b] = call[b]
<1>1. noted' = noted /\ t \in Actors
  BY ThreadKnows, ThreadFiles
<1>2. CASE RunCalls(t, sid[t])
  BY <1>1, <1>2 DEF RunCalls, Enter, WorkTypeOK, TypeOK, SharedTypeOK
<1>3. CASE SaveRequest(sid[t], noted[sid[t]]) /\ UNCHANGED <<doc, active, call>>
  BY <1>1, <1>3 DEF SaveRequest
<1>4. CASE UNCHANGED sharedVars
  BY <1>1, <1>4 DEF sharedVars
<1> QED
  BY <1>2, <1>3, <1>4, ThreadFiles

(* What a stage of a call does to the request files.                       *)
LEMMA ProgressNotes ==
    ASSUME WorkTypeOK, NEW a \in Actors, Progress(a) \/ Return(a), call[a].sid \in Sessions
    PROVE  \/ req' = req
           \/ call[a].method = "update_input" /\ \A r \in Sessions : r # call[a].sid => req'[r] = req[r]
           \/ CreateDocument(a) /\ req' = [req EXCEPT ![call[a].sid] = {}]
<1>1. CASE UpdateUserInput(a)
  BY <1>1 DEF UpdateUserInput, Saving, WorkTypeOK, TypeOK, SharedTypeOK
<1>2. CASE \/ SetVerdict(a) \/ WriteGemini(a) \/ WriteCodex(a) \/ MarkSuperseded(a)
           \/ Pop(a) \/ Activate(a) \/ Return(a)
  BY <1>2 DEF SetVerdict, WriteGemini, WriteCodex, MarkSuperseded, Pop, Activate, Return
<1>3. CASE CreateDocument(a)
  BY <1>3 DEF CreateDocument
<1> QED
  BY <1>1, <1>2, <1>3 DEF Progress

(* A step of a thread keeps the request files in line with the notes.      *)
LEMMA ThreadStepRequest ==
    ASSUME RequestInv, NEW t \in Threads, ThreadStep(t)
    PROVE  RequestInv'
<1>0. WorkTypeOK /\ SubjectsKnown /\ OneCreator /\ FilesInv'
  BY ThreadStepFiles DEF RequestInv, FilesInv
<1>1. /\ t \in Actors /\ t \notin Handlers /\ sid[t] \in Sessions /\ UNCHANGED handlerVars
      /\ Known(sid[t])
  BY <1>0, ThreadFiles, WorkerAssumption DEF SubjectsKnown, Sessions, NoSession
<1>2. doc' = doc /\ \A s \in Sessions : Known(s)' <=> Known(s)
  <2>1. doc' = doc
    BY <1>0, ThreadFiles DEF RunCalls, Enter, sharedVars
  <2> QED BY <1>0, <1>1, <2>1, ThreadKnows DEF Known
<1>3. req \in [Sessions -> SUBSET Notes] /\ \A h \in Handlers : hpc[h] = "register" => target[h] # sid[t]
  BY <1>0, <1>1 DEF WorkTypeOK, TypeOK, SharedTypeOK, OneCreator, Creating
<1>4. \A s \in Sessions : req'[s] = req[s] \/ (s = sid[t] /\ req'[s] = noted[s])
  BY <1>0, <1>1, <1>3, ThreadNotes
<1>5. \A s \in Sessions : BeingKept(s)' <=> BeingKept(s)
  BY <1>1 DEF BeingKept, handlerVars
<1>6. ASSUME NEW h \in Handlers, hpc'[h] = "register", Exists(target[h])'
      PROVE  req'[target'[h]] = {}
  <2>1. target[h] \in Sessions
    BY <1>0, <1>1, <1>6 DEF WorkTypeOK, TypeOK, AtWork, HandlerTypeOK, handlerVars
  <2> QED
    BY <1>1, <1>2, <1>3, <1>4, <1>6, <2>1 DEF RequestInv, handlerVars, Exists
<1>7. \A a \in Actors : ~Idle(a)' /\ call'[a].method = "update_input" =>
          a \in Handlers /\ hpc'[a] = "saveRequest" /\ target'[a] = call'[a].sid
  BY <1>0, <1>1, ThreadNotes DEF RequestInv, handlerVars, Idle
<1> QED
  BY <1>0, <1>2, <1>4, <1>5, <1>6, <1>7, ThreadNotes DEF RequestInv

(* So does a step of a continue, a cancel or a start.                      *)
LEMMA WorkStepRequest ==
    ASSUME RequestInv, NEW h \in Handlers, WorkStep(h)
    PROVE  RequestInv'
<1>0. WorkTypeOK /\ SubjectsKnown /\ OneCreator /\ FilesInv' /\ h \in Actors
  BY WorkStepFiles, WorkerAssumption DEF RequestInv, FilesInv
<1>1. /\ Idle(h) /\ hpc[h] \notin Creating /\ hpc'[h] \notin Creating /\ doc' = doc
      /\ \A s \in Sessions : Known(s)' <=> Known(s)
      /\ \A g \in Handlers : g # h => hpc'[g] = hpc[g] /\ target'[g] = target[g]
  BY <1>0, WorkMoves
<1>2. \A b \in Actors : b # h => call'[b] = call[b]
  <2>1. \A s \in Sessions : Calls(h, s) => \A b \in Actors : b # h => call'[b] = call[b]
    BY <1>0 DEF Calls, RunCalls, Enter, WorkTypeOK, TypeOK, SharedTypeOK
  <2> QED BY <1>0, <2>1, WorkMoves DEF sharedVars
<1>3. /\ req \in [Sessions -> SUBSET Notes]
      /\ \A g \in Handlers : hpc[g] # "idle" => target[g] \in Sessions
  BY <1>0 DEF WorkTypeOK, TypeOK, SharedTypeOK, AtWork, HandlerTypeOK
<1>4. ASSUME NEW g \in Handlers, hpc'[g] = "register", Exists(target[g])'
      PROVE  /\ target'[g] = target[g] /\ ~Known(target[g]) /\ target[g] \in Sessions
             /\ req[target[g]] = {}
  <2>1. g # h /\ hpc[g] = "register" /\ target'[g] = target[g]
    BY <1>1, <1>4 DEF Creating
  <2> QED BY <1>0, <1>1, <1>3, <1>4, <2>1 DEF RequestInv, OneCreator, Creating, Exists
<1>5. CASE /\ UNCHANGED <<noted, req>> /\ hpc[h] # "saveRequest"
           /\ UNCHANGED call \/ call'[h].method # "update_input"
  <2>1. \A s \in Sessions : BeingKept(s) => BeingKept(s)'
    BY <1>1, <1>5 DEF BeingKept
  <2>2. \A a \in Actors : ~Idle(a)' /\ call'[a].method = "update_input" =>
            a \in Handlers /\ hpc'[a] = "saveRequest" /\ target'[a] = call'[a].sid
    BY <1>1, <1>2, <1>5 DEF RequestInv, Idle
  <2> QED BY <1>0, <1>1, <1>4, <1>5, <2>1, <2>2 DEF RequestInv
<1>6. CASE /\ hpc[h] = "saveRequest" /\ noted' = noted /\ call' = call
           /\ req' = [req EXCEPT ![target[h]] = noted[target[h]]]
  <2>1. /\ req'[target[h]] = noted'[target[h]] /\ Known(target[h])
        /\ \A s \in Sessions : s # target[h] => req'[s] = req[s] /\ (BeingKept(s) => BeingKept(s)')
    BY <1>0, <1>1, <1>3, <1>6 DEF BeingKept, SubjectsKnown, Creating
  <2>2. \A a \in Actors : ~Idle(a)' /\ call'[a].method = "update_input" =>
            a \in Handlers /\ hpc'[a] = "saveRequest" /\ target'[a] = call'[a].sid
    BY <1>1, <1>6 DEF RequestInv, Idle
  <2> QED BY <1>0, <1>1, <1>4, <1>6, <2>1, <2>2 DEF RequestInv
<1>7. ASSUME NEW s \in Sessions,
             hpc[h] = "idle", hpc'[h] = "saveRequest", target'[h] = s, req' = req,
             Known(s), call'[h].sid = s, \A r \in Sessions : r # s => noted'[r] = noted[r]
      PROVE  RequestInv'
  <2>1. BeingKept(s)' /\ \A r \in Sessions : BeingKept(r) => BeingKept(r)'
    BY <1>1, <1>7 DEF BeingKept
  <2>2. \A a \in Actors : ~Idle(a)' /\ call'[a].method = "update_input" =>
            a \in Handlers /\ hpc'[a] = "saveRequest" /\ target'[a] = call'[a].sid
    BY <1>1, <1>2, <1>7 DEF RequestInv, Idle
  <2> QED BY <1>0, <1>1, <1>4, <1>7, <2>1, <2>2 DEF RequestInv
<1> QED
  BY <1>0, <1>5, <1>6, <1>7, WorkNotes

(* So does a creation, whose request is written empty before its session   *)
(* is known.                                                               *)
LEMMA CreationRequest ==
    ASSUME RequestInv, NEW h \in Handlers,
           CreationStep(h) \/ RegisterSession(h) \/ \E s \in Sessions : BeginCreate(h, s)
    PROVE  RequestInv'
<1>0. WorkTypeOK /\ SubjectsKnown /\ OneCreator /\ FilesInv' /\ h \in Actors
  BY CreationStepFiles, RegisterFiles, BeginCreateFiles, WorkerAssumption DEF RequestInv, FilesInv
<1>1. /\ hpc \in [Handlers -> HandlerPCs] /\ target \in [Handlers -> Sessions \cup {NoSession}]
      /\ mem \in [Sessions -> Status \cup {"absent"}]
      /\ \A g \in Handlers : hpc[g] # "idle" => target[g] \in Sessions
  BY <1>0 DEF WorkTypeOK, TypeOK, AtWork, HandlerTypeOK, RuntimeTypeOK
<1>2. CASE CreationStep(h)
  <2>1. /\ hpc[h] \in {"supersede", "superseded", "make"} /\ Idle(h)
        /\ hpc'[h] \in {"superseded", "make", "register"}
        /\ \A g \in Handlers : g # h => hpc'[g] = hpc[g]
        /\ UNCHANGED <<doc, req, noted, target>>
        /\ \A s \in Sessions : Known(s)' <=> Known(s)
    BY <1>0, <1>2, CreationMoves
  <2>2. ~Exists(target[h])
    BY <1>0, <2>1 DEF OneCreator, Creating
  <2>3. \A s \in Sessions : BeingKept(s) => BeingKept(s)'
    BY <2>1 DEF BeingKept
  <2>4. \A b \in Actors : \/ call'[b] = call[b]
                          \/ b = h /\ call'[b].method # "update_input"
    BY <1>0, <1>2, CreationMoves DEF Enter, sharedVars, WorkTypeOK, TypeOK, SharedTypeOK
  <2>5. \A a \in Actors : ~Idle(a)' /\ call'[a].method = "update_input" =>
            a \in Handlers /\ hpc'[a] = "saveRequest" /\ target'[a] = call'[a].sid
    BY <2>1, <2>4 DEF RequestInv, Idle
  <2> QED
    BY <1>0, <2>1, <2>2, <2>3, <2>5 DEF RequestInv, Exists
<1>3. CASE RegisterSession(h)
  <2>1. /\ Idle(h) /\ hpc[h] = "register" /\ hpc' = [hpc EXCEPT ![h] = "start"]
        /\ mem' = [mem EXCEPT ![target[h]] = "planning"]
        /\ UNCHANGED <<sharedVars, noted, target>>
    BY <1>3 DEF RegisterSession, HAt, HGo
  <2>2. Exists(target[h]) /\ ~Known(target[h]) /\ target[h] \in Sessions
    BY <1>0, <1>1, <2>1 DEF OneCreator, Creating
  <2>3. req[target[h]] = noted[target[h]]
    BY <2>1, <2>2 DEF RequestInv
  <2>4. \A s \in Sessions : Known(s)' <=> Known(s) \/ s = target[h]
    BY <1>1, <2>1, <2>2 DEF Known
  <2>5. \A s \in Sessions : BeingKept(s) => BeingKept(s)'
    BY <1>1, <2>1 DEF BeingKept
  <2>6. \A g \in Handlers : hpc'[g] = "register" => hpc[g] = "register"
    BY <1>1, <2>1
  <2>7. \A a \in Actors : ~Idle(a)' /\ call'[a].method = "update_input" =>
            a \in Handlers /\ hpc'[a] = "saveRequest" /\ target'[a] = call'[a].sid
    BY <1>1, <2>1 DEF RequestInv, Idle, sharedVars
  <2> QED
    BY <1>0, <2>1, <2>3, <2>4, <2>5, <2>6, <2>7 DEF RequestInv, Exists, sharedVars
<1>4. ASSUME NEW s \in Sessions, BeginCreate(h, s) PROVE RequestInv'
  <2>1. /\ Idle(h) /\ hpc[h] = "idle" /\ hpc' = [hpc EXCEPT ![h] = "supersede"]
        /\ target' = [target EXCEPT ![h] = s]
        /\ UNCHANGED <<sharedVars, noted, mem>>
    BY <1>4 DEF BeginCreate, HAt, HGo, runtimeVars
  <2>2. /\ \A r \in Sessions : (BeingKept(r) => BeingKept(r)') /\ (Known(r)' <=> Known(r))
        /\ \A g \in Handlers : hpc'[g] = "register" => hpc[g] = "register" /\ target'[g] = target[g]
    BY <1>1, <2>1 DEF BeingKept, Known
  <2>3. \A a \in Actors : ~Idle(a)' /\ call'[a].method = "update_input" =>
            a \in Handlers /\ hpc'[a] = "saveRequest" /\ target'[a] = call'[a].sid
    BY <1>1, <2>1 DEF RequestInv, Idle, sharedVars
  <2> QED
    BY <1>0, <2>1, <2>2, <2>3 DEF RequestInv, Exists, sharedVars
<1> QED
  BY <1>2, <1>3, <1>4

(* So does the service: of its calls only update_input and create write    *)
(* the request.                                                            *)
LEMMA ServiceRequest ==
    ASSUME RequestInv, NEW a \in Actors, Serve(a) \/ AssignSummary(a)
    PROVE  RequestInv'
<1>0. WorkTypeOK /\ WorkTypeOK' /\ SubjectsKnown /\ CallsFit /\ OneCreator /\ FilesInv'
  BY ServiceFiles DEF RequestInv, FilesInv
<1>1. (Progress(a) \/ Return(a)) /\ UNCHANGED <<noted, hpc, target>>
  BY DEF Serve, AssignSummary, runtimeVars, handlerVars
<1>2. /\ ~Idle(a) /\ call[a].sid \in Sessions
      /\ \A b \in Actors : b # a => call'[b] = call[b]
      /\ Idle(a)' \/ (call'[a].sid = call[a].sid /\ call'[a].method = call[a].method)
  BY <1>0, <1>1, ProgressFiles
<1>3. \A s \in Sessions : Known(s)' <=> Known(s)
  <2>1. CASE Serve(a)
    BY <2>1 DEF Serve, runtimeVars, Known
  <2>2. CASE AssignSummary(a)
    <3>1. call[a].stage = "return" /\ mem' = [mem EXCEPT ![call[a].sid] = call[a].buf.status]
      BY <2>2 DEF AssignSummary, Return
    <3>2. Known(call[a].sid) /\ call[a].buf.status # "absent"
      BY <1>0, <1>2, <3>1 DEF CallsFit
    <3> QED BY <1>0, <1>2, <3>1, <3>2 DEF Known, WorkTypeOK, TypeOK, RuntimeTypeOK
  <2> QED BY <2>1, <2>2
<1>4. \A b \in Actors : ~Idle(b)' /\ call'[b].method = "update_input" =>
          b \in Handlers /\ hpc'[b] = "saveRequest" /\ target'[b] = call'[b].sid
  BY <1>1, <1>2 DEF RequestInv, Idle
<1>5. \A s \in Sessions : BeingKept(s)' <=> BeingKept(s)
  BY <1>1 DEF BeingKept
<1>6. /\ req \in [Sessions -> SUBSET Notes]
      /\ \A g \in Handlers : hpc[g] = "register" => target[g] \in Sessions /\ ~Known(target[g])
  BY <1>0 DEF WorkTypeOK, TypeOK, SharedTypeOK, AtWork, HandlerTypeOK, OneCreator, Creating
<1>7. CASE call[a].method = "create"
  <2>1. /\ a \in Handlers /\ hpc[a] = "register" /\ call[a].sid = target[a] /\ ~Known(target[a])
        /\ \A g \in Handlers : hpc[g] = "register" => g = a
    BY <1>0, <1>2, <1>7 DEF CallsFit, OneCreator, Creating
  <2>2. \/ req' = req /\ Exists(target[a])
        \/ req' = [req EXCEPT ![target[a]] = {}]
    BY <1>0, <1>1, <1>7, <2>1, ProgressFiles DEF CreateDocument, Activate
  <2>3. /\ \A s \in Sessions : s # target[a] => req'[s] = req[s]
        /\ req'[target[a]] = {}
    BY <1>2, <1>6, <2>1, <2>2 DEF RequestInv
  <2> QED
    BY <1>0, <1>1, <1>3, <1>4, <1>5, <2>1, <2>3 DEF RequestInv
<1>8. CASE call[a].method # "create"
  <2>1. /\ Known(call[a].sid) /\ Exists(call[a].sid)
        /\ call[a].method = "update_input" => BeingKept(call[a].sid)
    BY <1>0, <1>2, <1>8 DEF CallsFit, SubjectsKnown, RequestInv, BeingKept
  <2>2. \A s \in Sessions : req'[s] # req[s] => Known(s) /\ BeingKept(s)
    BY <1>0, <1>1, <1>2, <1>8, <2>1, ProgressNotes DEF CreateDocument, Saving
  <2>3. ASSUME NEW g \in Handlers, hpc[g] = "register", doc'[target[g]].status # "absent"
        PROVE  req'[target[g]] = {}
    <3>1. target[g] # call[a].sid /\ Exists(target[g])
      BY <1>0, <1>1, <1>6, <2>1, <2>3, ProgressFiles DEF Exists
    <3> QED BY <1>6, <2>2, <2>3, <3>1 DEF RequestInv
  <2> QED
    BY <1>0, <1>1, <1>3, <1>4, <1>5, <2>2, <2>3 DEF RequestInv, Exists
<1> QED
  BY <1>7, <1>8

(* Every step of the worker with restarts keeps the invariant.             *)
LEMMA RestartNextRequest == RequestInv /\ [RestartNext]_vars => RequestInv'
<1> SUFFICES ASSUME RequestInv, [RestartNext]_vars PROVE RequestInv'
  OBVIOUS
<1>0. FilesInv /\ FilesInv'
  BY RestartNextFiles DEF RequestInv
<1>1. ASSUME NEW t \in Threads, ThreadStep(t) PROVE RequestInv'
  BY <1>1, ThreadStepRequest
<1>2. ASSUME NEW h \in Handlers, HandlerStep(h) \/ Request(h) PROVE RequestInv'
  BY <1>2, HandlerCases, WorkStepRequest, CreationRequest
<1>3. ASSUME NEW a \in Actors, Serve(a) \/ AssignSummary(a) PROVE RequestInv'
  BY <1>3, ServiceRequest
<1>4. CASE Restart
  <2>1. PICK found \in SUBSET Sessions :
          /\ \A s \in found : Exists(s)
          /\ mem' = [s \in Sessions |-> IF s \in found THEN doc[s].status ELSE "absent"]
          /\ noted' = [s \in Sessions |-> IF s \in found THEN req[s] ELSE {}]
          /\ \A h \in Handlers : hpc'[h] = "idle"
          /\ \A a \in Actors : call'[a] = NoCall
          /\ req' = req
    BY <1>4 DEF Restart, Reload, Loadable
  <2>2. \A s \in Sessions : Known(s)' <=> s \in found
    BY <2>1 DEF Known, Exists
  <2> QED
    BY <1>0, <2>1, <2>2 DEF RequestInv, Idle, NoCall
<1>5. CASE UNCHANGED vars
  BY <1>0, <1>5
  DEF vars, sharedVars, runtimeVars, handlerVars, RequestInv, BeingKept, Known, Exists, Idle
<1> QED
  BY <1>1, <1>2, <1>3, <1>4, <1>5 DEF RestartNext, Next

(* When a continue has been answered, the request file holds all that the  *)
(* users said to the session: no writer of the shared document and no      *)
(* restart, in between or in the middle of anything, makes it forget a     *)
(* note.                                                                   *)
THEOREM NotesSurvive == RestartSpec => []NotesDurable
<1>1. Init => RequestInv
  <2> SUFFICES ASSUME Init PROVE RequestInv
    OBVIOUS
  <2>1. /\ \A a \in Actors : Idle(a)
        /\ \A s \in Sessions : ~Known(s) /\ noted[s] = {}
        /\ \A h \in Handlers : hpc[h] = "idle"
    BY DEF Init, SharedInit, Idle, NoCall, Known
  <2> QED BY <2>1, FilesInit DEF RequestInv
<1>2. RequestInv => NotesDurable
  BY DEF RequestInv, NotesDurable, BeingKept
<1> QED
  BY <1>1, <1>2, RestartNextRequest, PTL DEF RestartSpec

-----------------------------------------------------------------------------
(* The newest session of a conversation is the one that may be active.  A  *)
(* creation has emptied the entry by the time it writes the new session,   *)
(* and no other step puts a session into the map.                          *)

EntryOf(h) == active[ConvOf[target[h]]]

(* The request's call that marks the old session is still to empty the     *)
(* entry.                                                                  *)
StillClearing(h) ==
    /\ call[h].method = "supersede" /\ call[h].sid = old[h]
    /\ call[h].stage \in {"save", "pop"}

EntriesInv ==
    /\ FilesInv
    /\ \A c \in Conversations : active[c] # NoSession => ConvOf[active[c]] = c
    /\ \A r, s \in Sessions :
           r < s /\ ConvOf[r] = ConvOf[s] /\ Exists(s) => active[ConvOf[s]] # r
    /\ \A h \in Handlers : hpc[h] \in {"supersede", "superseded"} =>
           /\ old[h] # NoSession => ConvOf[old[h]] = ConvOf[target[h]]
           /\ EntryOf(h) \in {NoSession, old[h]}
    /\ \A h \in Handlers : hpc[h] = "superseded" => EntryOf(h) = NoSession \/ StillClearing(h)
    /\ \A h \in Handlers : hpc[h] \in {"make", "register"} => EntryOf(h) \in {NoSession, target[h]}

(* Entries may be emptied, sessions known, and requests other than the one *)
(* that creates a session may do anything.                                 *)
LEMMA EntriesEmptied ==
    ASSUME EntriesInv, FilesInv', \A s \in Sessions : Exists(s)' => Exists(s),
           \A c \in Conversations : active'[c] \in {active[c], NoSession},
           \A h \in Handlers :
               \/ /\ hpc'[h] = hpc[h] /\ target'[h] = target[h] /\ old'[h] = old[h]
                  /\ call'[h] = call[h] \/ hpc[h] # "superseded" \/ EntryOf(h)' = NoSession
                         \/ StillClearing(h)'
               \/ hpc'[h] \notin Creating
    PROVE  EntriesInv'
<1>0. WorkTypeOK
  BY DEF EntriesInv, FilesInv
<1>1. \A h \in Handlers : hpc[h] # "idle" => target[h] \in Sessions
  BY <1>0 DEF WorkTypeOK, TypeOK, AtWork, HandlerTypeOK
<1>2. \A s \in Sessions : ConvOf[s] \in Conversations
  BY SharedGoalAssumption
<1>3. \A s \in Sessions : Exists(s)' => Exists(s)
  OBVIOUS
<1>4. \A r, s \in Sessions :
          r < s /\ ConvOf[r] = ConvOf[s] /\ Exists(s)' => active'[ConvOf[s]] # r
  <2>1. NoSession \notin Sessions
    BY DEF Sessions, NoSession
  <2> QED BY <1>2, <1>3, <2>1 DEF EntriesInv
<1>5. ASSUME NEW h \in Handlers, hpc'[h] \in Creating
      PROVE  /\ hpc'[h] = hpc[h] /\ target'[h] = target[h] /\ old'[h] = old[h]
             /\ EntryOf(h)' \in {EntryOf(h), NoSession} /\ target[h] \in Sessions
             /\ \/ call'[h] = call[h] \/ hpc[h] # "superseded" \/ EntryOf(h)' = NoSession
                \/ StillClearing(h)'
  BY <1>1, <1>2, <1>5 DEF EntryOf, Creating
<1>6. ASSUME NEW h \in Handlers, hpc'[h] \in {"supersede", "superseded"}
      PROVE  /\ old'[h] # NoSession => ConvOf[old'[h]] = ConvOf[target'[h]]
             /\ EntryOf(h)' \in {NoSession, old'[h]}
  BY <1>5, <1>6 DEF EntriesInv, Creating
<1>7. ASSUME NEW h \in Handlers, hpc'[h] = "superseded"
      PROVE  EntryOf(h)' = NoSession \/ StillClearing(h)'
  BY <1>5, <1>7 DEF EntriesInv, Creating, StillClearing
<1>8. ASSUME NEW h \in Handlers, hpc'[h] \in {"make", "register"}
      PROVE  EntryOf(h)' \in {NoSession, target'[h]}
  BY <1>5, <1>8 DEF EntriesInv, Creating
<1>9. \A c \in Conversations : active'[c] # NoSession => ConvOf[active'[c]] = c
  BY DEF EntriesInv
<1> QED
  BY <1>4, <1>6, <1>7, <1>8, <1>9 DEF EntriesInv

(* A step of a thread keeps the entries of the active map.                 *)
LEMMA ThreadStepEntries ==
    ASSUME EntriesInv, NEW t \in Threads, ThreadStep(t)
    PROVE  EntriesInv'
<1>0. WorkTypeOK /\ FilesInv'
  BY ThreadStepFiles DEF EntriesInv, FilesInv
<1>1. t \in Actors /\ t \notin Handlers /\ UNCHANGED handlerVars
  BY <1>0, ThreadFiles, WorkerAssumption
<1>2. UNCHANGED <<doc, active>>
  BY <1>0, ThreadFiles DEF RunCalls, Enter, sharedVars
<1>3. \A h \in Handlers : call'[h] = call[h]
  BY <1>0, <1>1, ThreadNotes, WorkerAssumption
<1>4. \A s \in Sessions : Exists(s)' => Exists(s)
  BY <1>2 DEF Exists
<1> QED
  BY <1>0, <1>1, <1>2, <1>3, <1>4, EntriesEmptied DEF handlerVars

(* A step of a continue, a cancel or a start at most clears an entry.      *)
LEMMA WorkStepEntries ==
    ASSUME EntriesInv, NEW h \in Handlers, WorkStep(h)
    PROVE  EntriesInv'
<1>0. WorkTypeOK /\ SubjectsKnown /\ FilesInv'
  BY WorkStepFiles DEF EntriesInv, FilesInv
<1>1. /\ hpc'[h] \notin Creating /\ doc' = doc
      /\ \A g \in Handlers :
             g # h => hpc'[g] = hpc[g] /\ target'[g] = target[g] /\ old'[g] = old[g]
  BY <1>0, WorkMoves
<1>2. \A s \in Sessions : Calls(h, s) =>
          active' = active /\ \A b \in Actors : b # h => call'[b] = call[b]
  BY <1>0, WorkerAssumption
  DEF Calls, RunCalls, Enter, WorkTypeOK, TypeOK, SharedTypeOK
<1>3. \A s \in Sessions : ClearActive(s) =>
          \A c \in Conversations : active'[c] \in {active[c], NoSession}
  BY <1>0 DEF ClearActive, Unmapped, WorkTypeOK, TypeOK, SharedTypeOK
<1>4. /\ \A c \in Conversations : active'[c] \in {active[c], NoSession}
      /\ \A b \in Actors : b # h => call'[b] = call[b]
  BY <1>0, <1>2, <1>3, WorkMoves DEF sharedVars
<1>5. \A s \in Sessions : Exists(s)' => Exists(s)
  BY <1>1 DEF Exists
<1> QED
  BY <1>0, <1>1, <1>4, <1>5, WorkerAssumption, EntriesEmptied

(* A creation empties the entry of its conversation before it creates the  *)
(* session.                                                                *)
LEMMA CreationEntries ==
    ASSUME EntriesInv, NEW h \in Handlers, CreationStep(h)
    PROVE  EntriesInv'
<1>0. WorkTypeOK /\ SubjectsKnown /\ OneCreator /\ FilesInv' /\ h \in Actors
  BY CreationStepFiles, WorkerAssumption DEF EntriesInv, FilesInv
<1>1. /\ Idle(h) /\ target[h] \in Sessions
      /\ hpc[h] \in {"supersede", "superseded", "make"}
      /\ hpc'[h] \in {"superseded", "make", "register"}
      /\ \A g \in Handlers : g # h => hpc'[g] = hpc[g]
      /\ UNCHANGED <<doc, target, old>>
  BY <1>0, CreationMoves
<1>2. \A g \in Handlers : g # h => hpc'[g] \notin Creating
  BY <1>0, <1>1 DEF OneCreator, Creating
<1>3. /\ active \in [Conversations -> Sessions \cup {NoSession}] /\ call \in [Actors -> Call]
      /\ \A s \in Sessions : ConvOf[s] \in Conversations
      /\ old[h] # NoSession => old[h] \in Sessions
      /\ hpc[h] = "superseded" => old[h] \in Sessions
      /\ hpc \in [Handlers -> HandlerPCs]
  BY <1>0, SharedGoalAssumption DEF WorkTypeOK, TypeOK, AtWork, SharedTypeOK, HandlerTypeOK
<1>4. /\ hpc[h] \in {"supersede", "superseded"} =>
             /\ old[h] # NoSession => ConvOf[old[h]] = ConvOf[target[h]]
             /\ EntryOf(h) \in {NoSession, old[h]}
      /\ hpc[h] = "superseded" => EntryOf(h) = NoSession
      /\ hpc[h] = "make" => EntryOf(h) \in {NoSession, target[h]}
  BY <1>1 DEF EntriesInv, StillClearing, Idle
<1>5. CASE NothingToSupersede(h)
  <2>1. active' = active /\ hpc[h] = "supersede" /\ hpc'[h] = "make" /\ old[h] = NoSession
    BY <1>3, <1>5 DEF NothingToSupersede, HAt, HGo, sharedVars
  <2> QED BY <1>0, <1>1, <1>2, <1>4, <2>1 DEF EntriesInv, Exists, EntryOf, Creating
<1>6. CASE SupersedeUnknown(h) \/ SupersedeEnded(h)
  <2>1. /\ active' = [active EXCEPT ![ConvOf[target[h]]] = NoSession]
        /\ hpc[h] = "supersede" /\ hpc'[h] = "make"
    BY <1>3, <1>4, <1>6 DEF SupersedeUnknown, SupersedeEnded, HAt, HGo, ClearActive, Unmapped
  <2>2. \A c \in Conversations : active'[c] \in {active[c], NoSession}
    BY <1>3, <2>1
  <2>3. EntryOf(h)' = NoSession
    BY <1>1, <1>3, <2>1 DEF EntryOf
  <2>4. \A r, s \in Sessions :
          r < s /\ ConvOf[r] = ConvOf[s] /\ Exists(s)' => active'[ConvOf[s]] # r
    BY <1>1, <1>3, <2>2 DEF EntriesInv, Exists, Sessions, NoSession
  <2>5. \A c \in Conversations : active'[c] # NoSession => ConvOf[active'[c]] = c
    BY <2>2 DEF EntriesInv
  <2> QED BY <1>0, <1>2, <2>1, <2>3, <2>4, <2>5 DEF EntriesInv, Creating
<1>7. CASE Supersede(h)
  <2>1. /\ active' = active /\ hpc[h] = "supersede" /\ hpc'[h] = "superseded"
        /\ call'[h].method = "supersede" /\ call'[h].sid = old[h] /\ call'[h].stage = "save"
    BY <1>0, <1>3, <1>7 DEF Supersede, HAt, HGo, Enter
  <2>2. StillClearing(h)'
    BY <1>1, <2>1 DEF StillClearing
  <2> QED BY <1>0, <1>1, <1>2, <1>4, <2>1, <2>2 DEF EntriesInv, Exists, EntryOf, Creating
<1>8. CASE RefreshSuperseded(h)
  <2>1. active' = active /\ hpc[h] = "superseded" /\ hpc'[h] = "make"
    BY <1>3, <1>8 DEF RefreshSuperseded, HAt, HGo, Enter
  <2> QED BY <1>0, <1>1, <1>2, <1>4, <2>1 DEF EntriesInv, Exists, EntryOf, Creating
<1>9. CASE MakeSession(h)
  <2>1. active' = active /\ hpc[h] = "make" /\ hpc'[h] = "register"
    BY <1>3, <1>9 DEF MakeSession, HAt, HGo, Enter
  <2> QED BY <1>0, <1>1, <1>2, <1>4, <2>1 DEF EntriesInv, Exists, EntryOf, Creating
<1> QED
  BY <1>5, <1>6, <1>7, <1>8, <1>9 DEF CreationStep

(* The request that takes the lock reads the entry as it is.               *)
LEMMA BeginEntries ==
    ASSUME EntriesInv, NEW h \in Handlers, NEW s \in Sessions,
           RegisterSession(h) \/ BeginCreate(h, s)
    PROVE  EntriesInv'
<1>0. WorkTypeOK /\ OneCreator /\ FilesInv'
  BY RegisterFiles, BeginCreateFiles DEF EntriesInv, FilesInv
<1>1. /\ hpc \in [Handlers -> HandlerPCs] /\ target \in [Handlers -> Sessions \cup {NoSession}]
      /\ old \in [Handlers -> Sessions \cup {NoSession}]
      /\ ConvOf[s] \in Conversations
  BY <1>0, SharedGoalAssumption DEF WorkTypeOK, TypeOK, HandlerTypeOK
<1>2. CASE RegisterSession(h)
  <2>1. UNCHANGED <<sharedVars, target, old>> /\ hpc' = [hpc EXCEPT ![h] = "start"]
    BY <1>2 DEF RegisterSession, HGo
  <2> QED BY <1>0, <1>1, <2>1 DEF EntriesInv, sharedVars, Exists, EntryOf, StillClearing
<1>3. CASE BeginCreate(h, s)
  <2>1. /\ UNCHANGED sharedVars /\ hpc' = [hpc EXCEPT ![h] = "supersede"] /\ lock = {}
        /\ target' = [target EXCEPT ![h] = s] /\ old' = [old EXCEPT ![h] = active[ConvOf[s]]]
    BY <1>3 DEF BeginCreate, HGo
  <2>2. \A g \in Handlers : g # h => hpc'[g] \notin Creating
    BY <1>0, <1>1, <2>1 DEF OneCreator
  <2>3. EntryOf(h)' = old'[h] /\ (old'[h] # NoSession => ConvOf[old'[h]] = ConvOf[target'[h]])
    BY <1>1, <2>1 DEF EntryOf, sharedVars, EntriesInv
  <2> QED BY <1>0, <1>1, <2>1, <2>2, <2>3 DEF EntriesInv, sharedVars, Exists, Creating
<1> QED
  BY <1>2, <1>3

(* The service sets an entry only for the session that is being created.   *)
LEMMA ServiceEntries ==
    ASSUME EntriesInv, NEW a \in Actors, Serve(a) \/ AssignSummary(a)
    PROVE  EntriesInv'
<1>0. WorkTypeOK /\ SubjectsKnown /\ CallsFit /\ OneCreator /\ FilesInv'
  BY ServiceFiles DEF EntriesInv, FilesInv
<1>1. (Progress(a) \/ Return(a)) /\ UNCHANGED <<hpc, target, old>>
  BY DEF Serve, AssignSummary, handlerVars
<1>2. /\ ~Idle(a) /\ call[a].sid \in Sessions
      /\ \A b \in Actors : b # a => call'[b] = call[b]
      /\ \A s \in Sessions : s # call[a].sid => doc'[s] = doc[s]
      /\ Idle(a)' \/ (call'[a].sid = call[a].sid /\ call'[a].method = call[a].method)
  BY <1>0, <1>1, ProgressFiles
<1>3. /\ active \in [Conversations -> Sessions \cup {NoSession}] /\ call \in [Actors -> Call]
      /\ \A s \in Sessions : ConvOf[s] \in Conversations
      /\ NoSession \notin Sessions
  BY <1>0, SharedGoalAssumption DEF WorkTypeOK, TypeOK, SharedTypeOK, Sessions, NoSession
<1>4. CASE call[a].method = "create"
  <2>1. /\ a \in Handlers /\ hpc[a] = "register" /\ call[a].sid = target[a]
        /\ target[a] \in Sessions
        /\ \A r \in Sessions : target[a] < r => ~Exists(r)
        /\ \A g \in Handlers : g # a => hpc[g] \notin Creating
        /\ EntryOf(a) \in {NoSession, target[a]}
    BY <1>0, <1>2, <1>4 DEF CallsFit, OneCreator, Creating, EntriesInv
  <2>2. \A s \in Sessions : s # target[a] => (Exists(s)' <=> Exists(s))
    BY <1>2, <2>1 DEF Exists
  <2>3. \/ active' = active
        \/ active' = [active EXCEPT ![ConvOf[target[a]]] = target[a]]
    BY <1>0, <1>1, <1>4, <2>1, ProgressFiles DEF CreateDocument, Store, Activate
  <2>4. \A c \in Conversations : active'[c] # NoSession => ConvOf[active'[c]] = c
    BY <1>3, <2>1, <2>3 DEF EntriesInv
  <2>5. active'[ConvOf[target[a]]] \in {NoSession, target[a]}
    BY <1>3, <2>1, <2>3 DEF EntryOf
  <2>6. ASSUME NEW r \in Sessions, NEW s \in Sessions, r < s, ConvOf[r] = ConvOf[s], Exists(s)'
        PROVE  active'[ConvOf[s]] # r
    <3>1. CASE s = target[a]
      BY <1>3, <2>5, <2>6, <3>1 DEF Sessions
    <3>2. CASE s # target[a]
      <4>1. Exists(s) /\ active[ConvOf[s]] # r
        BY <2>2, <2>6, <3>2 DEF EntriesInv
      <4>2. r # target[a]
        BY <2>1, <2>6, <4>1
      <4> QED BY <1>3, <2>3, <4>1, <4>2
    <3> QED BY <3>1, <3>2
  <2> QED
    BY <1>0, <1>1, <2>1, <2>4, <2>5, <2>6 DEF EntriesInv, EntryOf, Creating
<1>5. CASE call[a].method # "create"
  <2>1. Exists(call[a].sid)
    BY <1>0, <1>2, <1>5 DEF CallsFit, SubjectsKnown
  <2>2. \A s \in Sessions : Exists(s)' => Exists(s)
    BY <1>2, <2>1 DEF Exists
  <2>3. active' = active \/ (Pop(a) /\ active' = [active EXCEPT ![ConvOf[call[a].sid]] = NoSession])
    <3>1. ~Activate(a) /\ ~CreateDocument(a)
      BY <1>0, <1>2, <1>5 DEF CallsFit, Activate, CreateDocument, Saving
    <3> QED
      BY <1>1, <3>1
      DEF Progress, Return, SetVerdict, WriteGemini, WriteCodex, UpdateUserInput, MarkSuperseded,
          Store, Pop, Unmapped
  <2>4. \A c \in Conversations : active'[c] \in {active[c], NoSession}
    BY <1>2, <1>3, <2>3
  <2>5. ASSUME NEW h \in Handlers, hpc[h] = "superseded"
        PROVE  call'[h] = call[h] \/ EntryOf(h)' = NoSession \/ StillClearing(h)'
    <3>0. h \in Actors /\ target[h] \in Sessions /\ old[h] \in Sessions
      BY <1>0, <2>5, WorkerAssumption DEF WorkTypeOK, TypeOK, AtWork, HandlerTypeOK
    <3>1. CASE h # a
      BY <1>2, <3>0, <3>1
    <3>2. CASE EntryOf(h) = NoSession
      BY <1>1, <1>3, <2>4, <3>0, <3>2 DEF EntryOf
    <3>3. CASE h = a /\ EntryOf(h) # NoSession
      <4>1. StillClearing(a) /\ ConvOf[old[a]] = ConvOf[target[a]]
        BY <1>3, <2>5, <3>0, <3>3 DEF EntriesInv
      <4>2. Pop(a) \/ MarkSuperseded(a)
        BY <1>1, <4>1
        DEF StillClearing, Progress, Return, SetVerdict, WriteGemini, WriteCodex,
            UpdateUserInput, CreateDocument, Activate, Saving
      <4>3. CASE Pop(a)
        BY <1>1, <1>3, <3>0, <3>3, <4>1, <4>3 DEF Pop, Unmapped, EntryOf, StillClearing
      <4>4. CASE MarkSuperseded(a)
        <5>1. call'[a].stage = "pop" /\ call'[a].method = "supersede" /\ call'[a].sid = old[a]
          BY <1>3, <4>1, <4>4 DEF MarkSuperseded, Store, StillClearing, Call
        <5> QED BY <1>1, <3>3, <5>1 DEF StillClearing
      <4> QED BY <4>2, <4>3, <4>4
    <3> QED BY <3>1, <3>2, <3>3
  <2> QED
    BY <1>0, <1>1, <2>2, <2>4, <2>5, EntriesEmptied
<1> QED
  BY <1>4, <1>5

(* Every step of the worker with restarts keeps the invariant.             *)
LEMMA RestartNextEntries == EntriesInv /\ [RestartNext]_vars => EntriesInv'
<1> SUFFICES ASSUME EntriesInv, [RestartNext]_vars PROVE EntriesInv'
  OBVIOUS
<1>0. FilesInv /\ FilesInv'
  BY RestartNextFiles DEF EntriesInv
<1>1. ASSUME NEW t \in Threads, ThreadStep(t) PROVE EntriesInv'
  BY <1>1, ThreadStepEntries
<1>2. ASSUME NEW h \in Handlers, HandlerStep(h) \/ Request(h) PROVE EntriesInv'
  <2>1. ASSUME NEW s \in Sessions, BeginCreate(h, s) PROVE EntriesInv'
    BY <2>1, BeginEntries
  <2>2. CASE RegisterSession(h)
    <3>1. target[h] \in Sessions
      BY <1>0, <2>2
      DEF FilesInv, WorkTypeOK, TypeOK, AtWork, HandlerTypeOK, RegisterSession, HAt
    <3> QED BY <2>2, <3>1, BeginEntries
  <2> QED BY <1>2, <2>1, <2>2, HandlerCases, WorkStepEntries, CreationEntries
<1>3. ASSUME NEW a \in Actors, Serve(a) \/ AssignSummary(a) PROVE EntriesInv'
  BY <1>3, ServiceEntries
<1>4. CASE Restart
  <2>1. UNCHANGED <<doc, active>> /\ \A h \in Handlers : hpc'[h] = "idle"
    BY <1>4 DEF Restart, Reload
  <2>2. \A s \in Sessions : Exists(s)' => Exists(s)
    BY <2>1 DEF Exists
  <2> QED BY <1>0, <2>1, <2>2, EntriesEmptied DEF Creating
<1>5. CASE UNCHANGED vars
  BY <1>0, <1>5 DEF vars, sharedVars, handlerVars, EntriesInv, EntryOf, StillClearing, Exists
<1> QED
  BY <1>1, <1>2, <1>3, <1>4, <1>5 DEF RestartNext, Next

(* Once a newer session of a conversation is known, an older one is never  *)
(* its active session again, however requests and threads overlap, and if  *)
(* the worker is restarted in the middle of a creation.  It is the         *)
(* manager's lock that keeps creations apart.                              *)
THEOREM NewestStaysActive == RestartSpec => []NewestIsActive
<1>1. Init => EntriesInv
  <2> SUFFICES ASSUME Init PROVE EntriesInv
    OBVIOUS
  <2>1. /\ \A c \in Conversations : active[c] = NoSession
        /\ \A s \in Sessions : ~Exists(s)
        /\ \A h \in Handlers : hpc[h] = "idle"
    BY DEF Init, SharedInit, Exists, NoDoc
  <2> QED BY <2>1, FilesInit DEF EntriesInv
<1>2. EntriesInv => NewestIsActive
  BY DEF EntriesInv, FilesInv, SubjectsKnown, NewestIsActive
<1> QED
  BY <1>1, <1>2, RestartNextEntries, PTL DEF RestartSpec
=============================================================================
