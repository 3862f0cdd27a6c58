------------------------- MODULE WorkerSettles_proofs -------------------------
(***************************************************************************)
(* How runs and requests come to their end, for any number of sessions,    *)
(* conversations, notes, threads and handlers, and without the assumption  *)
(* that requests come one at a time: a session nobody disturbs comes to    *)
(* rest with a final status or a question; nobody is ever stuck, and the   *)
(* steps of a run and of a request run out, also across restarts; and a    *)
(* stop is obeyed within one turn (this one as long as requests do come    *)
(* one at a time).                                                         *)
(***************************************************************************)
EXTENDS WorkerFiles_proofs

Starting == {"start", "spawn"}

(* A session that nobody canceled, superseded or wrote to.                 *)
Fresh(s) == ~cancel[s] /\ noted[s] = {}

(* Who runs a session or is about to start a run of it.                    *)
Workers(s) ==
    {t \in Threads : sid[t] = s} \cup {h \in Handlers : hpc[h] \in Starting /\ target[h] = s}

(* Requests that create or start nothing are on sessions that are no       *)
(* longer fresh, and so is a session that is being superseded; a thread    *)
(* has a session while it runs, and calls the service for that one.        *)
Bystanders ==
    /\ \A h \in Handlers : hpc[h] \notin Creating \cup Starting \cup {"idle"} => ~Fresh(target[h])
    /\ \A h \in Handlers : hpc[h] \in {"saveRequest", "refresh", "resume"} => noted[target[h]] # {}
    /\ \A h \in Handlers : hpc[h] = "superseded" => ~Fresh(old[h])
    /\ \A t \in Threads : pc[t] = "idle" => sid[t] = NoSession
    /\ \A t \in Threads : ~Idle(t) => call[t].sid = sid[t]

(* A session has one worker, which alone calls the service for it, and is  *)
(* marked as processing while it is a thread.                              *)
WorksAlone(s) ==
    /\ \A a, b \in Workers(s) : a = b
    /\ Known(s) => \A a \in CallsOn(s) : a \in Threads /\ sid[a] = s
    /\ \A t \in Threads : sid[t] = s => processing[s]

Over(s) == doc[s].status \in Settled

(* A thread that has left its loop has written a final status or a         *)
(* question, or is about to; when it returns, the manager's summary is the *)
(* document's status or about to become it.                                *)
Concluded(t) ==
    /\ pc[t] \in {"finish", "failed"} =>
          \/ Idle(t) /\ Over(sid[t])
          \/ call[t].stage = "pop" /\ Over(sid[t])
          \/ Saving(t, "write_gemini") /\ call[t].status \in Settled
    /\ pc[t] = "return" =>
          /\ Over(sid[t])
          /\ \/ Idle(t) /\ mem[sid[t]] = doc[sid[t]].status
             \/ call[t].stage = "return" /\ call[t].buf.status = doc[sid[t]].status

FreshAlone == \A s \in Sessions : Fresh(s) => WorksAlone(s)

RunsConclude == \A t \in Threads : sid[t] # NoSession /\ Fresh(sid[t]) => Concluded(t)

(* A fresh session that nobody runs or is about to run is at rest.         *)
RestsSettled ==
    \A s \in Sessions :
        Fresh(s) /\ Known(s) /\ Workers(s) = {} /\ ~processing[s] =>
            Over(s) /\ mem[s] = doc[s].status

SettleInv == Bystanders /\ FreshAlone /\ RunsConclude /\ RestsSettled

-----------------------------------------------------------------------------
(* Threads                                                                 *)

(* How a step that ends the loop leaves the document: by a call that       *)
(* writes a final status or a question, unless the cancel event was seen;  *)
(* and that a thread returns only after such a step and a refresh.         *)
LEMMA ThreadEnds ==
    ASSUME WorkTypeOK, NEW t \in Threads, ThreadStep(t)
    PROVE  /\ pc'[t] \in {"finish", "failed"} =>
                 \/ cancel[sid[t]]
                 \/ /\ call'[t].stage = "save" /\ call'[t].method = "write_gemini"
                    /\ call'[t].status \in Settled
           /\ pc'[t] = "return" =>
                 /\ pc[t] \in {"finish", "failed"} /\ Idle(t)
                 /\ call'[t].stage = "return" /\ call'[t].buf = doc[sid[t]]
<1>1. /\ pc \in [Threads -> ThreadPCs] /\ call \in [Actors -> Call]
      /\ t \in Actors /\ sid[t] \in Sessions /\ verdict[t] \in Verdicts
  BY ThreadFiles DEF WorkTypeOK, TypeOK, ThreadTypeOK, SharedTypeOK
<1>2. /\ \A v \in Verdicts : v # "continue" => FinalState(v) \in Settled
      /\ "failed" \in Settled
  BY DEF Verdicts, FinalState, Settled, Terminal
<1>3. CASE TurnsExhausted(t) \/ Conclude(t) \/ FailuresExceeded(t) \/ RecordError(t)
  BY <1>1, <1>2, <1>3
  DEF TurnsExhausted, Conclude, FailuresExceeded, RecordError, Go, Enter
<1>4. CASE Finish(t) \/ RefreshError(t)
  BY <1>1, <1>4 DEF Finish, RefreshError, Go, Enter, At
<1>5. CASE ObserveCancel(t)
  BY <1>1, <1>5 DEF ObserveCancel, Go
<1>6. CASE \/ BeginRun(t) \/ RefreshBegun(t) \/ PrepareRun(t) \/ PrepareRaises(t)
           \/ StartTurn(t) \/ AskGemini(t) \/ GeminiAnswers(t) \/ ReviseGoal(t)
           \/ WriteAnswer(t) \/ RefreshAnswer(t)
  BY <1>1, <1>6
  DEF BeginRun, RefreshBegun, PrepareRun, PrepareRaises, StartTurn, AskGemini, GeminiAnswers,
      ReviseGoal, WriteAnswer, RefreshAnswer, Go, Die
<1>7. CASE \/ StartExecution(t) \/ InstructCodex(t) \/ CodexAnswers(t)
           \/ AdapterRaises(t) \/ RefreshTurn(t) \/ NextTurn(t) \/ EndRun(t)
  BY <1>1, <1>7
  DEF StartExecution, InstructCodex, CodexAnswers, AdapterRaises, RefreshTurn, NextTurn, EndRun,
      Go, Die
<1> QED
  BY <1>3, <1>4, <1>5, <1>6, <1>7 DEF ThreadStep

(* What a thread leaves alone, and its two ways on: it goes on with its    *)
(* session, or is over, by returning or with processing still set.         *)
LEMMA ThreadEffect ==
    ASSUME WorkTypeOK, NEW t \in Threads, ThreadStep(t)
    PROVE  /\ UNCHANGED <<handlerVars, noted, cancel, doc>>
           /\ \A u \in Threads : u # t => pc'[u] = pc[u] /\ sid'[u] = sid[u]
           /\ \A a \in Actors : a # t => call'[a] = call[a]
           /\ \A s \in Sessions : s # sid[t] => mem'[s] = mem[s] /\ processing'[s] = processing[s]
           /\ \/ /\ sid'[t] = sid[t] /\ pc'[t] # "idle" /\ processing' = processing
                 /\ call'[t] = call[t] \/ call'[t].sid = sid[t]
              \/ /\ sid'[t] = NoSession /\ pc'[t] = "idle" /\ Idle(t)
                 /\ UNCHANGED <<sharedVars, mem>>
                 /\ processing' = processing \/ pc[t] = "return"
<1>1. /\ pc \in [Threads -> ThreadPCs] /\ sid \in [Threads -> Sessions \cup {NoSession}]
      /\ call \in [Actors -> Call] /\ processing \in [Sessions -> BOOLEAN]
      /\ t \in Actors /\ sid[t] \in Sessions /\ UNCHANGED <<handlerVars, noted>>
      /\ \A s \in Sessions : s # sid[t] => mem'[s] = mem[s]
  BY ThreadFiles, ThreadKnows DEF WorkTypeOK, TypeOK, ThreadTypeOK, SharedTypeOK, RuntimeTypeOK
<1>2. /\ doc' = doc
      /\ \A a \in Actors : a # t => call'[a] = call[a]
      /\ call'[t] = call[t] \/ call'[t].sid = sid[t]
  <2>1. CASE RunCalls(t, sid[t])
    BY <1>1, <2>1 DEF RunCalls, Enter
  <2> QED
    BY <2>1, ThreadFiles DEF sharedVars
<1>3. CASE EndRun(t) \/ PrepareRaises(t)
  BY <1>1, <1>2, <1>3 DEF EndRun, PrepareRaises, Die, Go, At, runtimeVars
<1>4. ASSUME ThreadStep(t), ~EndRun(t), ~PrepareRaises(t)
      PROVE  /\ sid' = sid /\ UNCHANGED <<cancel, processing>>
             /\ \E p \in ThreadPCs \ {"idle"} : pc' = [pc EXCEPT ![t] = p]
  <2>1. CASE \/ BeginRun(t) \/ RefreshBegun(t) \/ PrepareRun(t) \/ TurnsExhausted(t)
             \/ ObserveCancel(t) \/ StartTurn(t) \/ AskGemini(t) \/ WriteAnswer(t)
             \/ RefreshAnswer(t) \/ Conclude(t) \/ Finish(t) \/ RefreshError(t)
    BY <2>1
    DEF BeginRun, RefreshBegun, PrepareRun, TurnsExhausted, ObserveCancel, StartTurn, AskGemini,
        WriteAnswer, RefreshAnswer, Conclude, Finish, RefreshError, Go, runtimeVars, ThreadPCs
  <2>2. CASE \/ StartExecution(t) \/ InstructCodex(t) \/ CodexAnswers(t) \/ RefreshTurn(t)
             \/ FailuresExceeded(t) \/ NextTurn(t) \/ RecordError(t) \/ ReviseGoal(t)
             \/ GeminiAnswers(t) \/ AdapterRaises(t)
    BY <2>2
    DEF StartExecution, InstructCodex, CodexAnswers, RefreshTurn, FailuresExceeded, NextTurn,
        RecordError, ReviseGoal, GeminiAnswers, AdapterRaises, Go, runtimeVars, ThreadPCs
  <2> QED
    BY <1>4, <2>1, <2>2 DEF ThreadStep
<1>5. CASE ~EndRun(t) /\ ~PrepareRaises(t)
  BY <1>1, <1>2, <1>4, <1>5
<1> QED
  BY <1>3, <1>5

(* The steps of a thread keep the invariant.                               *)
LEMMA ThreadSettles ==
    ASSUME FilesInv, SettleInv, NEW t \in Threads, ThreadStep(t)
    PROVE  SettleInv'
<1> DEFINE x == sid[t]
<1>0. WorkTypeOK /\ SubjectsKnown /\ Bystanders /\ FreshAlone /\ RunsConclude /\ RestsSettled
  BY DEF FilesInv, SettleInv
<1>1. /\ UNCHANGED <<handlerVars, noted, cancel, doc>>
      /\ \A u \in Threads : u # t => pc'[u] = pc[u] /\ sid'[u] = sid[u]
      /\ \A a \in Actors : a # t => call'[a] = call[a]
      /\ \A s \in Sessions : s # x => mem'[s] = mem[s] /\ processing'[s] = processing[s]
  BY <1>0, ThreadEffect
<1>2. \/ /\ sid'[t] = x /\ pc'[t] # "idle" /\ processing' = processing
         /\ call'[t] = call[t] \/ call'[t].sid = x
      \/ /\ sid'[t] = NoSession /\ pc'[t] = "idle" /\ Idle(t)
         /\ UNCHANGED <<sharedVars, mem>>
         /\ processing' = processing \/ pc[t] = "return"
  BY <1>0, ThreadEffect
<1>3. /\ t \in Actors /\ x \in Sessions /\ Known(x) /\ Threads \subseteq Actors
      /\ x # NoSession /\ NoSession \notin Sessions
  BY <1>0, ThreadFiles, WorkerAssumption DEF SubjectsKnown, Sessions, NoSession
<1>4. /\ \A s \in Sessions : Known(s)' <=> Known(s)
      /\ \A s \in Sessions : Fresh(s)' <=> Fresh(s)
  BY <1>0, <1>1, <1>3, ThreadKnows DEF Known, Fresh
<1> HIDE DEF x
<1>5. \A s \in Sessions : Workers(s)' \subseteq Workers(s)
  BY <1>1, <1>2, <1>3 DEF Workers, x, handlerVars
<1>6. \A s \in Sessions : s # x => Workers(s)' = Workers(s)
  BY <1>1, <1>2, <1>3 DEF Workers, x, handlerVars
<1>7. Bystanders'
  <2>1. \A h \in Handlers : target'[h] = target[h] /\ hpc'[h] = hpc[h] /\ old'[h] = old[h]
    BY <1>1 DEF handlerVars
  <2>2. \A u \in Threads : pc'[u] = "idle" => sid'[u] = NoSession
    BY <1>0, <1>1, <1>2 DEF Bystanders
  <2>3. \A u \in Threads : call'[u].stage # "none" => call'[u].sid = sid'[u]
    BY <1>0, <1>1, <1>2, <1>3 DEF Bystanders, Idle, x, sharedVars
  <2> QED
    BY <1>0, <1>1, <2>1, <2>2, <2>3 DEF Bystanders, Fresh, Idle
<1>8. FreshAlone'
  <2> SUFFICES ASSUME NEW s \in Sessions, Fresh(s) PROVE WorksAlone(s)'
    BY <1>4 DEF FreshAlone
  <2>1. WorksAlone(s)
    BY <1>0 DEF FreshAlone
  <2>2. \A a, b \in Workers(s)' : a = b
    BY <1>5, <2>1 DEF WorksAlone
  <2>3. ASSUME Known(s), NEW a \in Actors, call'[a].stage # "none", call'[a].sid = s
        PROVE  a \in Threads /\ sid'[a] = s
    <3>1. CASE a = t
      BY <1>7, <2>3, <3>1 DEF Bystanders, Idle
    <3>2. CASE a # t
      <4>1. a \in CallsOn(s)
        BY <1>1, <2>3, <3>2 DEF CallsOn, Idle
      <4> QED BY <1>1, <2>1, <2>3, <3>2, <4>1 DEF WorksAlone
    <3> QED BY <3>1, <3>2
  <2>4. ASSUME NEW u \in Threads, sid'[u] = s PROVE processing'[s]
    <3>1. sid[u] = s
      BY <1>1, <1>2, <1>3, <2>4 DEF x
    <3>2. processing[s]
      BY <2>1, <3>1 DEF WorksAlone
    <3>3. CASE s # x
      BY <1>1, <3>2, <3>3
    <3>4. CASE s = x
      <4>1. u = t
        BY <2>1, <3>1, <3>4 DEF WorksAlone, Workers, x
      <4> QED BY <1>2, <1>3, <2>4, <3>2, <4>1
    <3> QED BY <3>3, <3>4
  <2> QED
    BY <1>4, <2>2, <2>3, <2>4 DEF WorksAlone, CallsOn, Idle
<1>9. RunsConclude'
  <2> SUFFICES ASSUME NEW u \in Threads, sid'[u] # NoSession, Fresh(sid'[u])
               PROVE  Concluded(u)'
    BY <1>1 DEF RunsConclude, Fresh
  <2>1. CASE u = t
    <3>1. sid'[t] = x /\ Fresh(x) /\ ~cancel[x]
      BY <1>2, <2>1 DEF Fresh
    <3>2. Concluded(t)
      BY <1>0, <1>3, <3>1 DEF RunsConclude, x
    <3>3. pc'[t] \in {"finish", "failed"} =>
             /\ call'[t].stage = "save" /\ call'[t].method = "write_gemini"
             /\ call'[t].status \in Settled
      BY <1>0, <3>1, ThreadEnds DEF x
    <3>4. pc'[t] = "return" =>
             /\ pc[t] \in {"finish", "failed"} /\ Idle(t)
             /\ call'[t].stage = "return" /\ call'[t].buf = doc[x]
      BY <1>0, ThreadEnds DEF x
    <3>5. pc'[t] = "return" => Over(x)
      BY <3>2, <3>4 DEF Concluded, x, Idle, Saving
    <3> QED
      BY <1>1, <2>1, <3>1, <3>3, <3>4, <3>5 DEF Concluded, Saving, Over
  <2>2. CASE u # t
    <3>1. /\ pc'[u] = pc[u] /\ sid'[u] = sid[u] /\ call'[u] = call[u] /\ doc' = doc
          /\ sid[u] \in Sessions
      BY <1>0, <1>1, <1>3, <2>2 DEF WorkTypeOK, TypeOK, ThreadTypeOK
    <3>2. Concluded(u) /\ WorksAlone(sid[u])
      BY <1>0, <3>1 DEF RunsConclude, FreshAlone
    <3>3. sid[u] # x
      BY <2>2, <3>2 DEF WorksAlone, Workers, x
    <3>4. mem'[sid[u]] = mem[sid[u]]
      BY <1>1, <3>1, <3>3
    <3> QED
      BY <3>1, <3>2, <3>4 DEF Concluded, Saving, Over, Idle
  <2> QED BY <2>1, <2>2
<1>10. RestsSettled'
  <2> SUFFICES ASSUME NEW s \in Sessions, Fresh(s), Known(s), Workers(s)' = {}, ~processing'[s]
               PROVE  doc[s].status \in Settled /\ mem'[s] = doc[s].status
    BY <1>1, <1>4 DEF RestsSettled, Over
  <2>1. CASE s # x
    BY <1>0, <1>1, <1>6, <2>1 DEF RestsSettled, Over
  <2>2. CASE s = x
    <3>1. sid'[t] = NoSession /\ Idle(t) /\ mem' = mem /\ (processing' = processing \/ pc[t] = "return")
      BY <1>2, <2>2 DEF Workers
    <3>2. WorksAlone(x) /\ Concluded(t)
      BY <1>0, <1>3, <2>2 DEF FreshAlone, RunsConclude, x
    <3>3. processing[x]
      BY <3>2 DEF WorksAlone, x
    <3> QED
      BY <2>2, <3>1, <3>2, <3>3 DEF Concluded, Over, Idle, x
  <2> QED BY <2>1, <2>2
<1> QED
  BY <1>7, <1>8, <1>9, <1>10 DEF SettleInv

-----------------------------------------------------------------------------
(* Requests                                                                *)

(* The steps of requests other than the registration of a session and the  *)
(* start of a thread.                                                      *)
OtherRequest(h) ==
    \/ CreationStep(h)
    \/ \E s \in Sessions : BeginCreate(h, s) \/ BeginCancel(h, s)
    \/ \E s \in Sessions, n \in Notes : BeginContinue(h, s, n)
    \/ StoreRequest(h) \/ RefreshContinued(h) \/ ResumeSession(h) \/ LeaveNote(h)
    \/ AlreadyProcessing(h) \/ NotProcessing(h) \/ UnmapCanceled(h) \/ RefreshCanceled(h)

(* A session that is fresh after the step.                                 *)
StaysFresh(s) == ~cancel'[s] /\ noted'[s] = {}

(* They leave threads, documents and the summaries of fresh sessions       *)
(* alone, and call the service for no fresh session that is known.  None   *)
(* begins to start a run of a fresh session, and one that gives up         *)
(* starting finds it processing.                                           *)
Harmless(h) ==
    /\ UNCHANGED <<threadVars, processing, doc>>
    /\ \A g \in Handlers :
           g # h => hpc'[g] = hpc[g] /\ target'[g] = target[g] /\ old'[g] = old[g]
    /\ \A a \in Actors : a # h => call'[a] = call[a]
    /\ \A s \in Sessions : StaysFresh(s) => Fresh(s) /\ mem'[s] = mem[s]
    /\ \A s \in Sessions : Known(s)' <=> Known(s)
    /\ \A s \in Sessions : noted[s] \subseteq noted'[s]
    /\ \/ call'[h] = call[h]
       \/ \E s \in Sessions : call'[h].sid = s /\ (StaysFresh(s) => ~Known(s))
    /\ hpc'[h] \in Starting /\ StaysFresh(target'[h]) =>
          hpc[h] \in Starting /\ target'[h] = target[h]
    /\ hpc[h] \in Starting =>
          processing[target[h]] \/ (hpc'[h] \in Starting /\ target'[h] = target[h])
    /\ hpc'[h] \notin Creating \cup Starting \cup {"idle"} => ~StaysFresh(target'[h])
    /\ hpc'[h] \in {"saveRequest", "refresh", "resume"} => noted'[target'[h]] # {}
    /\ hpc'[h] = "superseded" => ~StaysFresh(old'[h])

(* Those steps are harmless: a request that has to do with a fresh session *)
(* without creating or starting anything makes it one that is not.         *)
LEMMA RequestEffect ==
    ASSUME FilesInv, Bystanders, NEW h \in Handlers, OtherRequest(h)
    PROVE  Harmless(h)
<1>1. /\ hpc \in [Handlers -> HandlerPCs] /\ target \in [Handlers -> Sessions \cup {NoSession}]
      /\ old \in [Handlers -> Sessions \cup {NoSession}] /\ call \in [Actors -> Call]
      /\ mem \in [Sessions -> Status \cup {"absent"}] /\ noted \in [Sessions -> SUBSET Notes]
      /\ cancel \in [Sessions -> BOOLEAN] /\ h \in Actors
      /\ hpc[h] # "idle" => target[h] \in Sessions
      /\ hpc[h] = "superseded" => old[h] \in Sessions
      /\ old[h] # NoSession => old[h] \in Sessions
      /\ "absent" \notin Status
  BY WorkerAssumption, Literals
  DEF FilesInv, WorkTypeOK, TypeOK, HandlerTypeOK, SharedTypeOK, RuntimeTypeOK, AtWork
<1>2. /\ hpc[h] \notin Creating \cup Starting \cup {"idle"} => ~Fresh(target[h])
      /\ hpc[h] \in {"saveRequest", "refresh", "resume"} => noted[target[h]] # {}
      /\ hpc[h] = "superseded" => ~Fresh(old[h])
      /\ hpc[h] \in Creating => ~Known(target[h])
  BY DEF Bystanders, FilesInv, OneCreator
<1> USE DEF HAt, HGo, HandlerOnly, runtimeVars, Starting, Creating, Fresh, StaysFresh, Known,
            Harmless, Enter
<1>3. CASE NothingToSupersede(h) \/ SupersedeUnknown(h) \/ SupersedeEnded(h)
  BY <1>1, <1>3 DEF NothingToSupersede, SupersedeUnknown, SupersedeEnded, sharedVars
<1>4. CASE Supersede(h)
  BY <1>1, <1>4 DEF Supersede
<1>5. CASE RefreshSuperseded(h) \/ MakeSession(h)
  BY <1>1, <1>2, <1>5 DEF RefreshSuperseded, MakeSession
<1>6. ASSUME NEW s \in Sessions, BeginCreate(h, s) PROVE Harmless(h)
  BY <1>1, <1>6 DEF BeginCreate, sharedVars
<1>7. ASSUME NEW s \in Sessions, BeginCancel(h, s) PROVE Harmless(h)
  BY <1>1, <1>7 DEF BeginCancel
<1>8. ASSUME NEW s \in Sessions, NEW n \in Notes, BeginContinue(h, s, n) PROVE Harmless(h)
  BY <1>1, <1>8 DEF BeginContinue
<1>9. CASE StoreRequest(h) \/ UnmapCanceled(h)
  BY <1>1, <1>2, <1>9 DEF StoreRequest, UnmapCanceled
<1>10. CASE RefreshContinued(h)
  BY <1>1, <1>2, <1>10 DEF RefreshContinued
<1>11. CASE RefreshCanceled(h)
  BY <1>1, <1>2, <1>11 DEF RefreshCanceled, Reply
<1>12. CASE ResumeSession(h) \/ NotProcessing(h)
  BY <1>1, <1>2, <1>12 DEF ResumeSession, NotProcessing, sharedVars
<1>13. CASE LeaveNote(h) \/ AlreadyProcessing(h)
  BY <1>1, <1>2, <1>13 DEF LeaveNote, AlreadyProcessing, Reply, sharedVars
<1> QED
  <2> HIDE DEF Harmless
  <2> QED
    BY <1>3, <1>4, <1>5, <1>6, <1>7, <1>8, <1>9, <1>10, <1>11, <1>12, <1>13
    DEF OtherRequest, CreationStep

(* Those steps keep the invariant.                                         *)
LEMMA RequestSettles ==
    ASSUME FilesInv, SettleInv, NEW h \in Handlers, OtherRequest(h)
    PROVE  SettleInv'
<1>0. WorkTypeOK /\ Bystanders /\ FreshAlone /\ RunsConclude /\ RestsSettled
  BY DEF FilesInv, SettleInv
<1>1. Harmless(h)
  BY <1>0, RequestEffect
<1>2. /\ pc' = pc /\ sid' = sid /\ processing' = processing /\ doc' = doc
      /\ \A g \in Handlers :
             g # h => hpc'[g] = hpc[g] /\ target'[g] = target[g] /\ old'[g] = old[g]
      /\ \A a \in Actors : a # h => call'[a] = call[a]
      /\ \A s \in Sessions : Fresh(s)' => Fresh(s) /\ mem'[s] = mem[s]
      /\ \A s \in Sessions : Known(s)' <=> Known(s)
  BY <1>1 DEF Harmless, StaysFresh, Fresh, threadVars
<1>3. /\ h \notin Threads /\ Threads \subseteq Actors /\ h \in Actors
      /\ \A t \in Threads : call'[t] = call[t]
  BY <1>2, WorkerAssumption
<1>4. \A g \in Handlers : hpc[g] # "idle" => target[g] \in Sessions
  BY <1>0 DEF WorkTypeOK, TypeOK, AtWork, HandlerTypeOK
<1>5. \A g \in Handlers : hpc[g] = "superseded" => old[g] \in Sessions
  BY <1>0 DEF WorkTypeOK, TypeOK, AtWork, HandlerTypeOK
<1>6. Bystanders'
  <2>1. ASSUME NEW g \in Handlers, g # h
        PROVE  /\ hpc'[g] \notin Creating \cup Starting \cup {"idle"} => ~Fresh(target[g])'
               /\ hpc'[g] \in {"saveRequest", "refresh", "resume"} => noted'[target'[g]] # {}
               /\ hpc'[g] = "superseded" => ~Fresh(old[g])'
    <3>1. \A s \in Sessions : noted[s] \subseteq noted'[s]
      BY <1>1 DEF Harmless
    <3>2. hpc'[g] = hpc[g] /\ target'[g] = target[g] /\ old'[g] = old[g]
      BY <1>2, <2>1
    <3>3. hpc[g] \notin Creating \cup Starting \cup {"idle"} => ~Fresh(target[g])
      BY <1>0 DEF Bystanders
    <3>4. hpc[g] \in {"saveRequest", "refresh", "resume"} => noted[target[g]] # {}
      BY <1>0 DEF Bystanders
    <3>5. hpc[g] = "superseded" => ~Fresh(old[g])
      BY <1>0 DEF Bystanders
    <3>6. \A s \in Sessions : ~Fresh(s) => cancel'[s] \/ noted'[s] # {}
      BY <1>2 DEF Fresh
    <3> QED BY <1>4, <1>5, <3>1, <3>2, <3>3, <3>4, <3>5, <3>6 DEF Fresh
  <2>2. /\ hpc'[h] \notin Creating \cup Starting \cup {"idle"} => ~Fresh(target[h])'
        /\ hpc'[h] \in {"saveRequest", "refresh", "resume"} => noted'[target'[h]] # {}
        /\ hpc'[h] = "superseded" => ~Fresh(old[h])'
    BY <1>1 DEF Harmless, StaysFresh, Fresh
  <2>3. \A t \in Threads : /\ pc'[t] = "idle" => sid'[t] = NoSession
                           /\ ~Idle(t)' => call'[t].sid = sid'[t]
    BY <1>0, <1>2, <1>3 DEF Bystanders, Idle
  <2> QED BY <2>1, <2>2, <2>3 DEF Bystanders
<1>7. ASSUME NEW s \in Sessions, Fresh(s)'
      PROVE  /\ Workers(s)' \subseteq Workers(s)
             /\ Workers(s)' = Workers(s) \/ processing[s]
  <2>1. \A g \in Handlers :
            hpc'[g] \in Starting /\ target'[g] = s => hpc[g] \in Starting /\ target[g] = s
    BY <1>1, <1>2, <1>7 DEF Harmless, StaysFresh, Fresh
  <2>2. \A g \in Handlers :
            hpc[g] \in Starting /\ target[g] = s =>
                processing[s] \/ (hpc'[g] \in Starting /\ target'[g] = s)
    BY <1>1, <1>2 DEF Harmless
  <2> QED BY <1>2, <2>1, <2>2 DEF Workers
<1>8. FreshAlone'
  <2> SUFFICES ASSUME NEW s \in Sessions, Fresh(s)' PROVE WorksAlone(s)'
    BY DEF FreshAlone
  <2>1. WorksAlone(s)
    BY <1>0, <1>2 DEF FreshAlone
  <2>2. \A a, b \in Workers(s)' : a = b
    BY <1>7, <2>1 DEF WorksAlone
  <2>3. ASSUME Known(s), NEW a \in Actors, ~Idle(a)', call'[a].sid = s
        PROVE  a \in Threads /\ sid'[a] = s
    <3>1. call'[a] = call[a]
      BY <1>1, <1>2, <2>3 DEF Harmless, StaysFresh, Fresh
    <3>2. a \in CallsOn(s)
      BY <2>3, <3>1 DEF CallsOn, Idle
    <3> QED BY <1>2, <2>1, <2>3, <3>2 DEF WorksAlone
  <2>4. \A t \in Threads : sid'[t] = s => processing'[s]
    BY <1>2, <2>1 DEF WorksAlone
  <2> QED
    BY <1>2, <2>2, <2>3, <2>4 DEF WorksAlone, CallsOn
<1>9. RunsConclude'
  <2> SUFFICES ASSUME NEW t \in Threads, sid[t] # NoSession, Fresh(sid[t])'
               PROVE  Concluded(t)'
    BY <1>2 DEF RunsConclude, Fresh
  <2>1. sid[t] \in Sessions
    BY <1>0 DEF WorkTypeOK, TypeOK, ThreadTypeOK
  <2>2. Fresh(sid[t]) /\ mem'[sid[t]] = mem[sid[t]]
    BY <1>2, <2>1 DEF Fresh
  <2>3. Concluded(t)
    BY <1>0, <2>2 DEF RunsConclude
  <2> QED
    BY <1>2, <1>3, <2>2, <2>3 DEF Concluded, Saving, Over, Idle
<1>10. RestsSettled'
  <2> SUFFICES ASSUME NEW s \in Sessions, Fresh(s)', Known(s)', Workers(s)' = {}, ~processing'[s]
               PROVE  (Over(s) /\ mem[s] = doc[s].status)'
    BY DEF RestsSettled
  <2>1. Fresh(s) /\ Known(s) /\ Workers(s) = {} /\ ~processing[s]
    BY <1>2, <1>7
  <2> QED BY <1>0, <1>2, <2>1 DEF RestsSettled, Over
<1> QED
  BY <1>6, <1>8, <1>9, <1>10 DEF SettleInv

(* The manager takes in a session that nobody else has heard of.           *)
LEMMA RegisterSettles ==
    ASSUME FilesInv, SettleInv, NEW h \in Handlers, RegisterSession(h)
    PROVE  SettleInv'
<1> DEFINE x == target[h]
<1>0. /\ WorkTypeOK /\ CallsFit /\ SubjectsKnown /\ OneCreator
      /\ Bystanders /\ FreshAlone /\ RunsConclude /\ RestsSettled
  BY DEF FilesInv, SettleInv
<1>1. /\ Idle(h) /\ hpc[h] = "register" /\ x \in Sessions
      /\ hpc' = [hpc EXCEPT ![h] = "start"]
      /\ mem' = [mem EXCEPT ![x] = "planning"]
      /\ UNCHANGED <<doc, call, pc, sid, noted, cancel, processing, target, old>>
      /\ hpc \in [Handlers -> HandlerPCs]
      /\ mem \in [Sessions -> Status \cup {"absent"}]
  BY <1>0
  DEF RegisterSession, HAt, HGo, HandlerOnly, WorkTypeOK, TypeOK, AtWork, HandlerTypeOK,
      RuntimeTypeOK, sharedVars, threadVars
<1>2. /\ ~Known(x)
      /\ \A g \in Handlers : g # h => hpc[g] \notin Creating
      /\ Threads \subseteq Actors /\ Threads \cap Handlers = {}
  BY <1>0, <1>1, WorkerAssumption DEF OneCreator, Creating
<1>3. /\ \A t \in Threads : sid[t] # x
      /\ \A g \in Handlers : hpc[g] \in Starting => target[g] # x
      /\ CallsOn(x) = {}
  <2>1. \A t \in Threads : sid[t] # x
    BY <1>0, <1>1, <1>2 DEF SubjectsKnown, Sessions, NoSession
  <2>2. \A g \in Handlers : hpc[g] \in Starting => target[g] # x
    BY <1>0, <1>2 DEF SubjectsKnown, Starting, Creating
  <2>3. ASSUME NEW a \in Actors, ~Idle(a), call[a].sid = x PROVE FALSE
    <3>1. call[a].method = "create"
      BY <1>0, <1>2, <2>3 DEF CallsFit
    <3>2. a \in Handlers /\ hpc[a] = "register"
      BY <1>0, <2>3, <3>1 DEF CallsFit
    <3> QED BY <1>1, <1>2, <2>3, <3>2 DEF Creating
  <2> QED BY <2>1, <2>2, <2>3 DEF CallsOn
<1> HIDE DEF x
<1>4. /\ \A s \in Sessions : Fresh(s)' <=> Fresh(s)
      /\ \A s \in Sessions : s # x => mem'[s] = mem[s] /\ (Known(s)' <=> Known(s))
      /\ \A s \in Sessions : s = x => Workers(s)' = {h}
      /\ \A s \in Sessions : s # x => Workers(s)' = Workers(s)
      /\ \A s \in Sessions : CallsOn(s)' = CallsOn(s)
  <2>1. \A g \in Handlers : g # h => hpc'[g] = hpc[g]
    BY <1>1
  <2>2. hpc'[h] \in Starting /\ hpc[h] \notin Starting
    BY <1>1 DEF Starting
  <2>3. \A s \in Sessions : s = x => Workers(s)' = {h}
    BY <1>1, <1>3, <2>1, <2>2 DEF Workers, x
  <2>4. \A s \in Sessions : s # x => Workers(s)' = Workers(s)
    BY <1>1, <2>1, <2>2 DEF Workers, x
  <2> QED
    BY <1>1, <2>3, <2>4 DEF Fresh, Known, CallsOn, Idle
<1>5. Bystanders'
  <2>1. \A g \in Handlers : g # h => hpc'[g] = hpc[g]
    BY <1>1
  <2>2. hpc'[h] = "start"
    BY <1>1
  <2>3. \A t \in Threads : /\ pc'[t] = "idle" => sid'[t] = NoSession
                           /\ ~Idle(t)' => call'[t].sid = sid'[t]
    BY <1>0, <1>1 DEF Bystanders, Idle
  <2> QED BY <1>0, <1>1, <2>1, <2>2, <2>3 DEF Bystanders, Starting, Fresh
<1>6. FreshAlone'
  <2> SUFFICES ASSUME NEW s \in Sessions, Fresh(s) PROVE WorksAlone(s)'
    BY <1>4 DEF FreshAlone
  <2>1. WorksAlone(s)
    BY <1>0 DEF FreshAlone
  <2>2. CASE s = x
    BY <1>1, <1>3, <1>4, <2>2 DEF WorksAlone
  <2>3. CASE s # x
    BY <1>1, <1>4, <2>1, <2>3 DEF WorksAlone
  <2> QED BY <2>2, <2>3
<1>7. RunsConclude'
  <2> SUFFICES ASSUME NEW t \in Threads, sid[t] # NoSession, Fresh(sid[t])'
               PROVE  Concluded(t)'
    BY <1>1 DEF RunsConclude, Fresh
  <2>1. sid[t] \in Sessions /\ mem'[sid[t]] = mem[sid[t]]
    BY <1>0, <1>3, <1>4 DEF WorkTypeOK, TypeOK, ThreadTypeOK
  <2>2. Concluded(t)
    BY <1>0, <1>1, <2>1 DEF RunsConclude, Fresh
  <2> QED
    BY <1>1, <2>1, <2>2 DEF Concluded, Saving, Over, Idle
<1>8. RestsSettled'
  <2> SUFFICES ASSUME NEW s \in Sessions, Fresh(s), Known(s)', Workers(s)' = {}, ~processing[s]
               PROVE  Over(s) /\ mem'[s] = doc[s].status
    BY <1>1, <1>4 DEF RestsSettled, Over
  <2>1. s # x
    BY <1>4
  <2> QED BY <1>0, <1>4, <2>1 DEF RestsSettled
<1> QED
  BY <1>5, <1>6, <1>7, <1>8 DEF SettleInv

(* A request hands its session over to a new thread.                       *)
LEMMA StartSettles ==
    ASSUME FilesInv, SettleInv, NEW h \in Handlers, NEW t \in Threads, StartThread(h, t)
    PROVE  SettleInv'
<1> DEFINE x == target[h]
<1>0. WorkTypeOK /\ SubjectsKnown /\ Bystanders /\ FreshAlone /\ RunsConclude /\ RestsSettled
  BY DEF FilesInv, SettleInv
<1>1. /\ hpc[h] = "spawn" /\ pc[t] = "idle" /\ Idle(h) /\ Idle(t)
      /\ processing' = [processing EXCEPT ![x] = TRUE]
      /\ sid' = [sid EXCEPT ![t] = x]
      /\ pc' = [pc EXCEPT ![t] = "begin"]
      /\ hpc' = [hpc EXCEPT ![h] = "idle"]
      /\ target' = [target EXCEPT ![h] = NoSession]
      /\ old' = [old EXCEPT ![h] = NoSession]
      /\ UNCHANGED <<doc, call, mem, noted, cancel>>
      /\ hpc \in [Handlers -> HandlerPCs] /\ target \in [Handlers -> Sessions \cup {NoSession}]
      /\ old \in [Handlers -> Sessions \cup {NoSession}]
      /\ pc \in [Threads -> ThreadPCs] /\ sid \in [Threads -> Sessions \cup {NoSession}]
      /\ processing \in [Sessions -> BOOLEAN]
      /\ x \in Sessions
  BY <1>0
  DEF StartThread, HAt, At, Go, HGo, Reply, WorkTypeOK, TypeOK, AtWork, HandlerTypeOK,
      ThreadTypeOK, RuntimeTypeOK, sharedVars
<1>2. /\ sid[t] = NoSession /\ x # NoSession
      /\ Threads \subseteq Actors /\ Threads \cap Handlers = {} /\ h \in Workers(x)
  BY <1>0, <1>1, WorkerAssumption DEF Bystanders, Workers, Starting, Sessions, NoSession
<1> HIDE DEF x
<1>3. /\ \A s \in Sessions : Fresh(s)' <=> Fresh(s)
      /\ \A s \in Sessions : Known(s)' <=> Known(s)
      /\ \A s \in Sessions : s # x => Workers(s)' = Workers(s)
      /\ \A s \in Sessions : s = x => Workers(s)' = (Workers(s) \ {h}) \cup {t}
  <2>1. \A g \in Handlers : g # h => hpc'[g] = hpc[g] /\ target'[g] = target[g]
    BY <1>1
  <2>2. hpc'[h] \notin Starting /\ hpc[h] \in Starting
    BY <1>1 DEF Starting
  <2>3. \A u \in Threads : u # t => sid'[u] = sid[u]
    BY <1>1
  <2>4. sid'[t] = x
    BY <1>1
  <2>5. \A s \in Sessions : s # x => Workers(s)' = Workers(s)
    <3>1. NoSession \notin Sessions
      BY DEF Sessions, NoSession
    <3> QED BY <1>2, <2>1, <2>2, <2>3, <2>4, <3>1 DEF Workers, x
  <2>6. \A s \in Sessions : s = x => Workers(s)' = (Workers(s) \ {h}) \cup {t}
    BY <1>1, <1>2, <2>1, <2>2, <2>3, <2>4 DEF Workers, x
  <2> QED BY <1>1, <2>5, <2>6 DEF Fresh, Known
<1>4. Bystanders'
  <2>1. ASSUME NEW g \in Handlers, g # h
        PROVE  hpc'[g] = hpc[g] /\ target'[g] = target[g] /\ old'[g] = old[g]
    BY <1>1, <2>1
  <2>2. \A u \in Threads : /\ pc'[u] = "idle" => sid'[u] = NoSession
                           /\ ~Idle(u)' => call'[u].sid = sid'[u]
    BY <1>0, <1>1 DEF Bystanders, Idle
  <2>3. hpc'[h] = "idle"
    BY <1>1
  <2> QED BY <1>0, <1>1, <2>1, <2>2, <2>3 DEF Bystanders, Fresh
<1>5. FreshAlone'
  <2> SUFFICES ASSUME NEW s \in Sessions, Fresh(s) PROVE WorksAlone(s)'
    BY <1>3 DEF FreshAlone
  <2>1. WorksAlone(s)
    BY <1>0 DEF FreshAlone
  <2>2. \A a, b \in Workers(s)' : a = b
    BY <1>2, <1>3, <2>1 DEF WorksAlone
  <2>3. ASSUME Known(s), NEW a \in Actors, ~Idle(a)', call'[a].sid = s
        PROVE  a \in Threads /\ sid'[a] = s
    <3>1. a \in CallsOn(s) /\ a # t
      BY <1>1, <2>3 DEF CallsOn, Idle
    <3> QED BY <1>1, <2>1, <2>3, <3>1 DEF WorksAlone
  <2>4. \A u \in Threads : sid'[u] = s => processing'[s]
    BY <1>1, <2>1 DEF WorksAlone
  <2> QED BY <1>3, <2>2, <2>3, <2>4 DEF WorksAlone, CallsOn
<1>6. RunsConclude'
  <2> SUFFICES ASSUME NEW u \in Threads, sid'[u] # NoSession, Fresh(sid'[u]), u # t
               PROVE  Concluded(u)'
    BY <1>1 DEF RunsConclude, Fresh, Concluded
  <2>1. Concluded(u) /\ sid'[u] = sid[u] /\ pc'[u] = pc[u]
    BY <1>0, <1>1 DEF RunsConclude
  <2> QED BY <1>1, <2>1 DEF Concluded, Saving, Over, Idle
<1>7. RestsSettled'
  <2> SUFFICES ASSUME NEW s \in Sessions, Fresh(s), Known(s), Workers(s)' = {}, ~processing'[s]
               PROVE  Over(s) /\ mem[s] = doc[s].status
    BY <1>1, <1>3 DEF RestsSettled, Over
  <2>1. s # x
    BY <1>1
  <2> QED BY <1>0, <1>1, <1>3, <2>1 DEF RestsSettled
<1> QED
  BY <1>4, <1>5, <1>6, <1>7 DEF SettleInv

-----------------------------------------------------------------------------
(* The service                                                             *)

(* What a stage of a call of a concluded thread leads to.                  *)
LEMMA CallConcludes ==
    ASSUME WorkTypeOK, NEW t \in Threads, sid[t] \in Sessions, call[t].sid = sid[t], Concluded(t),
           Serve(t) \/ AssignSummary(t)
    PROVE  Concluded(t)'
<1>1. /\ t \in Actors /\ call \in [Actors -> Call] /\ call[t].buf \in Document
      /\ doc \in [Sessions -> Document] /\ mem \in [Sessions -> Status \cup {"absent"}]
      /\ UNCHANGED <<pc, sid>>
      /\ NoCall.stage = "none"
  BY WorkerAssumption
  DEF WorkTypeOK, TypeOK, SharedTypeOK, RuntimeTypeOK, Call, Serve, AssignSummary, threadVars,
      NoCall
<1>2. CASE AssignSummary(t)
  <2>1. /\ call[t].stage = "return" /\ call'[t] = NoCall /\ doc' = doc
        /\ mem'[sid[t]] = call[t].buf.status
    BY <1>1, <1>2 DEF AssignSummary, Return
  <2> QED BY <1>1, <2>1 DEF Concluded, Idle, Over, Saving
<1>3. CASE Serve(t) /\ Pop(t)
  <2>1. call[t].stage = "pop" /\ call'[t] = NoCall /\ doc' = doc
    BY <1>1, <1>3 DEF Pop
  <2> QED BY <1>1, <2>1 DEF Concluded, Idle, Over, Saving
<1>4. CASE Serve(t) /\ WriteGemini(t)
  <2>1. /\ call[t].stage = "save" /\ call[t].method = "write_gemini"
        /\ doc'[sid[t]].status = call[t].status
        /\ call'[t].stage \in {"none", "pop"}
    BY <1>1, <1>4 DEF WriteGemini, Saving, Store, WithStatus, AfterStatus, Document
  <2> QED BY <1>1, <2>1 DEF Concluded, Idle, Over, Saving
<1>5. CASE /\ Serve(t)
           /\ \/ SetVerdict(t) \/ WriteCodex(t) \/ UpdateUserInput(t) \/ MarkSuperseded(t)
              \/ CreateDocument(t) \/ Activate(t)
  <2>1. ~Idle(t) /\ call[t].stage \notin {"pop", "return"} /\ ~Saving(t, "write_gemini")
    BY <1>5
    DEF SetVerdict, WriteCodex, UpdateUserInput, MarkSuperseded, CreateDocument, Activate,
        Saving, Idle
  <2>2. pc[t] \notin {"finish", "failed", "return"}
    BY <2>1 DEF Concluded
  <2> QED BY <1>1, <2>2 DEF Concluded
<1> QED
  BY <1>2, <1>3, <1>4, <1>5 DEF Serve, Progress

(* The service keeps the invariant.                                        *)
LEMMA ServiceSettles ==
    ASSUME FilesInv, SettleInv, NEW a \in Actors, Serve(a) \/ AssignSummary(a)
    PROVE  SettleInv'
<1> DEFINE x == call[a].sid
<1>0. /\ WorkTypeOK /\ CallsFit /\ SubjectsKnown
      /\ Bystanders /\ FreshAlone /\ RunsConclude /\ RestsSettled
  BY DEF FilesInv, SettleInv
<1>1. /\ ~Idle(a) /\ x \in Sessions
      /\ \A b \in Actors : b # a => call'[b] = call[b]
      /\ \A s \in Sessions : s # x => doc'[s] = doc[s]
      /\ Idle(a)' \/ call'[a].sid = x
      /\ UNCHANGED <<threadVars, handlerVars>>
  BY <1>0, ProgressFiles DEF Serve, AssignSummary
<1>2. /\ UNCHANGED <<noted, cancel, processing>>
      /\ \A s \in Sessions : s # x => mem'[s] = mem[s]
      /\ \A s \in Sessions : Known(s)' <=> Known(s)
  <2>1. CASE Serve(a)
    BY <2>1 DEF Serve, runtimeVars, Known
  <2>2. CASE AssignSummary(a)
    <3>1. /\ call[a].stage = "return" /\ mem' = [mem EXCEPT ![x] = call[a].buf.status]
          /\ UNCHANGED <<noted, cancel, processing>>
          /\ mem \in [Sessions -> Status \cup {"absent"}]
      BY <1>0, <2>2 DEF AssignSummary, Return, WorkTypeOK, TypeOK, RuntimeTypeOK
    <3>2. Known(x) /\ call[a].buf.status # "absent"
      BY <1>0, <1>1, <3>1 DEF CallsFit
    <3> QED BY <1>1, <3>1, <3>2 DEF Known
  <2> QED BY <2>1, <2>2
<1>3. /\ \A s \in Sessions : Fresh(s)' <=> Fresh(s)
      /\ \A s \in Sessions : Workers(s)' = Workers(s)
      /\ \A s \in Sessions : CallsOn(s)' \subseteq CallsOn(s)
      /\ a \in CallsOn(x) /\ Threads \subseteq Actors
      /\ \A t \in Threads : sid[t] # NoSession => sid[t] \in Sessions
  BY <1>0, <1>1, <1>2, WorkerAssumption
  DEF Fresh, Workers, CallsOn, Idle, threadVars, handlerVars, WorkTypeOK, TypeOK, ThreadTypeOK
<1>4. Fresh(x) /\ Known(x) => a \in Threads /\ sid[a] = x /\ a \in Workers(x)
  BY <1>0, <1>1, <1>3 DEF FreshAlone, WorksAlone, Workers
<1> HIDE DEF x
<1>5. Bystanders'
  <2>1. \A t \in Threads : ~Idle(t)' => call'[t].sid = sid[t]
    BY <1>0, <1>1, <1>3 DEF Bystanders, Idle, x
  <2> QED
    BY <1>0, <1>1, <1>2, <2>1 DEF Bystanders, Fresh, Idle, threadVars, handlerVars
<1>6. FreshAlone'
  <2> SUFFICES ASSUME NEW s \in Sessions, Fresh(s) PROVE WorksAlone(s)'
    BY <1>3 DEF FreshAlone
  <2>1. WorksAlone(s)
    BY <1>0 DEF FreshAlone
  <2> QED BY <1>1, <1>2, <1>3, <2>1 DEF WorksAlone, threadVars
<1>7. RunsConclude'
  <2> SUFFICES ASSUME NEW t \in Threads, sid[t] # NoSession, Fresh(sid[t])
               PROVE  Concluded(t)'
    BY <1>1, <1>2 DEF RunsConclude, Fresh, threadVars
  <2>1. sid[t] \in Sessions /\ Known(sid[t]) /\ Concluded(t)
    BY <1>0, <1>3 DEF SubjectsKnown, RunsConclude
  <2>2. CASE a = t
    <3>1. call[t].sid = sid[t]
      BY <1>0, <1>1, <2>2 DEF Bystanders
    <3> QED BY <1>0, <2>1, <2>2, <3>1, CallConcludes
  <2>3. CASE a # t
    <3>1. sid[t] # x
      <4> SUFFICES ASSUME sid[t] = x PROVE FALSE
        OBVIOUS
      <4>1. a \in Workers(x) /\ t \in Workers(x) /\ WorksAlone(x)
        BY <1>0, <1>1, <1>4, <2>1 DEF Workers, FreshAlone
      <4> QED BY <2>3, <4>1 DEF WorksAlone
    <3>2. /\ pc' = pc /\ sid' = sid /\ call'[t] = call[t]
          /\ doc'[sid[t]] = doc[sid[t]] /\ mem'[sid[t]] = mem[sid[t]]
      BY <1>1, <1>2, <1>3, <2>1, <2>3, <3>1 DEF threadVars
    <3> QED BY <2>1, <3>2 DEF Concluded, Saving, Over, Idle
  <2> QED BY <2>2, <2>3
<1>8. RestsSettled'
  <2> SUFFICES ASSUME NEW s \in Sessions, Fresh(s), Known(s), Workers(s) = {}, ~processing[s]
               PROVE  (Over(s) /\ mem[s] = doc[s].status)'
    BY <1>2, <1>3 DEF RestsSettled
  <2>1. s # x
    BY <1>4
  <2> QED BY <1>0, <1>1, <1>2, <2>1 DEF RestsSettled, Over
<1> QED
  BY <1>5, <1>6, <1>7, <1>8 DEF SettleInv

-----------------------------------------------------------------------------
(* The theorem                                                             *)

(* The manager starts with no session.                                     *)
LEMMA SettleInit == Init => SettleInv
<1> SUFFICES ASSUME Init PROVE SettleInv
  OBVIOUS
<1>1. /\ \A a \in Actors : Idle(a)
      /\ \A s \in Sessions : ~Known(s)
      /\ \A t \in Threads : sid[t] = NoSession
      /\ \A h \in Handlers : hpc[h] = "idle"
      /\ \A s \in Sessions : s # NoSession
      /\ Threads \subseteq Actors
  BY WorkerAssumption
  DEF Init, SharedInit, Idle, NoCall, Known, Sessions, NoSession
<1> QED
  BY <1>1
  DEF SettleInv, Bystanders, FreshAlone, WorksAlone, RunsConclude, RestsSettled, Workers,
      CallsOn, Starting

(* Every step of the worker keeps the invariant.                           *)
LEMMA NextSettles == FilesInv /\ SettleInv /\ [Next]_vars => SettleInv'
<1> SUFFICES ASSUME FilesInv, SettleInv, [Next]_vars PROVE SettleInv'
  OBVIOUS
<1>1. ASSUME NEW t \in Threads, ThreadStep(t) PROVE SettleInv'
  BY <1>1, ThreadSettles
<1>2. ASSUME NEW h \in Handlers, HandlerStep(h) \/ Request(h) PROVE SettleInv'
  <2>1. \/ OtherRequest(h) \/ RegisterSession(h) \/ \E t \in Threads : StartThread(h, t)
    BY <1>2 DEF HandlerStep, Request, OtherRequest, CreationStep
  <2> QED BY <2>1, RequestSettles, RegisterSettles, StartSettles
<1>3. ASSUME NEW a \in Actors, Serve(a) \/ AssignSummary(a) PROVE SettleInv'
  BY <1>3, ServiceSettles
<1>4. CASE UNCHANGED vars
  BY <1>4
  DEF vars, sharedVars, runtimeVars, threadVars, handlerVars, SettleInv, Bystanders, FreshAlone,
      WorksAlone, RunsConclude, Concluded, RestsSettled, Workers, CallsOn, Fresh, Over, Known,
      Idle, Saving
<1> QED
  BY <1>1, <1>2, <1>3, <1>4 DEF Next

(* A session that nobody canceled, superseded or wrote to does not get     *)
(* stuck half way: whatever branch its run left the loop by, the document  *)
(* ends with a final status or a question and the manager reports it.      *)
THEOREM RunsSettle == Spec => []SettlesUndisturbed
<1>1. Init => FilesInv /\ SettleInv
  BY FilesInit, SettleInit
<1>2. FilesInv /\ SettleInv /\ [Next]_vars => (FilesInv /\ SettleInv)'
  BY NextFiles, NextSettles
<1>3. SettleInv => SettlesUndisturbed
  BY DEF SettleInv, RestsSettled, SettlesUndisturbed, Quiet, Workers, Fresh, Over, Starting
<1> QED
  BY <1>1, <1>2, <1>3, PTL DEF Spec

(* A session that nobody canceled, superseded or wrote to never runs on    *)
(* two threads, however many requests are handled at a time: only a        *)
(* continue can start the second run that OneThreadPerSession excludes by  *)
(* an assumption.                                                          *)
FreshOnOneThread ==
    \A t, u \in Threads : sid[t] = sid[u] /\ sid[t] # NoSession /\ Fresh(sid[t]) => t = u

(* By the invariant of the previous theorem: a fresh session has one       *)
(* worker.                                                                 *)
THEOREM FreshRunsOnce == Spec => []FreshOnOneThread
<1>1. Init => FilesInv /\ SettleInv
  BY FilesInit, SettleInit
<1>2. FilesInv /\ SettleInv /\ [Next]_vars => (FilesInv /\ SettleInv)'
  BY NextFiles, NextSettles
<1>3. FilesInv /\ SettleInv => FreshOnOneThread
  <2> SUFFICES ASSUME FilesInv, SettleInv, NEW t \in Threads, NEW u \in Threads,
                      sid[t] = sid[u], sid[t] # NoSession, Fresh(sid[t])
               PROVE  t = u
    BY DEF FreshOnOneThread
  <2>1. sid[t] \in Sessions
    BY DEF FilesInv, WorkTypeOK, TypeOK, ThreadTypeOK
  <2> QED
    BY <2>1 DEF SettleInv, FreshAlone, WorksAlone, Workers
<1> QED
  BY <1>1, <1>2, <1>3, PTL DEF Spec

-----------------------------------------------------------------------------
(* Nobody is stuck.  What a request or a run needs of others it has when   *)
(* it gets there, also after a restart.                                    *)

(* A call in progress is in a stage that the service goes on with, and an  *)
(* idle thread slot is in no call.  A request is answered only after it    *)
(* has given the lock back.                                                *)
CallsServed ==
    /\ \A a \in Actors : Idle(a) \/ Served(a)
    /\ \A t \in Threads : pc[t] = "idle" => Idle(t)

LockHeld == \A h \in lock : hpc[h] # "idle"

StuckInv == FilesInv /\ CallsServed /\ LockHeld

(* A method that has been entered is served.                               *)
LEMMA EnterServed ==
    ASSUME SharedTypeOK, NEW a \in Actors, NEW m \in Methods, NEW s, NEW st, NEW ns,
           Enter(a, m, s, st, ns)
    PROVE  Served(a)' /\ \A b \in Actors : b # a => call'[b] = call[b]
  BY DEF Enter, Served, Saving, SharedTypeOK

(* A stage of a call leaves the call over or served.                       *)
LEMMA ProgressServed ==
    ASSUME SharedTypeOK, NEW a \in Actors, Progress(a) \/ Return(a)
    PROVE  /\ (Idle(a) \/ Served(a))'
           /\ ~Idle(a)
           /\ \A b \in Actors : b # a => call'[b] = call[b]
<1>1. call \in [Actors -> Call] /\ NoCall.stage = "none"
  BY DEF SharedTypeOK, NoCall
<1>2. ASSUME NEW d, NEW next \in {"none", "pop", "activate"}, Store(a, d, next)
      PROVE  (Idle(a) \/ Served(a))' /\ \A b \in Actors : b # a => call'[b] = call[b]
  BY <1>1, <1>2 DEF Store, Idle, Served, Call
<1>3. AfterStatus(a) \in {"none", "pop"}
  BY DEF AfterStatus
<1>4. CASE \/ SetVerdict(a) \/ WriteGemini(a) \/ WriteCodex(a) \/ UpdateUserInput(a)
           \/ MarkSuperseded(a) \/ CreateDocument(a)
  BY <1>2, <1>3, <1>4
  DEF SetVerdict, WriteGemini, WriteCodex, UpdateUserInput, MarkSuperseded, CreateDocument,
      Saving, Idle
<1>5. CASE Pop(a) \/ Activate(a) \/ Return(a)
  BY <1>1, <1>5 DEF Pop, Activate, Return, Idle
<1> QED
  BY <1>4, <1>5 DEF Progress

(* A request takes the lock for itself and is over without it.             *)
LEMMA RequestLocks ==
    ASSUME WorkTypeOK, NEW h \in Handlers, HandlerStep(h) \/ Request(h)
    PROVE  lock' \subseteq lock \cup {h} /\ (hpc'[h] = "idle" => h \notin lock')
<1>1. hpc \in [Handlers -> HandlerPCs]
  BY DEF WorkTypeOK, TypeOK, HandlerTypeOK
<1>2. CASE \/ LeaveNote(h) \/ AlreadyProcessing(h) \/ RefreshCanceled(h)
           \/ \E t \in Threads : StartThread(h, t)
  BY <1>2 DEF LeaveNote, AlreadyProcessing, RefreshCanceled, StartThread, Reply
<1>3. CASE \/ NothingToSupersede(h) \/ SupersedeUnknown(h) \/ SupersedeEnded(h) \/ Supersede(h)
           \/ RefreshSuperseded(h) \/ MakeSession(h) \/ RegisterSession(h) \/ StoreRequest(h)
           \/ RefreshContinued(h) \/ ResumeSession(h) \/ NotProcessing(h) \/ UnmapCanceled(h)
  BY <1>1, <1>3
  DEF NothingToSupersede, SupersedeUnknown, SupersedeEnded, Supersede, RefreshSuperseded,
      MakeSession, RegisterSession, StoreRequest, RefreshContinued, ResumeSession, NotProcessing,
      UnmapCanceled, HGo
<1>4. CASE Request(h)
  <2>1. ASSUME NEW s \in Sessions,
               BeginCreate(h, s) \/ BeginCancel(h, s) \/ \E n \in Notes : BeginContinue(h, s, n)
        PROVE  lock' \in {lock, {h}} /\ hpc'[h] # "idle"
    BY <1>1, <2>1 DEF BeginCreate, BeginCancel, BeginContinue, HGo
  <2> QED BY <1>4, <2>1 DEF Request
<1> QED
  BY <1>2, <1>3, <1>4 DEF HandlerStep

(* Every step of the worker, restarts included, keeps the invariant.       *)
LEMMA RestartNextStuck == StuckInv /\ [RestartNext]_vars => StuckInv'
<1> SUFFICES ASSUME StuckInv, [RestartNext]_vars PROVE StuckInv'
  OBVIOUS
<1>0. FilesInv /\ FilesInv' /\ WorkTypeOK /\ SharedTypeOK /\ CallsServed /\ LockHeld
      /\ Threads \subseteq Actors /\ lock \subseteq Handlers
  BY RestartNextFiles, WorkerAssumption DEF HandlerTypeOK, StuckInv, FilesInv, WorkTypeOK, TypeOK
<1>1. ASSUME NEW t \in Threads, ThreadStep(t) PROVE CallsServed'
  <2>1. \A a \in Actors : (Idle(a) \/ Served(a))'
    <3>1. CASE RunCalls(t, sid[t])
      <4>1. PICK m \in Methods, st \in Status, ns \in SUBSET Notes : Enter(t, m, sid[t], st, ns)
        BY <3>1, Literals DEF RunCalls
      <4>2. Served(t)' /\ \A b \in Actors : b # t => call'[b] = call[b]
        BY <1>0, <4>1, EnterServed
      <4> QED BY <1>0, <4>2 DEF CallsServed, Idle, Served, Saving
    <3>2. CASE call' = call
      BY <1>0, <3>2 DEF CallsServed, Idle, Served, Saving
    <3> QED BY <1>0, <1>1, <3>1, <3>2, ThreadFiles DEF sharedVars
  <2>2. \A u \in Threads : pc'[u] = "idle" => Idle(u)'
    BY <1>0, <1>1, ThreadEffect DEF CallsServed, Idle, sharedVars
  <2> QED BY <2>1, <2>2 DEF CallsServed
<1>2. ASSUME NEW h \in Handlers, HandlerStep(h) \/ Request(h) PROVE CallsServed'
  <2>1. h \in Actors /\ h \notin Threads
    BY WorkerAssumption
  <2>2. \A a \in Actors : (Idle(a) \/ Served(a))'
    <3>1. CASE \E m \in Methods, s \in Sessions, st \in Status, ns \in SUBSET Notes :
                  Enter(h, m, s, st, ns)
      <4>1. Served(h)' /\ \A b \in Actors : b # h => call'[b] = call[b]
        BY <1>0, <2>1, <3>1, EnterServed
      <4> QED BY <1>0, <4>1 DEF CallsServed, Idle, Served, Saving
    <3>2. CASE call' = call
      BY <1>0, <3>2 DEF CallsServed, Idle, Served, Saving
    <3> QED BY <1>0, <1>2, <3>1, <3>2, HandlerFiles DEF sharedVars
  <2>3. \A u \in Threads : call'[u] = call[u] /\ (pc'[u] = "idle" => pc[u] = "idle")
    <3>1. \A u \in Threads : call'[u] = call[u]
      BY <1>0, <1>2, <2>1, HandlerFiles, EnterServed DEF sharedVars
    <3>2. \A u \in Threads : pc'[u] = "idle" => pc[u] = "idle"
      BY <1>0, <1>2, HandlerStarts
      DEF threadVars, StartThread, Go, WorkTypeOK, TypeOK, ThreadTypeOK
    <3> QED BY <3>1, <3>2
  <2> QED BY <1>0, <2>2, <2>3 DEF CallsServed, Idle
<1>3. ASSUME NEW a \in Actors, Serve(a) \/ AssignSummary(a) PROVE CallsServed'
  <2>1. /\ (Idle(a) \/ Served(a))' /\ ~Idle(a) /\ pc' = pc
        /\ \A b \in Actors : b # a => call'[b] = call[b]
    BY <1>0, <1>3, ProgressServed DEF Serve, AssignSummary, threadVars
  <2> QED BY <1>0, <2>1 DEF CallsServed, Idle, Served, Saving
<1>4. CASE Restart
  <2>1. \A a \in Actors : call'[a].stage = "none"
    BY <1>4 DEF Restart, Reload, NoCall
  <2>2. lock' = {}
    BY <1>4 DEF Restart, Reload
  <2> QED BY <1>0, <2>1, <2>2 DEF StuckInv, CallsServed, LockHeld, Idle
<1>5. CASE UNCHANGED vars
  BY <1>0, <1>5
  DEF vars, sharedVars, threadVars, handlerVars, StuckInv, CallsServed, LockHeld, Idle, Served,
      Saving
<1>6. ASSUME NEW t \in Threads, ThreadStep(t) PROVE LockHeld'
  BY <1>0, <1>6, ThreadFiles DEF handlerVars, LockHeld
<1>7. ASSUME NEW h \in Handlers, HandlerStep(h) \/ Request(h) PROVE LockHeld'
  BY <1>0, <1>7, RequestLocks, HandlerStarts DEF LockHeld
<1>8. ASSUME NEW a \in Actors, Serve(a) \/ AssignSummary(a) PROVE LockHeld'
  BY <1>0, <1>8 DEF Serve, AssignSummary, handlerVars, LockHeld
<1> QED
  BY <1>0, <1>1, <1>2, <1>3, <1>4, <1>5, <1>6, <1>7, <1>8 DEF RestartNext, Next, StuckInv

(* Nobody waits for ever: a request that is being handled and a run that   *)
(* has begun always find the guard of their next step open, whatever a     *)
(* restart has left in the files or not loaded, and whatever the others    *)
(* are in the middle of; and the lock that a create waits for is held by a *)
(* request that goes on.                                                   *)
THEOREM NobodyIsStuck == RestartSpec => []NobodyStuck
<1>1. Init => StuckInv
  BY FilesInit, WorkerAssumption
  DEF Init, SharedInit, StuckInv, CallsServed, LockHeld, Idle, NoCall
<1>2. StuckInv => NobodyStuck
  <2> SUFFICES ASSUME StuckInv PROVE NobodyStuck
    OBVIOUS
  <2>1. /\ \A a \in Threads \cup Handlers : Idle(a) \/ Served(a)
        /\ \A t \in Threads : pc[t] = "idle" => Idle(t)
        /\ SubjectsKnown /\ WorkTypeOK
    BY WorkerAssumption DEF StuckInv, CallsServed, FilesInv
  <2>2. ASSUME NEW t \in Threads, pc[t] # "idle" PROVE RunMoves(t)
    <3>1. sid[t] \in Sessions /\ Exists(sid[t])
      BY <2>1, <2>2 DEF SubjectsKnown, WorkTypeOK, TypeOK, ThreadTypeOK, AtWork
    <3> QED BY <2>1, <3>1 DEF RunMoves
  <2>3. ASSUME NEW h \in Handlers, hpc[h] # "idle" PROVE RequestMoves(h) \/ NoFreeThread(h)
    <3>1. hpc[h] = "saveRequest" => Exists(target[h])
      BY <2>1, <2>3
      DEF SubjectsKnown, Creating, WorkTypeOK, TypeOK, HandlerTypeOK, AtWork
    <3> QED BY <2>1, <3>1 DEF RequestMoves, NoFreeThread, HAt, At
  <2> QED BY <2>2, <2>3 DEF StuckInv, LockHeld, NobodyStuck
<1> QED
  BY <1>1, <1>2, RestartNextStuck, PTL DEF RestartSpec

-----------------------------------------------------------------------------
(* Steps run out                                                           *)

Preparing == {"idle", "begin", "begun", "prepare"}
InTurn    == {"ask", "gemini", "revise", "answer", "review", "decide", "instruct", "codex",
              "report", "turnEnd"}

(* A run counts its turns from one, and no turn is begun beyond the limit. *)
TurnsInLimit ==
    \A t \in Threads :
        /\ turn[t] <= MaxTurns + 1
        /\ pc[t] \in Preparing => turn[t] = 0
        /\ pc[t] \in InTurn => turn[t] <= MaxTurns

BoundInv == WorkTypeOK /\ TurnsInLimit

(* The places of a run and the stages of a call have their values.         *)
LEMMA PlaceValues ==
    /\ \A p \in ThreadPCs \ {"idle"} : Place(p) \in 1 .. 17
    /\ \A p \in HandlerPCs : RequestPlace(p) \in 0 .. 6
    /\ \A a : StagesLeft(a) \in 0 .. 2
    /\ \A a : Idle(a) => StagesLeft(a) = 0
<1>1. \A p \in ThreadPCs \ {"idle"} : Place(p) \in 1 .. 17
  BY DEF ThreadPCs, Place
<1>2. \A p \in HandlerPCs : RequestPlace(p) \in 0 .. 6
  BY DEF HandlerPCs, RequestPlace
<1>3. \A a : StagesLeft(a) \in 0 .. 2 /\ (Idle(a) => StagesLeft(a) = 0)
  <2> SUFFICES ASSUME NEW a PROVE StagesLeft(a) \in 0 .. 2 /\ (Idle(a) => StagesLeft(a) = 0)
    OBVIOUS
  <2>1. CASE Idle(a)
    BY <2>1 DEF StagesLeft, Idle
  <2>2. CASE ~Idle(a) /\ call[a].stage = "save"
    BY <2>2 DEF StagesLeft
  <2>3. CASE ~Idle(a) /\ call[a].stage # "save"
    BY <2>3 DEF StagesLeft
  <2> QED BY <2>1, <2>2, <2>3
<1> QED
  BY <1>1, <1>2, <1>3

(* A step of a run goes on to a later place, begins its first turn or its  *)
(* next one, or is its last.                                               *)
LEMMA RunGoesOn ==
    ASSUME WorkTypeOK, NEW t \in Threads, ThreadStep(t)
    PROVE  /\ pc[t] # "idle"
           /\ \A u \in Threads : u # t => pc'[u] = pc[u] /\ turn'[u] = turn[u]
           /\ \/ pc'[t] = "idle" /\ turn'[t] = 0
              \/ /\ pc'[t] # "idle" /\ turn'[t] = turn[t] /\ Place(pc'[t]) < Place(pc[t])
                 /\ pc'[t] \in Preparing => pc[t] \in Preparing
                 /\ pc'[t] \in InTurn => pc[t] \in InTurn \/ turn[t] <= MaxTurns
              \/ pc[t] = "prepare" /\ pc'[t] = "head" /\ turn'[t] = 1
              \/ pc[t] = "turnEnd" /\ pc'[t] = "head" /\ turn'[t] = turn[t] + 1
<1>1. /\ pc \in [Threads -> ThreadPCs] /\ turn \in [Threads -> Nat]
      /\ \A u \in Threads : u # t => pc'[u] = pc[u]
      /\ pc[t] # "idle"
  BY ThreadRelease DEF WorkTypeOK, TypeOK, ThreadTypeOK
<1>2. CASE PrepareRun(t) \/ PrepareRaises(t) \/ NextTurn(t) \/ EndRun(t)
  BY <1>1, <1>2 DEF PrepareRun, PrepareRaises, NextTurn, EndRun, Die, Go, At
<1>3. CASE \/ BeginRun(t) \/ RefreshBegun(t) \/ TurnsExhausted(t) \/ ObserveCancel(t)
           \/ StartTurn(t) \/ AskGemini(t) \/ GeminiAnswers(t)
  BY <1>1, <1>3
  DEF BeginRun, RefreshBegun, TurnsExhausted, ObserveCancel, StartTurn, AskGemini,
      GeminiAnswers, At, Go, Place, Preparing, InTurn
<1>4. CASE \/ ReviseGoal(t) \/ WriteAnswer(t) \/ RefreshAnswer(t) \/ Conclude(t)
           \/ StartExecution(t) \/ InstructCodex(t) \/ CodexAnswers(t) \/ AdapterRaises(t)
  BY <1>1, <1>4
  DEF ReviseGoal, WriteAnswer, RefreshAnswer, Conclude, StartExecution, InstructCodex,
      CodexAnswers, AdapterRaises, At, Go, Place, Preparing, InTurn
<1>5. CASE \/ RefreshTurn(t) \/ FailuresExceeded(t) \/ Finish(t) \/ RecordError(t)
           \/ RefreshError(t)
  BY <1>1, <1>5
  DEF RefreshTurn, FailuresExceeded, Finish, RecordError, RefreshError, At, Go, Place,
      Preparing, InTurn
<1> QED
  BY <1>2, <1>3, <1>4, <1>5 DEF ThreadStep

(* A stage of a call leaves fewer of them.                                 *)
LEMMA StagesShrink ==
    ASSUME SharedTypeOK, NEW a \in Actors, Progress(a) \/ Return(a)
    PROVE  /\ StagesLeft(a)' \in 0 .. StagesLeft(a) - 1
           /\ \A b \in Actors : b # a => call'[b] = call[b]
<1>1. call \in [Actors -> Call] /\ NoCall.stage = "none"
  BY DEF SharedTypeOK, NoCall
<1>2. ASSUME NEW d, NEW next \in {"none", "pop", "activate"}, Store(a, d, next)
      PROVE  call'[a].stage = next /\ \A b \in Actors : b # a => call'[b] = call[b]
  BY <1>1, <1>2 DEF Store, Call
<1>3. AfterStatus(a) \in {"none", "pop"}
  BY DEF AfterStatus
<1>4. CASE \/ SetVerdict(a) \/ WriteGemini(a) \/ WriteCodex(a) \/ UpdateUserInput(a)
           \/ MarkSuperseded(a) \/ CreateDocument(a)
  <2>1. /\ call[a].stage = "save" /\ call'[a].stage \in {"none", "pop", "activate"}
        /\ \A b \in Actors : b # a => call'[b] = call[b]
    BY <1>2, <1>3, <1>4
    DEF SetVerdict, WriteGemini, WriteCodex, UpdateUserInput, MarkSuperseded, CreateDocument,
        Saving
  <2> QED BY <2>1 DEF StagesLeft, Idle
<1>5. CASE Pop(a) \/ Activate(a) \/ Return(a)
  <2>1. /\ call[a].stage \in {"pop", "activate", "return"} /\ call'[a].stage = "none"
        /\ \A b \in Actors : b # a => call'[b] = call[b]
    BY <1>1, <1>5 DEF Pop, Activate, Return
  <2> QED BY <2>1 DEF StagesLeft, Idle
<1> QED
  BY <1>4, <1>5 DEF Progress

(* A request begins, goes on to a later place or is over, and starts no    *)
(* thread but an idle one.                                                 *)
LEMMA RequestGoesOn ==
    ASSUME WorkTypeOK, NEW h \in Handlers, HandlerStep(h) \/ Request(h)
    PROVE  /\ \A g \in Handlers : g # h => hpc'[g] = hpc[g]
           /\ \/ hpc[h] = "idle" /\ Idle(h) /\ RequestPlace(hpc'[h]) \in 0 .. 6
              \/ RequestPlace(hpc'[h]) < RequestPlace(hpc[h])
           /\ \A t \in Threads : \/ pc'[t] = pc[t] /\ turn'[t] = turn[t]
                                 \/ /\ pc[t] = "idle" /\ Idle(t)
                                    /\ pc'[t] = "begin" /\ turn'[t] = turn[t]
<1>1. hpc \in [Handlers -> HandlerPCs] /\ pc \in [Threads -> ThreadPCs]
  BY DEF WorkTypeOK, TypeOK, HandlerTypeOK, ThreadTypeOK
<1>2. \A g \in Handlers : g # h => hpc'[g] = hpc[g]
  BY HandlerStarts
<1>3. \A t \in Threads : \/ pc'[t] = pc[t] /\ turn'[t] = turn[t]
                         \/ /\ pc[t] = "idle" /\ Idle(t)
                            /\ pc'[t] = "begin" /\ turn'[t] = turn[t]
  BY <1>1, HandlerStarts DEF StartThread, Go, At, threadVars
<1>4. CASE Request(h)
  <2>1. ASSUME NEW s \in Sessions, BeginCreate(h, s) \/ BeginCancel(h, s)
        PROVE  hpc[h] = "idle" /\ Idle(h) /\ hpc'[h] \in {"supersede", "unmap"}
    BY <1>1, <2>1 DEF BeginCreate, BeginCancel, HAt, HGo
  <2>2. ASSUME NEW s \in Sessions, NEW n \in Notes, BeginContinue(h, s, n)
        PROVE  hpc[h] = "idle" /\ Idle(h) /\ hpc'[h] = "saveRequest"
    BY <1>1, <2>2 DEF BeginContinue, HAt, HGo
  <2> QED BY <1>2, <1>3, <1>4, <2>1, <2>2 DEF Request, RequestPlace
<1>5. CASE \/ NothingToSupersede(h) \/ SupersedeUnknown(h) \/ SupersedeEnded(h) \/ Supersede(h)
           \/ RefreshSuperseded(h) \/ MakeSession(h) \/ RegisterSession(h) \/ StoreRequest(h)
  BY <1>1, <1>2, <1>3, <1>5
  DEF NothingToSupersede, SupersedeUnknown, SupersedeEnded, Supersede, RefreshSuperseded,
      MakeSession, RegisterSession, StoreRequest, HAt, HGo, RequestPlace
<1>6. CASE \/ RefreshContinued(h) \/ ResumeSession(h) \/ LeaveNote(h) \/ AlreadyProcessing(h)
           \/ NotProcessing(h) \/ UnmapCanceled(h) \/ RefreshCanceled(h)
           \/ \E t \in Threads : StartThread(h, t)
  BY <1>1, <1>2, <1>3, <1>6
  DEF RefreshContinued, ResumeSession, LeaveNote, AlreadyProcessing, NotProcessing,
      UnmapCanceled, RefreshCanceled, StartThread, HAt, HGo, Reply, RequestPlace
<1> QED
  BY <1>4, <1>5, <1>6 DEF HandlerStep

(* A request of another leaves a handler's call as it is.                  *)
LEMMA RequestsApart ==
    ASSUME WorkTypeOK, NEW h \in Handlers, HandlerStep(h) \/ Request(h)
    PROVE  \A a \in Actors : a # h => call'[a] = call[a]
<1>1. h \in Actors /\ call \in [Actors -> Call]
  BY WorkerAssumption DEF WorkTypeOK, TypeOK, SharedTypeOK
<1> QED
  BY <1>1, HandlerFiles DEF Enter, sharedVars

(* The limit on turns is kept.                                             *)
LEMMA BoundInvNext == BoundInv /\ [RestartNext]_vars => BoundInv'
<1> SUFFICES ASSUME BoundInv, [RestartNext]_vars PROVE BoundInv'
  OBVIOUS
<1>0. /\ WorkTypeOK /\ WorkTypeOK' /\ TurnsInLimit
      /\ MaxTurns \in Nat \ {0} /\ turn \in [Threads -> Nat] /\ pc \in [Threads -> ThreadPCs]
  BY RestartNextType, WorkerAssumption DEF BoundInv, WorkTypeOK, TypeOK, ThreadTypeOK
<1>1. ASSUME NEW t \in Threads, ThreadStep(t) PROVE TurnsInLimit'
  <2> SUFFICES ASSUME NEW u \in Threads
               PROVE  /\ turn'[u] <= MaxTurns + 1
                      /\ pc'[u] \in Preparing => turn'[u] = 0
                      /\ pc'[u] \in InTurn => turn'[u] <= MaxTurns
    BY DEF TurnsInLimit, Preparing, InTurn
  <2>1. /\ turn[u] \in Nat /\ turn[u] <= MaxTurns + 1
        /\ pc[u] \in Preparing => turn[u] = 0
        /\ pc[u] \in InTurn => turn[u] <= MaxTurns
    BY <1>0 DEF TurnsInLimit
  <2>2. CASE u # t
    BY <1>0, <1>1, <2>1, <2>2, RunGoesOn
  <2>3. CASE u = t
    <3>1. CASE pc'[t] = "idle" /\ turn'[t] = 0
      BY <1>0, <2>3, <3>1 DEF InTurn
    <3>2. CASE /\ pc'[t] # "idle" /\ turn'[t] = turn[t]
               /\ pc'[t] \in Preparing => pc[t] \in Preparing
               /\ pc'[t] \in InTurn => pc[t] \in InTurn \/ turn[t] <= MaxTurns
      BY <2>1, <2>3, <3>2
    <3>3. CASE pc[t] = "prepare" /\ pc'[t] = "head" /\ turn'[t] = 1
      BY <1>0, <2>3, <3>3 DEF Preparing, InTurn
    <3>4. CASE pc[t] = "turnEnd" /\ pc'[t] = "head" /\ turn'[t] = turn[t] + 1
      BY <1>0, <2>1, <2>3, <3>4 DEF Preparing, InTurn
    <3> QED BY <1>0, <1>1, <3>1, <3>2, <3>3, <3>4, RunGoesOn
  <2> QED BY <2>2, <2>3
<1>2. ASSUME NEW h \in Handlers, HandlerStep(h) \/ Request(h) PROVE TurnsInLimit'
  <2>1. \A t \in Threads : \/ pc'[t] = pc[t] /\ turn'[t] = turn[t]
                           \/ pc[t] = "idle" /\ pc'[t] = "begin" /\ turn'[t] = turn[t]
    BY <1>0, <1>2, RequestGoesOn
  <2> QED BY <1>0, <2>1 DEF TurnsInLimit, Preparing, InTurn
<1>3. ASSUME NEW a \in Actors, Serve(a) \/ AssignSummary(a) PROVE TurnsInLimit'
  BY <1>0, <1>3 DEF Serve, AssignSummary, threadVars, TurnsInLimit
<1>4. CASE Restart
  <2>1. \A t \in Threads : pc'[t] = "idle" /\ turn'[t] = 0
    BY <1>4 DEF Restart, Reload
  <2> QED BY <1>0, <2>1 DEF BoundInv, TurnsInLimit, Preparing, InTurn
<1>5. CASE UNCHANGED vars
  BY <1>0, <1>5 DEF vars, threadVars, BoundInv, TurnsInLimit, Preparing, InTurn
<1> QED
  BY <1>0, <1>1, <1>2, <1>3, <1>4, <1>5 DEF RestartNext, Next, BoundInv

(* What is left of a run and of a request is within their lengths, and     *)
(* nothing is left of a run exactly when its slot is idle.                 *)
LEMMA LeftInBounds ==
    BoundInv =>
        /\ \A t \in Threads : pc[t] # "idle" => RunLeft(t) \in 3 .. RunLength + 2
        /\ \A h \in Handlers : RequestLeft(h) \in 0 .. RequestLength
<1> SUFFICES ASSUME BoundInv
             PROVE  /\ \A t \in Threads : pc[t] # "idle" => RunLeft(t) \in 3 .. RunLength + 2
                    /\ \A h \in Handlers : RequestLeft(h) \in 0 .. RequestLength
  OBVIOUS
<1>0. /\ MaxTurns \in Nat /\ turn \in [Threads -> Nat] /\ pc \in [Threads -> ThreadPCs]
      /\ hpc \in [Handlers -> HandlerPCs] /\ TurnsInLimit
  BY WorkerAssumption DEF BoundInv, WorkTypeOK, TypeOK, ThreadTypeOK, HandlerTypeOK
<1>1. ASSUME NEW t \in Threads, pc[t] # "idle" PROVE RunLeft(t) \in 3 .. RunLength + 2
  <2>1. Place(pc[t]) \in 1 .. 17 /\ StagesLeft(t) \in 0 .. 2
    BY <1>0, <1>1, PlaceValues
  <2>2. turn[t] \in Nat /\ turn[t] <= MaxTurns + 1
    BY <1>0 DEF TurnsInLimit
  <2>3. RunLeft(t) = 3 * (11 * (MaxTurns + 1 - turn[t]) + Place(pc[t])) + StagesLeft(t)
    BY <1>1 DEF RunLeft
  <2> HIDE DEF RunLeft
  <2> QED BY <1>0, <2>1, <2>2, <2>3 DEF RunLength
<1>2. ASSUME NEW h \in Handlers PROVE RequestLeft(h) \in 0 .. RequestLength
  <2>1. RequestPlace(hpc[h]) \in 0 .. 6 /\ StagesLeft(h) \in 0 .. 2
    BY <1>0, PlaceValues
  <2> QED BY <2>1 DEF RequestLeft, RequestLength
<1> QED
  BY <1>1, <1>2

(* The step of a run brings it nearer to its end.                          *)
LEMMA RunStepAdvances ==
    ASSUME BoundInv, BoundInv', NEW t \in Threads, ThreadStep(t)
    PROVE  RunAdvances(t)
<1> DEFINE p == Place(pc[t])
           q == Place(pc'[t])
           i == StagesLeft(t)
           j == StagesLeft(t)'
<1>0. /\ WorkTypeOK /\ MaxTurns \in Nat /\ turn[t] \in Nat /\ turn[t] <= MaxTurns + 1
      /\ turn'[t] \in Nat /\ turn'[t] <= MaxTurns + 1
      /\ pc[t] \in ThreadPCs /\ pc'[t] \in ThreadPCs /\ pc[t] # "idle"
      /\ pc[t] = "prepare" => turn[t] = 0
  BY WorkerAssumption, RunGoesOn
  DEF BoundInv, TurnsInLimit, WorkTypeOK, TypeOK, ThreadTypeOK, Preparing
<1>1. i \in 0 .. 2 /\ j \in 0 .. 2 /\ p \in 1 .. 17 /\ (pc'[t] # "idle" => q \in 1 .. 17)
  <2>1. (\A a : StagesLeft(a) \in 0 .. 2)'
    BY PlaceValues, PTL
  <2> QED BY <1>0, <2>1, PlaceValues
<1>2. RunLeft(t) = 3 * (11 * (MaxTurns + 1 - turn[t]) + p) + i
  BY <1>0 DEF RunLeft
<1>3. RunLeft(t)' = IF pc'[t] = "idle" THEN 0 ELSE 3 * (11 * (MaxTurns + 1 - turn'[t]) + q) + j
  BY DEF RunLeft
<1> HIDE DEF p, q, i, j
<1>4. RunLeft(t) # 0 /\ RunLeft(t) \in Nat
  BY <1>0, <1>1, <1>2
<1>5. CASE pc'[t] = "idle"
  BY <1>3, <1>4, <1>5 DEF RunAdvances
<1>6. CASE pc'[t] # "idle" /\ turn'[t] = turn[t] /\ q < p
  <2>1. RunLeft(t)' \in 0 .. RunLeft(t) - 1
    BY <1>0, <1>1, <1>2, <1>3, <1>6
  <2> QED BY <1>4, <2>1 DEF RunAdvances
<1>7. CASE \/ pc[t] = "prepare" /\ pc'[t] = "head" /\ turn'[t] = 1
           \/ pc[t] = "turnEnd" /\ pc'[t] = "head" /\ turn'[t] = turn[t] + 1
  <2>1. p = (IF pc[t] = "prepare" THEN 15 ELSE 4) /\ q = 14
    BY <1>7 DEF p, q, Place
  <2>2. ASSUME pc[t] = "prepare" PROVE RunLeft(t)' \in 0 .. RunLeft(t) - 1
    <3>1. turn[t] = 0 /\ turn'[t] = 1 /\ pc'[t] # "idle" /\ p = 15
      BY <1>0, <1>7, <2>1, <2>2
    <3>2. RunLeft(t) = 3 * (11 * (MaxTurns + 1) + 15) + i
      BY <1>0, <1>2, <3>1
    <3>3. RunLeft(t)' = 3 * (11 * MaxTurns + 14) + j
      BY <1>0, <1>3, <2>1, <3>1
    <3> QED BY <1>0, <1>1, <3>2, <3>3
  <2>3. ASSUME pc[t] = "turnEnd" PROVE RunLeft(t)' \in 0 .. RunLeft(t) - 1
    <3>1. turn'[t] = turn[t] + 1 /\ pc'[t] # "idle" /\ p = 4
      BY <1>7, <2>1, <2>3
    <3>2. RunLeft(t) = 3 * (11 * (MaxTurns + 1 - turn[t]) + 4) + i
      BY <1>2, <3>1
    <3>3. RunLeft(t)' = 3 * (11 * (MaxTurns + 1 - (turn[t] + 1)) + 14) + j
      BY <1>3, <2>1, <3>1
    <3>4. turn[t] + 1 <= MaxTurns + 1
      BY <1>0, <3>1
    <3> HIDE DEF RunLeft
    <3> QED BY <1>0, <1>1, <3>2, <3>3, <3>4
  <2>4. RunLeft(t)' \in 0 .. RunLeft(t) - 1
    BY <1>7, <2>2, <2>3
  <2> QED BY <1>4, <2>4 DEF RunAdvances
<1> QED
  BY <1>0, <1>5, <1>6, <1>7, RunGoesOn DEF p, q

(* The step of a request brings it nearer to its end, or is its first.     *)
LEMMA RequestStepAdvances ==
    ASSUME BoundInv, BoundInv', NEW h \in Handlers, HandlerStep(h) \/ Request(h)
    PROVE  RequestAdvances(h)
<1>0. /\ WorkTypeOK /\ hpc[h] \in HandlerPCs /\ hpc'[h] \in HandlerPCs
      /\ RequestLeft(h) \in 0 .. RequestLength
  BY LeftInBounds DEF BoundInv, WorkTypeOK, TypeOK, HandlerTypeOK
<1>1. RequestLeft(h)' \in 0 .. RequestLength
  <2>1. (\A a : StagesLeft(a) \in 0 .. 2)'
    BY PlaceValues, PTL
  <2>2. RequestPlace(hpc'[h]) \in 0 .. 6 /\ StagesLeft(h)' \in 0 .. 2
    BY <1>0, <2>1, PlaceValues
  <2> QED BY <2>2 DEF RequestLeft, RequestLength
<1>2. CASE hpc[h] = "idle" /\ Idle(h)
  <2>1. RequestLeft(h) = 0
    BY <1>2, PlaceValues DEF RequestLeft, RequestPlace
  <2> QED BY <1>1, <2>1 DEF RequestAdvances
<1>3. CASE RequestPlace(hpc'[h]) < RequestPlace(hpc[h])
  <2> DEFINE p == RequestPlace(hpc[h])
             q == RequestPlace(hpc'[h])
             i == StagesLeft(h)
             j == StagesLeft(h)'
  <2>1. i \in 0 .. 2 /\ j \in 0 .. 2 /\ p \in 0 .. 6 /\ q \in 0 .. 6
    <3>1. (\A a : StagesLeft(a) \in 0 .. 2)'
      BY PlaceValues, PTL
    <3> QED BY <1>0, <3>1, PlaceValues
  <2>2. RequestLeft(h) = 3 * p + i /\ RequestLeft(h)' = 3 * q + j /\ q < p
    BY <1>3 DEF RequestLeft
  <2> HIDE DEF p, q, i, j
  <2>3. RequestLeft(h) # 0 /\ RequestLeft(h)' \in 0 .. RequestLeft(h) - 1
    BY <2>1, <2>2
  <2> QED BY <2>3 DEF RequestAdvances
<1> QED
  BY <1>0, <1>2, <1>3, RequestGoesOn

(* A stage of a call brings the run or the request it is made for nearer   *)
(* to its end.                                                             *)
LEMMA ServiceAdvances ==
    ASSUME BoundInv, NEW a \in Actors, Serve(a) \/ AssignSummary(a)
    PROVE  /\ \A t \in Threads : RunAdvances(t)
           /\ \A h \in Handlers : RequestAdvances(h)
<1>0. /\ UNCHANGED <<pc, turn, hpc>> /\ SharedTypeOK
      /\ Threads \subseteq Actors /\ Handlers \subseteq Actors
      /\ Progress(a) \/ Return(a)
  BY WorkerAssumption
  DEF Serve, AssignSummary, threadVars, handlerVars, BoundInv, WorkTypeOK, TypeOK
<1>1. /\ StagesLeft(a)' \in 0 .. StagesLeft(a) - 1
      /\ \A b \in Actors : b # a => call'[b] = call[b]
  BY <1>0, StagesShrink
<1>2. StagesLeft(a) \in 0 .. 2
  BY PlaceValues
<1>3. ASSUME NEW t \in Threads PROVE RunAdvances(t)
  <2>1. CASE t # a
    BY <1>0, <1>1, <2>1 DEF RunAdvances
  <2>2. CASE t = a /\ pc[t] = "idle"
    <3>1. RunLeft(t) = 0 /\ RunLeft(t)' = 0 /\ MaxTurns \in Nat
      BY <1>0, <2>2, WorkerAssumption DEF RunLeft
    <3>2. RunLength \in Nat
      BY <3>1 DEF RunLength
    <3> QED BY <3>1, <3>2 DEF RunAdvances
  <2>3. CASE t = a /\ pc[t] # "idle"
    <3> DEFINE n == 3 * (11 * (MaxTurns + 1 - turn[t]) + Place(pc[t]))
               i == StagesLeft(t)
               j == StagesLeft(t)'
    <3>1. RunLeft(t) = n + i /\ RunLeft(t)' = n + j
      BY <1>0, <2>3 DEF RunLeft, Place
    <3>2. n \in Nat /\ i \in 0 .. 2 /\ j \in 0 .. i - 1
      <4>1. Place(pc[t]) \in 1 .. 17 /\ turn[t] \in Nat /\ turn[t] <= MaxTurns + 1
        BY <2>3, PlaceValues DEF BoundInv, TurnsInLimit, WorkTypeOK, TypeOK, ThreadTypeOK
      <4> QED BY <1>1, <1>2, <2>3, <4>1, WorkerAssumption
    <3> HIDE DEF n, i, j
    <3>3. RunLeft(t) # 0 /\ RunLeft(t)' \in 0 .. RunLeft(t) - 1
      BY <3>1, <3>2
    <3> QED BY <3>3 DEF RunAdvances
  <2> QED BY <2>1, <2>2, <2>3
<1>4. ASSUME NEW h \in Handlers PROVE RequestAdvances(h)
  <2>1. CASE h # a
    BY <1>0, <1>1, <2>1 DEF RequestAdvances
  <2>2. CASE h = a
    <3> DEFINE n == 3 * RequestPlace(hpc[h])
               i == StagesLeft(h)
               j == StagesLeft(h)'
    <3>1. RequestLeft(h) = n + i /\ RequestLeft(h)' = n + j
      BY <1>0 DEF RequestLeft, RequestPlace
    <3>2. n \in Nat /\ i \in 0 .. 2 /\ j \in 0 .. i - 1
      BY <1>1, <1>2, <2>2, PlaceValues DEF BoundInv, WorkTypeOK, TypeOK, HandlerTypeOK
    <3> HIDE DEF n, i, j
    <3>3. RequestLeft(h) # 0 /\ RequestLeft(h)' \in 0 .. RequestLeft(h) - 1
      BY <3>1, <3>2
    <3> QED BY <3>3 DEF RequestAdvances
  <2> QED BY <2>1, <2>2
<1> QED
  BY <1>3, <1>4

(* Every step of anyone, restarts included, does.                          *)
LEMMA StepAdvances ==
    ASSUME BoundInv, [RestartNext]_vars
    PROVE  /\ \A t \in Threads : RunAdvances(t)
           /\ \A h \in Handlers : RequestAdvances(h)
<1>0. /\ BoundInv' /\ WorkTypeOK /\ MaxTurns \in Nat
      /\ Threads \subseteq Actors /\ Handlers \subseteq Actors
      /\ \A t \in Threads : t \notin Handlers
  BY BoundInvNext, WorkerAssumption DEF BoundInv
<1>1. ASSUME NEW t \in Threads, ThreadStep(t)
      PROVE  (\A u \in Threads : RunAdvances(u)) /\ \A h \in Handlers : RequestAdvances(h)
  <2>1. /\ \A u \in Threads : u # t => pc'[u] = pc[u] /\ turn'[u] = turn[u]
        /\ \A b \in Actors : b # t => call'[b] = call[b]
        /\ hpc' = hpc
    BY <1>0, <1>1, RunGoesOn, ThreadEffect DEF handlerVars
  <2>2. RunAdvances(t)
    BY <1>0, <1>1, RunStepAdvances
  <2>3. \A u \in Threads : u # t => RunAdvances(u)
    BY <1>0, <2>1 DEF RunAdvances
  <2>4. \A h \in Handlers : RequestAdvances(h)
    BY <1>0, <2>1 DEF RequestAdvances
  <2> QED BY <2>2, <2>3, <2>4
<1>2. ASSUME NEW h \in Handlers, HandlerStep(h) \/ Request(h)
      PROVE  (\A t \in Threads : RunAdvances(t)) /\ \A g \in Handlers : RequestAdvances(g)
  <2>1. /\ \A g \in Handlers : g # h => hpc'[g] = hpc[g]
        /\ \A b \in Actors : b # h => call'[b] = call[b]
    BY <1>0, <1>2, RequestGoesOn, RequestsApart
  <2>2. RequestAdvances(h)
    BY <1>0, <1>2, RequestStepAdvances
  <2>3. \A g \in Handlers : g # h => RequestAdvances(g)
    BY <1>0, <2>1 DEF RequestAdvances
  <2>4. ASSUME NEW t \in Threads PROVE RunAdvances(t)
    <3>1. call'[t] = call[t]
      BY <1>0, <2>1
    <3>2. CASE pc'[t] = pc[t] /\ turn'[t] = turn[t]
      BY <3>1, <3>2 DEF RunAdvances
    <3>3. CASE pc[t] = "idle" /\ Idle(t) /\ pc'[t] = "begin" /\ turn'[t] = turn[t]
      <4>1. RunLeft(t) = 0 /\ turn'[t] = 0
        BY <3>3 DEF RunLeft, BoundInv, TurnsInLimit, Preparing
      <4>2. StagesLeft(t)' = 0
        BY <3>1, <3>3 DEF StagesLeft, Idle
      <4>3. RunLeft(t)' = RunLength
        BY <1>0, <3>3, <4>1, <4>2 DEF RunLeft, RunLength, Place
      <4>4. RunLength \in Nat
        BY <1>0 DEF RunLength
      <4> QED BY <4>1, <4>3, <4>4 DEF RunAdvances
    <3> QED BY <1>0, <1>2, <3>2, <3>3, RequestGoesOn
  <2> QED BY <2>2, <2>3, <2>4
<1>3. CASE Restart
  <2>1. /\ \A t \in Threads : pc'[t] = "idle"
        /\ \A h \in Handlers : hpc'[h] = "idle"
        /\ \A a \in Actors : call'[a].stage = "none"
    BY <1>3 DEF Restart, Reload, NoCall
  <2>2. ASSUME NEW t \in Threads PROVE RunAdvances(t)
    <3>1. RunLeft(t)' = 0
      BY <2>1 DEF RunLeft
    <3>2. RunLeft(t) \in Nat /\ RunLength \in Nat
      <4>1. RunLength \in Nat
        BY <1>0 DEF RunLength
      <4>2. pc[t] = "idle" => RunLeft(t) = 0
        BY DEF RunLeft
      <4> QED BY <4>1, <4>2, LeftInBounds
    <3> QED BY <3>1, <3>2 DEF RunAdvances
  <2>3. ASSUME NEW h \in Handlers PROVE RequestAdvances(h)
    <3>1. RequestLeft(h)' = 0
      BY <1>0, <2>1 DEF RequestLeft, RequestPlace, StagesLeft, Idle
    <3>2. RequestLeft(h) \in Nat /\ RequestLength \in Nat
      BY LeftInBounds DEF RequestLength
    <3> QED BY <3>1, <3>2 DEF RequestAdvances
  <2> QED BY <2>2, <2>3
<1>4. CASE UNCHANGED vars
  BY <1>4 DEF vars, sharedVars, threadVars, handlerVars, RunAdvances, RequestAdvances
<1> QED
  BY <1>1, <1>2, <1>3, <1>4, ServiceAdvances DEF RestartNext, Next

(* Runs and requests are bounded: each step of a run or of a request       *)
(* brings it nearer to its end, whatever the adapters answer, and no step  *)
(* of another, nor a restart, takes it back.  So a run is over within      *)
(* RunLength steps, and with it the turns, the Codex calls and the errors  *)
(* it can go through.                                                      *)
THEOREM StepsAreBounded == RestartSpec => StepsRunOut
<1>1. Init => BoundInv
  <2>1. Init => TurnsInLimit
    BY WorkerAssumption DEF Init, TurnsInLimit, InTurn
  <2> QED BY <2>1, InitType DEF BoundInv
<1>2. BoundInv /\ [RestartNext]_vars =>
          [/\ \A t \in Threads : RunAdvances(t)
           /\ \A h \in Handlers : RequestAdvances(h)]_vars
  BY StepAdvances
<1> QED
  BY <1>1, <1>2, BoundInvNext, PTL DEF RestartSpec, StepsRunOut

-----------------------------------------------------------------------------
(* A stop is obeyed within one turn, also by the runs of a new process.    *)

(* Adapter calls a thread can still make before it looks at the cancel     *)
(* event again.                                                            *)
CallsLeft(p) ==
    CASE p = "ask" -> 2
      [] p \in {"gemini", "revise", "answer", "review", "decide", "instruct"} -> 1
      [] OTHER -> 0

(* A stopped session whose event is down was stopped before a restart:     *)
(* nobody runs it or is about to, until a continue lifts the stop.  A      *)
(* session in creation was never stopped.                                  *)
StopsHeld ==
    /\ \A s \in Sessions : stopped[s] => Exists(s)
    /\ \A t \in Threads : sid[t] # NoSession /\ stopped[sid[t]] => cancel[sid[t]]
    /\ \A h \in Handlers :
           hpc[h] \in Creating \cup Starting /\ stopped[target[h]] => cancel[target[h]]

(* The calls a stopped session has made and those its run can still make   *)
(* before the next look are two.                                           *)
LateBounded ==
    /\ \A s \in Sessions : late[s] <= 2 /\ (~stopped[s] => late[s] = 0)
    /\ \A t \in Threads :
           sid[t] # NoSession /\ stopped[sid[t]] => late[sid[t]] + CallsLeft(pc[t]) <= 2

StopInv == FilesInv /\ ThreadInv /\ StopsHeld /\ LateBounded

(* A step of a thread makes an adapter call and has one less left, or has  *)
(* no more left than before, or has just found the cancel event down.      *)
LEMMA ThreadCalls ==
    ASSUME WorkTypeOK, NEW t \in Threads, ThreadStep(t)
    PROVE  /\ cancel' = cancel /\ stopped' = stopped
           /\ \A u \in Threads : u # t => pc'[u] = pc[u]
           /\ \/ /\ CallsLeft(pc'[t]) + 1 = CallsLeft(pc[t])
                 /\ CountLate(sid[t])
              \/ /\ late' = late
                 /\ CallsLeft(pc'[t]) <= CallsLeft(pc[t]) \/ ~cancel[sid[t]]
<1> USE DEF BeginRun, RefreshBegun, PrepareRun, PrepareRaises, TurnsExhausted,
            ObserveCancel, StartTurn, AskGemini, GeminiAnswers, ReviseGoal, WriteAnswer,
            RefreshAnswer, Conclude, StartExecution, InstructCodex, CodexAnswers, AdapterRaises,
            RefreshTurn, FailuresExceeded, NextTurn, Finish, RecordError, RefreshError, EndRun
<1>1. \A u \in Threads : u # t => pc'[u] = pc[u]
  BY ThreadRelease
<1>2. cancel' = cancel /\ stopped' = stopped
  BY DEF ThreadStep, CountLate, runtimeVars, historyVars
<1>3. CASE AskGemini(t)
  BY <1>1, <1>2, <1>3 DEF At, Go, CallsLeft, WorkTypeOK, TypeOK, ThreadTypeOK
<1>4. CASE InstructCodex(t)
  BY <1>1, <1>2, <1>4 DEF At, Go, CallsLeft, WorkTypeOK, TypeOK, ThreadTypeOK
<1>5. CASE StartTurn(t)
  BY <1>1, <1>2, <1>5 DEF historyVars
<1>6. CASE GeminiAnswers(t) \/ ReviseGoal(t) \/ WriteAnswer(t) \/ RefreshAnswer(t)
           \/ StartExecution(t)
  BY <1>1, <1>2, <1>6
  DEF At, Go, CallsLeft, historyVars, WorkTypeOK, TypeOK, ThreadTypeOK
<1>7. CASE \/ BeginRun(t) \/ RefreshBegun(t) \/ PrepareRun(t) \/ PrepareRaises(t)
           \/ TurnsExhausted(t) \/ ObserveCancel(t) \/ Conclude(t) \/ CodexAnswers(t)
           \/ AdapterRaises(t) \/ RefreshTurn(t) \/ FailuresExceeded(t) \/ NextTurn(t)
           \/ Finish(t) \/ RecordError(t) \/ RefreshError(t) \/ EndRun(t)
  <2>1. late' = late
    BY <1>7 DEF historyVars
  <2>2. pc'[t] \in {"begun", "prepare", "head", "idle", "finish", "report", "error", "turnEnd",
                    "return", "failed"}
    BY <1>7 DEF Go, Die, WorkTypeOK, TypeOK, ThreadTypeOK
  <2>3. CallsLeft(pc'[t]) = 0 /\ CallsLeft(pc[t]) \in {0, 1, 2}
    BY <2>2 DEF CallsLeft
  <2> QED BY <1>1, <1>2, <2>1, <2>3
<1> QED
  BY <1>3, <1>4, <1>5, <1>6, <1>7 DEF ThreadStep

(* A request stops a session that the manager knows, setting its event, or *)
(* resumes one, clearing the event and starting the count anew, or does    *)
(* neither.                                                                *)
LEMMA HandlerStops ==
    ASSUME WorkTypeOK, SubjectsKnown, NEW h \in Handlers, HandlerStep(h) \/ Request(h)
    PROVE  \E s \in Sessions :
               \/ UNCHANGED <<cancel, stopped, late>>
               \/ /\ Known(s) /\ late' = late
                  /\ cancel' = [cancel EXCEPT ![s] = TRUE]
                  /\ stopped' = [stopped EXCEPT ![s] = TRUE]
               \/ /\ cancel' = [cancel EXCEPT ![s] = FALSE]
                  /\ stopped' = [stopped EXCEPT ![s] = FALSE]
                  /\ late' = [late EXCEPT ![s] = 0]
<1>1. /\ hpc[h] # "idle" => target[h] \in Sessions
      /\ old[h] # NoSession => old[h] \in Sessions
  BY DEF WorkTypeOK, TypeOK, AtWork, HandlerTypeOK
<1>2. CASE Supersede(h)
  BY <1>1, <1>2 DEF Supersede, HAt
<1>3. CASE ResumeSession(h)
  BY <1>1, <1>3 DEF ResumeSession, HAt
<1>4. ASSUME NEW s \in Sessions, BeginCancel(h, s)
      PROVE  /\ Known(s) /\ late' = late
             /\ cancel' = [cancel EXCEPT ![s] = TRUE]
             /\ stopped' = [stopped EXCEPT ![s] = TRUE]
  BY <1>4 DEF BeginCancel
<1>5. ASSUME NEW s \in Sessions, BeginCreate(h, s) \/ \E n \in Notes : BeginContinue(h, s, n)
      PROVE  UNCHANGED <<cancel, stopped, late>>
  BY <1>5 DEF BeginCreate, BeginContinue, runtimeVars, historyVars
<1>6. CASE \/ NothingToSupersede(h) \/ SupersedeUnknown(h) \/ SupersedeEnded(h)
           \/ RefreshSuperseded(h) \/ MakeSession(h) \/ RegisterSession(h) \/ StoreRequest(h)
           \/ RefreshContinued(h) \/ LeaveNote(h) \/ AlreadyProcessing(h) \/ NotProcessing(h)
           \/ (\E t \in Threads : StartThread(h, t)) \/ UnmapCanceled(h) \/ RefreshCanceled(h)
  <2>1. UNCHANGED <<cancel, stopped, late>>
    BY <1>6
    DEF NothingToSupersede, SupersedeUnknown, SupersedeEnded, RefreshSuperseded, MakeSession,
        RegisterSession, StoreRequest, RefreshContinued, LeaveNote, AlreadyProcessing,
        NotProcessing, StartThread, UnmapCanceled, RefreshCanceled, runtimeVars, historyVars
  <2>2. target[h] \in Sessions
    BY <1>1, <1>6
    DEF HAt, NothingToSupersede, SupersedeUnknown, SupersedeEnded, RefreshSuperseded,
        MakeSession, RegisterSession, StoreRequest, RefreshContinued, LeaveNote,
        AlreadyProcessing, NotProcessing, StartThread, UnmapCanceled, RefreshCanceled
  <2> QED BY <2>1, <2>2
<1>7. CASE Request(h)
  BY <1>4, <1>5, <1>7 DEF Request
<1> QED
  BY <1>2, <1>3, <1>6, <1>7 DEF HandlerStep

(* What a request is about to run was not stopped, or is stopped by now.   *)
LEMMA RequestTargets ==
    ASSUME FilesInv, NEW h \in Handlers, HandlerStep(h) \/ Request(h)
    PROVE  /\ doc' = doc
           /\ \A g \in Handlers : g # h => hpc'[g] = hpc[g] /\ target'[g] = target[g]
           /\ hpc'[h] \in Creating \cup Starting =>
                  \/ target'[h] = target[h] /\ hpc[h] \in Creating \cup Starting
                  \/ target'[h] \in Sessions /\ ~Exists(target'[h])
                  \/ target'[h] \in Sessions /\ ~stopped'[target'[h]]
           /\ \A t \in Threads :
                  \/ pc'[t] = pc[t] /\ sid'[t] = sid[t]
                  \/ pc'[t] = "begin" /\ sid'[t] = target[h] /\ hpc[h] \in Starting
<1>0. /\ WorkTypeOK /\ hpc \in [Handlers -> HandlerPCs]
      /\ pc \in [Threads -> ThreadPCs] /\ stopped \in [Sessions -> BOOLEAN]
      /\ sid \in [Threads -> Sessions \cup {NoSession}]
      /\ target \in [Handlers -> Sessions \cup {NoSession}]
      /\ hpc[h] # "idle" => target[h] \in Sessions
  BY DEF FilesInv, WorkTypeOK, TypeOK, HandlerTypeOK, ThreadTypeOK, HistoryTypeOK, AtWork
<1>1. doc' = doc
  BY <1>0, HandlerFiles DEF Enter, sharedVars
<1>2. \A g \in Handlers : g # h => hpc'[g] = hpc[g] /\ target'[g] = target[g]
  BY <1>0, HandlerStarts
<1>3. \A t \in Threads : \/ pc'[t] = pc[t] /\ sid'[t] = sid[t]
                         \/ pc'[t] = "begin" /\ sid'[t] = target[h] /\ hpc[h] \in Starting
  BY <1>0, HandlerStarts DEF StartThread, HAt, Go, threadVars, Starting
<1>4. CASE \/ NothingToSupersede(h) \/ SupersedeUnknown(h) \/ SupersedeEnded(h) \/ Supersede(h)
           \/ RefreshSuperseded(h) \/ MakeSession(h) \/ RegisterSession(h) \/ NotProcessing(h)
  <2>1. target' = target /\ hpc[h] \in Creating \cup Starting
    BY <1>4
    DEF NothingToSupersede, SupersedeUnknown, SupersedeEnded, Supersede, RefreshSuperseded,
        MakeSession, RegisterSession, NotProcessing, HAt, Creating, Starting
  <2> QED BY <1>1, <1>2, <1>3, <2>1
<1>5. CASE ResumeSession(h)
  <2>1. target' = target /\ target[h] \in Sessions /\ ~stopped'[target[h]]
    BY <1>0, <1>5 DEF ResumeSession, HAt
  <2> QED BY <1>1, <1>2, <1>3, <2>1
<1>6. CASE \/ StoreRequest(h) \/ RefreshContinued(h) \/ LeaveNote(h) \/ AlreadyProcessing(h)
           \/ UnmapCanceled(h) \/ RefreshCanceled(h) \/ \E t \in Threads : StartThread(h, t)
  <2>1. hpc'[h] \in {"refresh", "resume", "idle", "respond"}
    BY <1>0, <1>6
    DEF StoreRequest, RefreshContinued, LeaveNote, AlreadyProcessing, UnmapCanceled,
        RefreshCanceled, StartThread, HGo, Reply
  <2> QED BY <1>1, <1>2, <1>3, <2>1 DEF Creating, Starting
<1>7. CASE Request(h)
  <2>1. ASSUME NEW s \in Sessions, BeginCreate(h, s)
        PROVE  target'[h] \in Sessions /\ ~Exists(target'[h])
    BY <1>0, <2>1 DEF BeginCreate
  <2>2. ASSUME NEW s \in Sessions, BeginCancel(h, s) \/ \E n \in Notes : BeginContinue(h, s, n)
        PROVE  hpc'[h] \in {"unmap", "saveRequest"}
    BY <1>0, <2>2 DEF BeginCancel, BeginContinue, HGo
  <2>3. \/ target'[h] \in Sessions /\ ~Exists(target'[h])
        \/ hpc'[h] \in {"unmap", "saveRequest"}
    BY <1>7, <2>1, <2>2 DEF Request
  <2> QED BY <1>1, <1>2, <1>3, <2>3 DEF Creating, Starting
<1> QED
  BY <1>4, <1>5, <1>6, <1>7 DEF HandlerStep

(* A step of a thread keeps the bound.                                     *)
LEMMA ThreadStops ==
    ASSUME StopInv, NEW t \in Threads, ThreadStep(t)
    PROVE  StopsHeld' /\ LateBounded'
<1>0. WorkTypeOK /\ WorkTypeOK' /\ StopsHeld /\ LateBounded
  BY NextType DEF StopInv, FilesInv, Next
<1>1. /\ late \in [Sessions -> Nat] /\ stopped \in [Sessions -> BOOLEAN]
      /\ late' \in [Sessions -> Nat]
      /\ \A u \in Threads : sid[u] # NoSession => sid[u] \in Sessions
  BY <1>0 DEF WorkTypeOK, TypeOK, HistoryTypeOK, ThreadTypeOK
<1>2. \A p : CallsLeft(p) \in {0, 1, 2}
  BY DEF CallsLeft
<1>3. /\ sid[t] \in Sessions /\ sid[t] # NoSession
      /\ \A u \in Threads : u # t => pc'[u] = pc[u] /\ sid'[u] = sid[u]
      /\ sid'[t] \in {sid[t], NoSession}
      /\ UNCHANGED <<doc, hpc, target>>
  BY <1>0, ThreadFiles, ThreadRelease, ThreadEffect DEF handlerVars, Sessions, NoSession
<1>4. cancel' = cancel /\ stopped' = stopped
  BY <1>0, ThreadCalls
<1>5. \A u \in Threads : u # t => sid[u] # sid[t]
  BY <1>3 DEF StopInv, ThreadInv, OneThreadPerSession
<1>6. StopsHeld'
  BY <1>0, <1>3, <1>4 DEF StopsHeld, Exists, Creating, Starting
<1>7. CASE CallsLeft(pc'[t]) + 1 = CallsLeft(pc[t]) /\ CountLate(sid[t])
  <2>1. /\ \A s \in Sessions : s # sid[t] => late'[s] = late[s]
        /\ late'[sid[t]] = IF stopped[sid[t]] THEN late[sid[t]] + 1 ELSE late[sid[t]]
    BY <1>1, <1>3, <1>7 DEF CountLate
  <2>2. stopped[sid[t]] => late'[sid[t]] + CallsLeft(pc'[t]) <= 2
    BY <1>0, <1>1, <1>2, <1>3, <1>7, <2>1 DEF LateBounded
  <2>3. \A s \in Sessions : late'[s] <= 2 /\ (~stopped'[s] => late'[s] = 0)
    BY <1>0, <1>1, <1>2, <1>3, <1>4, <2>1, <2>2 DEF LateBounded
  <2>4. ASSUME NEW u \in Threads, sid'[u] # NoSession, stopped'[sid'[u]]
        PROVE  late'[sid'[u]] + CallsLeft(pc'[u]) <= 2
    BY <1>0, <1>1, <1>3, <1>4, <1>5, <2>1, <2>2, <2>4 DEF LateBounded
  <2> QED BY <1>6, <2>3, <2>4 DEF LateBounded
<1>8. CASE late' = late /\ (CallsLeft(pc'[t]) <= CallsLeft(pc[t]) \/ ~cancel[sid[t]])
  <2>1. ASSUME NEW u \in Threads, sid'[u] # NoSession, stopped'[sid'[u]]
        PROVE  late'[sid'[u]] + CallsLeft(pc'[u]) <= 2
    <3>1. CASE u # t
      BY <1>0, <1>3, <1>4, <1>8, <2>1, <3>1 DEF LateBounded
    <3>2. CASE u = t
      <4>1. sid'[t] = sid[t] /\ stopped[sid[t]] /\ cancel[sid[t]]
        BY <1>0, <1>3, <1>4, <2>1, <3>2 DEF StopsHeld
      <4>2. late[sid[t]] + CallsLeft(pc[t]) <= 2 /\ CallsLeft(pc'[t]) <= CallsLeft(pc[t])
        BY <1>0, <1>3, <1>8, <4>1 DEF LateBounded
      <4> QED BY <1>1, <1>2, <1>3, <1>8, <3>2, <4>1, <4>2
    <3> QED BY <3>1, <3>2
  <2> QED BY <1>0, <1>4, <1>6, <1>8, <2>1 DEF LateBounded
<1> QED
  BY <1>0, <1>7, <1>8, ThreadCalls

(* So does a step of a request: a stop sets the event of whatever is       *)
(* running or about to.                                                    *)
LEMMA RequestStops ==
    ASSUME StopInv, NEW h \in Handlers, HandlerStep(h) \/ Request(h)
    PROVE  StopsHeld' /\ LateBounded'
<1>0. /\ WorkTypeOK /\ WorkTypeOK' /\ FilesInv /\ SubjectsKnown /\ StopsHeld /\ LateBounded
  BY NextType DEF StopInv, FilesInv, Next
<1>1. /\ late \in [Sessions -> Nat] /\ stopped \in [Sessions -> BOOLEAN]
      /\ cancel \in [Sessions -> BOOLEAN]
      /\ \A u \in Threads : sid[u] # NoSession => sid[u] \in Sessions
      /\ \A u \in Threads : sid'[u] # NoSession => sid'[u] \in Sessions
      /\ \A g \in Handlers : hpc[g] # "idle" => target[g] \in Sessions
  BY <1>0 DEF WorkTypeOK, TypeOK, HistoryTypeOK, RuntimeTypeOK, ThreadTypeOK, HandlerTypeOK,
      AtWork
<1>2. \A p : CallsLeft(p) \in {0, 1, 2}
  BY DEF CallsLeft
<1>3. PICK s \in Sessions :
         \/ UNCHANGED <<cancel, stopped, late>>
         \/ /\ Known(s) /\ late' = late
            /\ cancel' = [cancel EXCEPT ![s] = TRUE]
            /\ stopped' = [stopped EXCEPT ![s] = TRUE]
         \/ /\ cancel' = [cancel EXCEPT ![s] = FALSE]
            /\ stopped' = [stopped EXCEPT ![s] = FALSE]
            /\ late' = [late EXCEPT ![s] = 0]
  BY <1>0, HandlerStops
<1>4. \A r \in Sessions : /\ stopped'[r] => stopped[r] \/ (cancel'[r] /\ Exists(r))
                          /\ stopped'[r] /\ cancel[r] => cancel'[r]
                          /\ late'[r] <= 2 /\ (~stopped'[r] => late'[r] = 0)
                          /\ stopped'[r] => late'[r] = late[r]
  BY <1>0, <1>1, <1>3 DEF LateBounded, SubjectsKnown
<1>5. /\ doc' = doc
      /\ \A g \in Handlers : g # h => hpc'[g] = hpc[g] /\ target'[g] = target[g]
      /\ hpc'[h] \in Creating \cup Starting =>
             \/ target'[h] = target[h] /\ hpc[h] \in Creating \cup Starting
             \/ target'[h] \in Sessions /\ ~Exists(target'[h])
             \/ target'[h] \in Sessions /\ ~stopped'[target'[h]]
      /\ \A t \in Threads :
             \/ pc'[t] = pc[t] /\ sid'[t] = sid[t]
             \/ pc'[t] = "begin" /\ sid'[t] = target[h] /\ hpc[h] \in Starting
  BY <1>0, RequestTargets
<1>6. "idle" \notin Creating \cup Starting
  BY DEF Creating, Starting
<1>7. StopsHeld'
  <2>1. \A r \in Sessions : stopped'[r] => Exists(r)'
    BY <1>0, <1>4, <1>5 DEF StopsHeld, Exists
  <2>2. ASSUME NEW t \in Threads, sid'[t] # NoSession, stopped'[sid'[t]]
        PROVE  cancel'[sid'[t]]
    <3>1. CASE pc'[t] = pc[t] /\ sid'[t] = sid[t]
      BY <1>0, <1>1, <1>4, <2>2, <3>1 DEF StopsHeld
    <3>2. CASE sid'[t] = target[h] /\ hpc[h] \in Starting
      BY <1>0, <1>1, <1>4, <1>6, <2>2, <3>2 DEF StopsHeld
    <3> QED BY <1>5, <3>1, <3>2
  <2>3. ASSUME NEW g \in Handlers, hpc'[g] \in Creating \cup Starting, stopped'[target'[g]]
        PROVE  cancel'[target'[g]]
    <3>1. CASE target'[g] = target[g] /\ hpc[g] \in Creating \cup Starting
      BY <1>0, <1>1, <1>4, <1>6, <2>3, <3>1 DEF StopsHeld
    <3>2. CASE g = h /\ target'[h] \in Sessions /\ ~Exists(target'[h])
      BY <1>0, <1>4, <2>3, <3>2 DEF StopsHeld
    <3> QED BY <1>5, <2>3, <3>1, <3>2
  <2> QED BY <2>1, <2>2, <2>3 DEF StopsHeld, Creating, Starting
<1>8. ASSUME NEW u \in Threads, sid'[u] # NoSession, stopped'[sid'[u]]
      PROVE  late'[sid'[u]] + CallsLeft(pc'[u]) <= 2
  <2>1. CASE pc'[u] = "begin"
    <3>1. CallsLeft(pc'[u]) = 0
      BY <2>1 DEF CallsLeft
    <3> QED BY <1>1, <1>4, <1>8, <3>1
  <2>2. CASE pc'[u] = pc[u] /\ sid'[u] = sid[u]
    <3>1. sid[u] \in Sessions /\ late'[sid[u]] = late[sid[u]]
      BY <1>1, <1>4, <1>8, <2>2
    <3>2. CASE stopped[sid[u]]
      BY <1>0, <1>8, <2>2, <3>1, <3>2 DEF LateBounded
    <3>3. CASE ~stopped[sid[u]]
      <4>1. late[sid[u]] = 0
        BY <1>0, <3>1, <3>3 DEF LateBounded
      <4> QED BY <1>2, <2>2, <3>1, <4>1
    <3> QED BY <3>2, <3>3
  <2> QED BY <1>5, <2>1, <2>2
<1> QED
  BY <1>4, <1>7, <1>8 DEF LateBounded

(* Every step, a restart included, keeps the bound on what a stopped       *)
(* session still calls.                                                    *)
LEMMA StopInvNext ==
    ASSUME OneRequestAtATime, StopInv, [RestartNext]_vars
    PROVE  StopInv'
<1>0. /\ FilesInv' /\ ThreadInv'
      /\ FilesInv /\ StopsHeld /\ LateBounded /\ WorkTypeOK /\ CallsFit
  BY RestartNextFiles, RestartNextThread DEF StopInv, FilesInv
<1>1. ASSUME NEW a \in Actors, Serve(a) \/ AssignSummary(a) PROVE StopsHeld' /\ LateBounded'
  <2>1. UNCHANGED <<cancel, stopped, late, pc, sid, hpc, target>>
    BY <1>1 DEF Serve, AssignSummary, runtimeVars, threadVars, handlerVars, historyVars
  <2>2. \A s \in Sessions : Exists(s) => Exists(s)'
    BY <1>0, <1>1, ProgressFiles DEF Serve, AssignSummary, Exists
  <2> QED BY <1>0, <2>1, <2>2 DEF StopsHeld, LateBounded, Creating, Starting
<1>2. CASE Restart
  <2>1. /\ UNCHANGED <<doc, stopped, late>>
        /\ \A t \in Threads : sid'[t] = NoSession
        /\ \A h \in Handlers : hpc'[h] = "idle"
    BY <1>2 DEF Restart, Reload, historyVars
  <2>2. StopsHeld' /\ LateBounded'
    BY <1>0, <2>1 DEF StopsHeld, LateBounded, Exists, Creating, Starting
  <2> QED BY <1>0, <2>2 DEF StopInv
<1>3. CASE UNCHANGED vars
  BY <1>0, <1>3
  DEF vars, sharedVars, StopInv, StopsHeld, LateBounded, Exists, runtimeVars, threadVars,
      handlerVars, historyVars
<1> QED
  BY <1>0, <1>1, <1>2, <1>3, ThreadStops, RequestStops DEF RestartNext, Next, StopInv

(* A session that has been canceled or superseded, and not continued       *)
(* since, costs at most one more Gemini call and one more Codex call, for  *)
(* any number of turns, sessions and threads, and although a restart       *)
(* clears the cancel event: the new process starts no run of it.           *)
THEOREM StopIsObeyed ==
    ASSUME OneRequestAtATime
    PROVE  RestartSpec => []CancelStopsSoon
<1>1. Init => StopInv
  <2>1. Init => ThreadInv
    BY InitType DEF Init, ThreadInv, OneThreadPerSession
  <2>2. Init => StopsHeld /\ LateBounded
    BY DEF Init, StopsHeld, LateBounded
  <2> QED
    BY <2>1, <2>2, FilesInit DEF StopInv
<1>2. StopInv /\ [RestartNext]_vars => StopInv'
  BY StopInvNext
<1>3. StopInv => CancelStopsSoon
  BY DEF StopInv, LateBounded, CancelStopsSoon
<1> QED
  BY <1>1, <1>2, <1>3, PTL DEF RestartSpec
=============================================================================
