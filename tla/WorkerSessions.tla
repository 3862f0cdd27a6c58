---------------------------- MODULE WorkerSessions ----------------------------
(***************************************************************************)
(* The session manager and the orchestration threads of the worker         *)
(* (worker/orchestrator.py) over the shared session state of SharedGoal.   *)
(*                                                                         *)
(* Handlers run the POST endpoints: create, continue and cancel a session. *)
(* Threads run process_session, the Gemini/Codex loop of one session, in   *)
(* the background.  Both go through the session service one stage at a     *)
(* time, so a handler can act between any two steps of a thread.           *)
(*                                                                         *)
(* The adapters are modelled by what they answer: a Gemini verdict, a      *)
(* Codex result that counts as a failure or not, or an exception.          *)
(***************************************************************************)
EXTENDS SharedGoal

CONSTANTS
    Threads,            \* slots for background threads
    Handlers,           \* slots for requests being handled
    MaxTurns,           \* cfg.max_turns
    MaxCodexFailures,   \* cfg.max_codex_failures
    MaxStops            \* cancel requests users make (bounds the model)

ASSUME WorkerAssumption ==
    /\ Actors = Threads \cup Handlers
    /\ Threads \cap Handlers = {}
    /\ MaxTurns \in Nat \ {0}
    /\ MaxCodexFailures \in Nat
    /\ MaxStops \in Nat

VARIABLES
    \* SessionRuntimeState, per session
    mem,          \* summary.state; "absent" until the manager knows the session
    noted,        \* request.user_notes
    processing,   \* processing
    cancel,       \* cancel_event.is_set()
    hasTurns,     \* detail.turns is not empty
    carried,      \* detail.latest_job.rolling_summary.codex_failures
    \* process_session, per thread
    pc, sid, turn, failures, verdict,
    \* request handlers and the manager's lock
    hpc, target, old, lock,   \* lock: the handlers holding it
    \* what happened, for the properties
    seen,         \* notes that were part of a Gemini request
    stopped,      \* canceled or superseded, and not continued since
    late,         \* adapter calls made since the session was stopped
    stops         \* cancel requests made

runtimeVars == <<mem, noted, processing, cancel, hasTurns, carried>>
threadVars  == <<pc, sid, turn, failures, verdict>>
handlerVars == <<hpc, target, old, lock>>
historyVars == <<seen, stopped, late, stops>>
vars == <<sharedVars, runtimeVars, threadVars, handlerVars, historyVars>>

ThreadPCs == {"idle", "begin", "begun", "prepare", "head", "ask", "gemini", "revise",
              "answer", "review", "decide", "instruct", "codex", "report", "turnEnd",
              "finish", "error", "failed", "return"}
HandlerPCs == {"idle", "supersede", "superseded", "make", "register", "saveRequest",
               "refresh", "resume", "unmap", "start", "spawn", "respond"}
Verdicts == {"continue", "done", "ask_user", "fail", "canceled"}

At(t, p)    == pc[t] = p /\ Idle(t)
HAt(h, p)   == hpc[h] = p /\ Idle(h)
Go(t, p)    == pc' = [pc EXCEPT ![t] = p]
HGo(h, p)   == hpc' = [hpc EXCEPT ![h] = p]

(* What the manager has in its table; for any other id it raises KeyError. *)
KnownMutant(s) == TRUE

Known(s) == mem[s] # "absent"

-----------------------------------------------------------------------------
(* process_session                                                         *)

ThreadOnly == UNCHANGED handlerVars

(* The thread is over and its locals are gone.                             *)
Die(t) ==
    /\ Go(t, "idle")
    /\ sid' = [sid EXCEPT ![t] = NoSession]
    /\ turn' = [turn EXCEPT ![t] = 0]
    /\ failures' = [failures EXCEPT ![t] = 0]
    /\ verdict' = [verdict EXCEPT ![t] = "continue"]

(* Start of a run: the verdict is reset, then the document is re-read.     *)
BeginRunMutant(t) ==
    /\ pc[t] = "begin"
    /\ doc' = [doc EXCEPT ![sid[t]].status = "planning"]
    /\ Go(t, "begun")
    /\ UNCHANGED <<req, active, call, runtimeVars, sid, turn, failures, verdict, historyVars>>
    /\ ThreadOnly

BeginRun(t) ==
    /\ pc[t] = "begin"
    /\ Enter(t, "set_verdict", sid[t], "planning", {})
    /\ Go(t, "begun")
    /\ UNCHANGED <<runtimeVars, sid, turn, failures, verdict, historyVars>> /\ ThreadOnly

RefreshBegun(t) ==
    /\ At(t, "begun")
    /\ Enter(t, "read", sid[t], "planning", {})
    /\ Go(t, "prepare")
    /\ UNCHANGED <<runtimeVars, sid, turn, failures, verdict, historyVars>> /\ ThreadOnly

(* The run's request is stored and the state of earlier runs picked up.    *)
PrepareRun(t) ==
    /\ At(t, "prepare")
    /\ failures' = [failures EXCEPT ![t] = carried[sid[t]]]
    /\ turn' = [turn EXCEPT ![t] = 1]
    /\ Go(t, "head")
    /\ UNCHANGED <<sharedVars, runtimeVars, sid, verdict, historyVars>> /\ ThreadOnly

(* save_job_request raises outside the try block, or the conversation      *)
(* store is read while another run rewrites it: the thread dies and        *)
(* processing stays set.                                                   *)
PrepareRaises(t) ==
    /\ At(t, "prepare")
    /\ Die(t)
    /\ UNCHANGED <<sharedVars, runtimeVars, historyVars>> /\ ThreadOnly

(* The head of the turn loop: the one place the cancel event is looked at. *)
TurnsExhaustedMutant(t) ==
    /\ At(t, "head") /\ turn[t] > MaxTurns
    /\ verdict' = [verdict EXCEPT ![t] = "fail"]
    /\ Go(t, "finish")
    /\ UNCHANGED <<sharedVars, runtimeVars, sid, turn, failures, historyVars>> /\ ThreadOnly

TurnsExhausted(t) ==
    /\ At(t, "head") /\ turn[t] > MaxTurns
    /\ Enter(t, "write_gemini", sid[t], "failed", {})
    /\ verdict' = [verdict EXCEPT ![t] = "fail"]
    /\ Go(t, "finish")
    /\ UNCHANGED <<runtimeVars, sid, turn, failures, historyVars>> /\ ThreadOnly

ObserveCancel(t) ==
    /\ At(t, "head") /\ turn[t] <= MaxTurns
    /\ cancel[sid[t]]
    /\ verdict' = [verdict EXCEPT ![t] = "canceled"]
    /\ Go(t, "finish")
    /\ UNCHANGED <<sharedVars, runtimeVars, sid, turn, failures, historyVars>> /\ ThreadOnly

GeminiStateMutant(t) ==
    IF ~hasTurns[sid[t]] /\ turn[t] = 1 THEN "planning" ELSE "review"

GeminiState(t) ==
    IF ~hasTurns[sid[t]] /\ turn[t] = 1 THEN "planning" ELSE "reviewing"

StartTurnMutant(t) ==
    /\ At(t, "head") /\ turn[t] <= MaxTurns
    /\ Enter(t, "set_verdict", sid[t], GeminiState(t), {})
    /\ Go(t, "ask")
    /\ UNCHANGED <<runtimeVars, sid, turn, failures, verdict, historyVars>> /\ ThreadOnly

StartTurn(t) ==
    /\ At(t, "head") /\ turn[t] <= MaxTurns
    /\ ~cancel[sid[t]]
    /\ Enter(t, "set_verdict", sid[t], GeminiState(t), {})
    /\ Go(t, "ask")
    /\ UNCHANGED <<runtimeVars, sid, turn, failures, verdict, historyVars>> /\ ThreadOnly

(* An adapter call; one for a stopped session is counted.                  *)
CountLate(s) ==
    /\ late' = IF stopped[s] THEN [late EXCEPT ![s] = @ + 1] ELSE late
    /\ stopped' = stopped

AskGemini(t) ==
    /\ At(t, "ask")
    /\ seen' = [seen EXCEPT ![sid[t]] = @ \cup noted[sid[t]]]
    /\ CountLate(sid[t])
    /\ Go(t, "gemini")
    /\ UNCHANGED <<sharedVars, runtimeVars, sid, turn, failures, verdict, stops>> /\ ThreadOnly

(* Gemini's verdict, with or without a revised goal.  A "continue" without *)
(* an instruction for Codex is handled as "fail" is.                       *)
GeminiAnswers(t) ==
    /\ pc[t] = "gemini"
    /\ \E v \in Verdicts \ {"canceled"} : verdict' = [verdict EXCEPT ![t] = v]
    /\ \E p \in {"revise", "answer"} : Go(t, p)
    /\ UNCHANGED <<sharedVars, runtimeVars, sid, turn, failures, historyVars>> /\ ThreadOnly

ReviseGoal(t) ==
    /\ pc[t] = "revise"
    /\ SaveRequest(sid[t], noted[sid[t]])
    /\ Go(t, "answer")
    /\ UNCHANGED <<doc, active, call, runtimeVars, sid, turn, failures, verdict, historyVars>>
    /\ ThreadOnly

WriteAnswer(t) ==
    /\ pc[t] = "answer"
    /\ Enter(t, "write_gemini", sid[t], GeminiState(t), {})
    /\ Go(t, "review")
    /\ UNCHANGED <<runtimeVars, sid, turn, failures, verdict, historyVars>> /\ ThreadOnly

RefreshAnswer(t) ==
    /\ At(t, "review")
    /\ Enter(t, "read", sid[t], "planning", {})
    /\ Go(t, "decide")
    /\ UNCHANGED <<runtimeVars, sid, turn, failures, verdict, historyVars>> /\ ThreadOnly

FinalState(v) ==
    CASE v = "done"     -> "completed"
      [] v = "ask_user" -> "waiting_user"
      [] v = "canceled" -> "canceled"
      [] OTHER          -> "failed"

Conclude(t) ==
    /\ At(t, "decide") /\ verdict[t] # "continue"
    /\ Enter(t, "write_gemini", sid[t], FinalState(verdict[t]), {})
    /\ Go(t, "finish")
    /\ UNCHANGED <<runtimeVars, sid, turn, failures, verdict, historyVars>> /\ ThreadOnly

StartExecution(t) ==
    /\ At(t, "decide") /\ verdict[t] = "continue"
    /\ Enter(t, "set_verdict", sid[t], "executing", {})
    /\ Go(t, "instruct")
    /\ UNCHANGED <<runtimeVars, sid, turn, failures, verdict, historyVars>> /\ ThreadOnly

InstructCodex(t) ==
    /\ At(t, "instruct")
    /\ CountLate(sid[t])
    /\ Go(t, "codex")
    /\ UNCHANGED <<sharedVars, runtimeVars, sid, turn, failures, verdict, seen, stops>>
    /\ ThreadOnly

(* Codex's result is written and the turn recorded.                        *)
CodexAnswers(t) ==
    /\ pc[t] = "codex"
    /\ \/ failures' = failures
       \/ failures' = [failures EXCEPT ![t] = @ + 1]
    /\ hasTurns' = [hasTurns EXCEPT ![sid[t]] = TRUE]
    /\ Enter(t, "write_codex", sid[t], "planning", {})
    /\ Go(t, "report")
    /\ UNCHANGED <<mem, noted, processing, cancel, carried, sid, turn, verdict, historyVars>>
    /\ ThreadOnly

(* An adapter raises, the answer cannot be stored, or the command policy   *)
(* refuses a default command before Codex is called.                       *)
AdapterRaises(t) ==
    /\ pc[t] \in {"gemini", "answer", "codex"} \/ At(t, "instruct")
    /\ Go(t, "error")
    /\ UNCHANGED <<sharedVars, runtimeVars, sid, turn, failures, verdict, historyVars>>
    /\ ThreadOnly

RefreshTurn(t) ==
    /\ At(t, "report")
    /\ Enter(t, "read", sid[t], "planning", {})
    /\ Go(t, "turnEnd")
    /\ UNCHANGED <<runtimeVars, sid, turn, failures, verdict, historyVars>> /\ ThreadOnly

FailuresExceeded(t) ==
    /\ At(t, "turnEnd") /\ failures[t] > MaxCodexFailures
    /\ Enter(t, "write_gemini", sid[t], "failed", {})
    /\ verdict' = [verdict EXCEPT ![t] = "fail"]
    /\ Go(t, "finish")
    /\ UNCHANGED <<runtimeVars, sid, turn, failures, historyVars>> /\ ThreadOnly

NextTurnMutant(t) ==
    /\ At(t, "turnEnd") /\ failures[t] <= MaxCodexFailures
    /\ Go(t, "head")
    /\ UNCHANGED <<sharedVars, runtimeVars, sid, turn, failures, verdict, historyVars>>
    /\ ThreadOnly

NextTurn(t) ==
    /\ At(t, "turnEnd") /\ failures[t] <= MaxCodexFailures
    /\ turn' = [turn EXCEPT ![t] = @ + 1]
    /\ Go(t, "head")
    /\ UNCHANGED <<sharedVars, runtimeVars, sid, failures, verdict, historyVars>> /\ ThreadOnly

(* The job result is kept and the summary set; the refresh that follows    *)
(* overwrites the summary with the document.                               *)
Finish(t) ==
    /\ At(t, "finish")
    /\ carried' = [carried EXCEPT ![sid[t]] = failures[t]]
    /\ mem' = [mem EXCEPT ![sid[t]] = FinalState(verdict[t])]
    /\ Enter(t, "read", sid[t], "planning", {})
    /\ Go(t, "return")
    /\ UNCHANGED <<noted, processing, cancel, hasTurns, sid, turn, failures, verdict,
                   historyVars>>
    /\ ThreadOnly

(* The except branch.                                                      *)
RecordError(t) ==
    /\ pc[t] = "error"
    /\ carried' = [carried EXCEPT ![sid[t]] = failures[t]]
    /\ Enter(t, "write_gemini", sid[t], "failed", {})
    /\ Go(t, "failed")
    /\ UNCHANGED <<mem, noted, processing, cancel, hasTurns, sid, turn, failures, verdict,
                   historyVars>>
    /\ ThreadOnly

RefreshError(t) ==
    /\ At(t, "failed")
    /\ mem' = [mem EXCEPT ![sid[t]] = "failed"]
    /\ Enter(t, "read", sid[t], "planning", {})
    /\ Go(t, "return")
    /\ UNCHANGED <<noted, processing, cancel, hasTurns, carried, sid, turn, failures, verdict,
                   historyVars>>
    /\ ThreadOnly

(* _run_in_background after process_session has returned.                  *)
EndRun(t) ==
    /\ At(t, "return")
    /\ processing' = [processing EXCEPT ![sid[t]] = FALSE]
    /\ Die(t)
    /\ UNCHANGED <<sharedVars, mem, noted, cancel, hasTurns, carried, historyVars>>
    /\ ThreadOnly

ThreadStep(t) ==
    \/ BeginRun(t) \/ RefreshBegun(t) \/ PrepareRun(t) \/ PrepareRaises(t)
    \/ TurnsExhausted(t) \/ ObserveCancel(t) \/ StartTurn(t)
    \/ AskGemini(t) \/ GeminiAnswers(t) \/ ReviseGoal(t) \/ WriteAnswer(t) \/ RefreshAnswer(t)
    \/ Conclude(t) \/ StartExecution(t) \/ InstructCodex(t) \/ CodexAnswers(t)
    \/ AdapterRaises(t) \/ RefreshTurn(t) \/ FailuresExceeded(t) \/ NextTurn(t)
    \/ Finish(t) \/ RecordError(t) \/ RefreshError(t) \/ EndRun(t)

-----------------------------------------------------------------------------
(* The POST endpoints                                                      *)

HandlerOnly == UNCHANGED threadVars
(* The request is answered and the handler's locals are gone.              *)
Reply(h) ==
    /\ HGo(h, "idle")
    /\ target' = [target EXCEPT ![h] = NoSession]
    /\ old' = [old EXCEPT ![h] = NoSession]
    /\ lock' = lock \ {h}

(* create_session: under the manager's lock, read the conversation's       *)
(* active session for the session that is about to be created.             *)
BeginCreateMutant(h, s) ==
    /\ HAt(h, "idle")
    /\ ~Exists(s) /\ \A r \in Sessions : r < s => Exists(r)
    /\ lock' = lock
    /\ target' = [target EXCEPT ![h] = s]
    /\ old' = [old EXCEPT ![h] = active[ConvOf[s]]]
    /\ HGo(h, "supersede")
    /\ UNCHANGED <<sharedVars, runtimeVars, historyVars>> /\ HandlerOnly

BeginCreate(h, s) ==
    /\ HAt(h, "idle") /\ lock = {}
    /\ ~Exists(s) /\ \A r \in Sessions : r < s => Exists(r)
    /\ lock' = {h}
    /\ target' = [target EXCEPT ![h] = s]
    /\ old' = [old EXCEPT ![h] = active[ConvOf[s]]]
    /\ HGo(h, "supersede")
    /\ UNCHANGED <<sharedVars, runtimeVars, historyVars>> /\ HandlerOnly

NothingToSupersede(h) ==
    /\ HAt(h, "supersede") /\ old[h] = NoSession
    /\ HGo(h, "make")
    /\ UNCHANGED <<sharedVars, runtimeVars, target, old, lock, historyVars>> /\ HandlerOnly

(* The map names a session the manager does not know.                      *)
SupersedeUnknownMutant(h) ==
    /\ HAt(h, "supersede") /\ old[h] # NoSession
    /\ Known(old[h])
    /\ ClearActive(target[h])
    /\ HGo(h, "make")
    /\ UNCHANGED <<doc, req, call, runtimeVars, target, old, lock, historyVars>> /\ HandlerOnly

SupersedeUnknown(h) ==
    /\ HAt(h, "supersede") /\ old[h] # NoSession
    /\ ~Known(old[h])
    /\ ClearActive(target[h])
    /\ HGo(h, "make")
    /\ UNCHANGED <<doc, req, call, runtimeVars, target, old, lock, historyVars>> /\ HandlerOnly

(* The recorded session has ended already: only the entry goes.            *)
SupersedeEnded(h) ==
    /\ HAt(h, "supersede") /\ old[h] # NoSession
    /\ mem[old[h]] \in Terminal
    /\ ClearActive(old[h])
    /\ HGo(h, "make")
    /\ UNCHANGED <<doc, req, call, runtimeVars, target, old, lock, historyVars>> /\ HandlerOnly

Supersede(h) ==
    /\ HAt(h, "supersede") /\ old[h] # NoSession
    /\ Known(old[h]) /\ mem[old[h]] \notin Terminal
    /\ cancel' = [cancel EXCEPT ![old[h]] = TRUE]
    /\ stopped' = [stopped EXCEPT ![old[h]] = TRUE]
    /\ mem' = [mem EXCEPT ![old[h]] = "canceled"]
    /\ Enter(h, "supersede", old[h], "planning", {})
    /\ HGo(h, "superseded")
    /\ UNCHANGED <<noted, processing, hasTurns, carried, target, old, lock, seen, late, stops>>
    /\ HandlerOnly

RefreshSuperseded(h) ==
    /\ HAt(h, "superseded")
    /\ Enter(h, "read", old[h], "planning", {})
    /\ HGo(h, "make")
    /\ UNCHANGED <<runtimeVars, target, old, lock, historyVars>> /\ HandlerOnly

MakeSession(h) ==
    /\ HAt(h, "make")
    /\ Enter(h, "create", target[h], "planning", {})
    /\ HGo(h, "register")
    /\ UNCHANGED <<runtimeVars, target, old, lock, historyVars>> /\ HandlerOnly

RegisterSession(h) ==
    /\ HAt(h, "register")
    /\ mem' = [mem EXCEPT ![target[h]] = "planning"]
    /\ HGo(h, "start")
    /\ UNCHANGED <<sharedVars, noted, processing, cancel, hasTurns, carried, target, old, lock,
                   historyVars>>
    /\ HandlerOnly

(* continue_session: the text joins the request in memory, then the        *)
(* document and the request file.                                          *)
BeginContinue(h, s, n) ==
    /\ HAt(h, "idle") /\ Known(s)
    /\ \A r \in Sessions : n \notin noted[r]
    /\ noted' = [noted EXCEPT ![s] = @ \cup {n}]
    /\ target' = [target EXCEPT ![h] = s]
    /\ Enter(h, "update_input", s, "planning", {n})
    /\ HGo(h, "saveRequest")
    /\ UNCHANGED <<mem, processing, cancel, hasTurns, carried, old, lock, historyVars>>
    /\ HandlerOnly

StoreRequest(h) ==
    /\ HAt(h, "saveRequest")
    /\ SaveRequest(target[h], noted[target[h]])
    /\ HGo(h, "refresh")
    /\ UNCHANGED <<doc, active, call, runtimeVars, target, old, lock, historyVars>> /\ HandlerOnly

RefreshContinued(h) ==
    /\ HAt(h, "refresh")
    /\ Enter(h, "read", target[h], "planning", {})
    /\ HGo(h, "resume")
    /\ UNCHANGED <<runtimeVars, target, old, lock, historyVars>> /\ HandlerOnly

Resumable(s) == mem[s] = "waiting_user" \/ ~processing[s]

ResumeSessionMutant(h) ==
    /\ HAt(h, "resume") /\ Resumable(target[h])
    /\ stopped' = [stopped EXCEPT ![target[h]] = FALSE]
    /\ late' = [late EXCEPT ![target[h]] = 0]
    /\ HGo(h, "start")
    /\ UNCHANGED <<sharedVars, runtimeVars, target, old, lock, seen, stops>> /\ HandlerOnly

ResumeSession(h) ==
    /\ HAt(h, "resume") /\ Resumable(target[h])
    /\ cancel' = [cancel EXCEPT ![target[h]] = FALSE]
    /\ stopped' = [stopped EXCEPT ![target[h]] = FALSE]
    /\ late' = [late EXCEPT ![target[h]] = 0]
    /\ HGo(h, "start")
    /\ UNCHANGED <<sharedVars, mem, noted, processing, hasTurns, carried, target, old, lock, seen,
                   stops>>
    /\ HandlerOnly

LeaveNote(h) ==
    /\ HAt(h, "resume") /\ ~Resumable(target[h])
    /\ Reply(h)
    /\ UNCHANGED <<sharedVars, runtimeVars, historyVars>> /\ HandlerOnly

(* _start_background_processing: the flag is looked at, then set.          *)
AlreadyProcessing(h) ==
    /\ HAt(h, "start") /\ processing[target[h]]
    /\ Reply(h)
    /\ UNCHANGED <<sharedVars, runtimeVars, historyVars>> /\ HandlerOnly

NotProcessingMutant(h) ==
    /\ HAt(h, "start")
    /\ HGo(h, "spawn")
    /\ UNCHANGED <<sharedVars, runtimeVars, target, old, lock, historyVars>> /\ HandlerOnly

NotProcessing(h) ==
    /\ HAt(h, "start") /\ ~processing[target[h]]
    /\ HGo(h, "spawn")
    /\ UNCHANGED <<sharedVars, runtimeVars, target, old, lock, historyVars>> /\ HandlerOnly

StartThread(h, t) ==
    /\ HAt(h, "spawn") /\ At(t, "idle")
    /\ processing' = [processing EXCEPT ![target[h]] = TRUE]
    /\ sid' = [sid EXCEPT ![t] = target[h]]
    /\ Go(t, "begin")
    /\ Reply(h)
    /\ UNCHANGED <<sharedVars, mem, noted, cancel, hasTurns, carried, turn, failures, verdict,
                   historyVars>>

(* cancel_session.                                                         *)
BeginCancel(h, s) ==
    /\ HAt(h, "idle") /\ Known(s) /\ stops < MaxStops
    /\ stops' = stops + 1
    /\ cancel' = [cancel EXCEPT ![s] = TRUE]
    /\ stopped' = [stopped EXCEPT ![s] = TRUE]
    /\ mem' = [mem EXCEPT ![s] = "canceled"]
    /\ target' = [target EXCEPT ![h] = s]
    /\ Enter(h, "write_gemini", s, "canceled", {})
    /\ HGo(h, "unmap")
    /\ UNCHANGED <<noted, processing, hasTurns, carried, old, lock, seen, late>> /\ HandlerOnly

UnmapCanceled(h) ==
    /\ HAt(h, "unmap")
    /\ ClearActive(target[h])
    /\ HGo(h, "respond")
    /\ UNCHANGED <<doc, req, call, runtimeVars, target, old, lock, historyVars>> /\ HandlerOnly

RefreshCanceled(h) ==
    /\ HAt(h, "respond")
    /\ Enter(h, "read", target[h], "planning", {})
    /\ Reply(h)
    /\ UNCHANGED <<runtimeVars, historyVars>> /\ HandlerOnly

HandlerStep(h) ==
    \/ NothingToSupersede(h) \/ SupersedeUnknown(h) \/ SupersedeEnded(h) \/ Supersede(h)
    \/ RefreshSuperseded(h) \/ MakeSession(h) \/ RegisterSession(h)
    \/ StoreRequest(h) \/ RefreshContinued(h) \/ ResumeSession(h) \/ LeaveNote(h)
    \/ AlreadyProcessing(h) \/ NotProcessing(h) \/ (\E t \in Threads : StartThread(h, t))
    \/ UnmapCanceled(h) \/ RefreshCanceled(h)

Request(h) ==
    \/ \E s \in Sessions : BeginCreate(h, s) \/ BeginCancel(h, s)
    \/ \E s \in Sessions, n \in Notes : BeginContinue(h, s, n)

-----------------------------------------------------------------------------
(* The service under both.  A refresh ends by replacing the summary with   *)
(* the one that was read.                                                  *)
Serve(a) ==
    /\ Progress(a)
    /\ UNCHANGED <<runtimeVars, threadVars, handlerVars, historyVars>>

AssignSummary(a) ==
    /\ Return(a)
    /\ mem' = [mem EXCEPT ![call[a].sid] = call[a].buf.status]
    /\ UNCHANGED <<noted, processing, cancel, hasTurns, carried,
                   threadVars, handlerVars, historyVars>>

Init ==
    /\ SharedInit
    /\ mem = [s \in Sessions |-> "absent"]
    /\ noted = [s \in Sessions |-> {}]
    /\ processing = [s \in Sessions |-> FALSE]
    /\ cancel = [s \in Sessions |-> FALSE]
    /\ hasTurns = [s \in Sessions |-> FALSE]
    /\ carried = [s \in Sessions |-> 0]
    /\ pc = [t \in Threads |-> "idle"]
    /\ sid = [t \in Threads |-> NoSession]
    /\ turn = [t \in Threads |-> 0]
    /\ failures = [t \in Threads |-> 0]
    /\ verdict = [t \in Threads |-> "continue"]
    /\ hpc = [h \in Handlers |-> "idle"]
    /\ target = [h \in Handlers |-> NoSession]
    /\ old = [h \in Handlers |-> NoSession]
    /\ lock = {}
    /\ seen = [s \in Sessions |-> {}]
    /\ stopped = [s \in Sessions |-> FALSE]
    /\ late = [s \in Sessions |-> 0]
    /\ stops = 0

Next ==
    \/ \E t \in Threads : ThreadStep(t)
    \/ \E h \in Handlers : HandlerStep(h) \/ Request(h)
    \/ \E a \in Actors : Serve(a) \/ AssignSummary(a)

Spec == Init /\ [][Next]_vars

(* A thread and a request in progress keep running: the operating system   *)
(* schedules them, every adapter call has a timeout, and nothing they do   *)
(* waits for another.  Users need not send anything.                       *)
Fairness ==
    /\ \A t \in Threads : WF_vars(ThreadStep(t))
    /\ \A h \in Handlers : WF_vars(HandlerStep(h))
    /\ \A a \in Actors : WF_vars(Serve(a) \/ AssignSummary(a))

FairSpec == Spec /\ Fairness

-----------------------------------------------------------------------------
(* Properties                                                              *)

RuntimeTypeOK ==
    /\ mem \in [Sessions -> Status \cup {"absent"}]
    /\ noted \in [Sessions -> SUBSET Notes]
    /\ processing \in [Sessions -> BOOLEAN]
    /\ cancel \in [Sessions -> BOOLEAN]
    /\ hasTurns \in [Sessions -> BOOLEAN]
    /\ carried \in [Sessions -> Nat]

ThreadTypeOK ==
    /\ pc \in [Threads -> ThreadPCs]
    /\ sid \in [Threads -> Sessions \cup {NoSession}]
    /\ turn \in [Threads -> Nat]
    /\ failures \in [Threads -> Nat]
    /\ verdict \in [Threads -> Verdicts]

HandlerTypeOK ==
    /\ hpc \in [Handlers -> HandlerPCs]
    /\ target \in [Handlers -> Sessions \cup {NoSession}]
    /\ old \in [Handlers -> Sessions \cup {NoSession}]
    /\ lock \in SUBSET Handlers

HistoryTypeOK ==
    /\ seen \in [Sessions -> SUBSET Notes]
    /\ stopped \in [Sessions -> BOOLEAN]
    /\ late \in [Sessions -> Nat]
    /\ stops \in Nat

(* Types of the files', the manager's, the threads' and the handlers'      *)
(* state.                                                                  *)
TypeOK == SharedTypeOK /\ RuntimeTypeOK /\ ThreadTypeOK /\ HandlerTypeOK /\ HistoryTypeOK

(* A session never runs on two threads, and is marked as processing for as *)
(* long as it runs on one: the flag alone, read and set by handlers and    *)
(* cleared by the thread, keeps two Codex executions out of one workspace. *)
(* It relies on requests being handled one at a time, as the gateway's     *)
(* poll loop sends them.                                                   *)
OneThreadPerSession ==
    /\ \A t, u \in Threads : sid[t] = sid[u] /\ sid[t] # NoSession => t = u
    /\ \A t \in Threads : sid[t] # NoSession => processing[sid[t]]

(* Once a newer session of a conversation is known to the manager, no step *)
(* of anyone makes an older one the conversation's active session again,   *)
(* whatever is still in flight for the older one.                          *)
NewestIsActive ==
    \A r, s \in Sessions :
        r < s /\ ConvOf[r] = ConvOf[s] /\ Known(s) => active[ConvOf[s]] # r

(* After a cancel, by the user or by a newer session, a session makes at   *)
(* most one more Gemini call and one more Codex call, unless it is         *)
(* continued: the event is looked at only at the head of a turn.           *)
CancelStopsSoon == \A s \in Sessions : late[s] <= 2

(* Nothing and nobody is at work on a session.                             *)
Quiet(s) ==
    /\ \A t \in Threads : sid[t] # s
    /\ \A h \in Handlers : target[h] # s
    /\ CallsOn(s) = {}

Settled == Terminal \cup {"waiting_user"}

(* A session that nobody canceled, superseded or wrote to does not get     *)
(* stuck half way: when its run is over, every branch out of the loop has  *)
(* left a final status or a question in the document, and the manager      *)
(* reports the same.                                                       *)
SettlesUndisturbed ==
    \A s \in Sessions :
        Known(s) /\ Quiet(s) /\ ~processing[s] /\ ~cancel[s] /\ noted[s] = {} =>
            doc[s].status \in Settled /\ mem[s] = doc[s].status

(* Once a continue has been answered, session_request.json holds every     *)
(* note of the session, even those that concurrent writers have lost from  *)
(* the shared document: a restart of the worker forgets none of them.      *)
NotesDurable ==
    \A s \in Sessions :
        Known(s) /\ (\A h \in Handlers : target[h] # s) => req[s] = noted[s]

Running(s) == \E t \in Threads : sid[t] = s

(* Every run comes to its end, whatever the adapters answer and whatever   *)
(* the handlers do meanwhile.                                              *)
RunsEnd == \A s \in Sessions : Running(s) ~> ~Running(s)

(* The way still before a run: how far its place is from the end, a whole  *)
(* turn for every turn left, and the stages of the call it is in.          *)
Place(p) ==
    CASE p = "begin"    -> 17 [] p = "begun"  -> 16 [] p = "prepare" -> 15 [] p = "head"   -> 14
      [] p = "ask"      -> 13 [] p = "gemini" -> 12 [] p = "revise"  -> 11 [] p = "answer" -> 10
      [] p = "review"   -> 9  [] p = "decide" -> 8  [] p = "instruct" -> 7 [] p = "codex"  -> 6
      [] p = "report"   -> 5  [] p = "turnEnd" -> 4 [] p = "error"   -> 3
      [] p \in {"finish", "failed"} -> 2 [] p = "return" -> 1

StagesLeft(a) == CASE Idle(a) -> 0 [] call[a].stage = "save" -> 2 [] OTHER -> 1

RunLength  == 3 * (11 * (MaxTurns + 1) + 17)
RunLeft(t) ==
    IF pc[t] = "idle" THEN 0
    ELSE 3 * (11 * (MaxTurns + 1 - turn[t]) + Place(pc[t])) + StagesLeft(t)

RequestPlace(p) ==
    CASE p = "supersede" -> 6 [] p = "superseded" -> 5 [] p = "make"   -> 4 [] p = "register" -> 3
      [] p = "saveRequest" -> 5 [] p = "refresh"  -> 4 [] p = "resume" -> 3
      [] p = "unmap"     -> 2 [] p = "start"      -> 2
      [] p \in {"respond", "spawn"} -> 1 [] p = "idle" -> 0

RequestLength  == 20
RequestLeft(h) == 3 * RequestPlace(hpc[h]) + StagesLeft(h)

RunAdvances(t) ==
    \/ UNCHANGED <<pc[t], turn[t], call[t]>>
    \/ RunLeft(t)' \in 0 .. (IF RunLeft(t) = 0 THEN RunLength ELSE RunLeft(t) - 1)

RequestAdvances(h) ==
    \/ UNCHANGED <<hpc[h], call[h]>>
    \/ RequestLeft(h)' \in 0 .. (IF RequestLeft(h) = 0 THEN RequestLength ELSE RequestLeft(h) - 1)

(* Every step of a run or of a request brings it nearer to its end, by a   *)
(* measure that nobody else's steps change: a run takes no more than       *)
(* RunLength steps, whatever the adapters answer, and nobody goes round in *)
(* a loop waiting for what others do.                                      *)
StepsRunOut ==
    [][/\ \A t \in Threads : RunAdvances(t)
       /\ \A h \in Handlers : RequestAdvances(h)]_vars

(* What a user said before a run was started is put before Gemini by that  *)
(* run, unless the session is canceled or the run dies before its loop.    *)
WakeDelivers ==
    \A s \in Sessions, n \in Notes :
        (n \in noted[s] /\ \E t \in Threads : sid[t] = s /\ pc[t] = "begin")
            ~> (n \in seen[s] \/ stopped[s] \/ (processing[s] /\ ~Running(s)))

-----------------------------------------------------------------------------
(* What the repository says of the program and the program does not do     *)

(* "Your latest input is in; processing continues." is what the gateway    *)
(* replies to the answer of a waiting session: when the worker has decided *)
(* to resume a session, what the user has said reaches Gemini.             *)
AnswersAreProcessed ==
    \A s \in Sessions, n \in Notes :
        (n \in noted[s] /\ \E h \in Handlers : target[h] = s /\ hpc[h] = "start")
            ~> (n \in seen[s] \/ stopped[s] \/ (processing[s] /\ ~Running(s)))

(* A newer /run does not cancel a session that has already completed.      *)
SupersedeSparesCompleted ==
    [][\A h \in Handlers : MarkSuperseded(h) => doc[call[h].sid].status # "completed"]_vars
=============================================================================
