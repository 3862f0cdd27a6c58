---------------------------- MODULE WorkerRestart ----------------------------
(***************************************************************************)
(* WorkerSessions with restarts of the worker process.  The threads, the   *)
(* requests and the calls in flight are gone; the files stay as they are.  *)
(* SessionManager loads the sessions it finds, at most RecentLimit of      *)
(* them, and starts no thread for any.                                     *)
(***************************************************************************)
EXTENDS WorkerSessions

CONSTANT RecentLimit    \* store.list_recent(limit=500)

ASSUME RestartAssumption == RecentLimit \in Nat

(* list_recent sorts by the time of the last save, which may be any order, *)
(* and the sessions of chats that are not in the model count as well: any  *)
(* sessions that have a file may be among the most recent.                 *)
Loadable(found) == Cardinality(found) <= RecentLimit /\ \A s \in found : Exists(s)

(* The manager of a new process: of the notes the files kept it takes those *)
(* of the sessions found.                                                  *)
Reload(found, kept) ==
    /\ Loadable(found)
    /\ mem' = [s \in Sessions |-> IF s \in found THEN doc[s].status ELSE "absent"]
    /\ noted' = [s \in Sessions |-> IF s \in found THEN kept[s] ELSE {}]
    /\ processing' = [s \in Sessions |-> FALSE]
    /\ cancel' = [s \in Sessions |-> FALSE]
    /\ hasTurns' = [s \in Sessions |-> FALSE]
    /\ carried' = [s \in Sessions |-> 0]
    /\ pc' = [t \in Threads |-> "idle"]
    /\ sid' = [t \in Threads |-> NoSession]
    /\ turn' = [t \in Threads |-> 0]
    /\ failures' = [t \in Threads |-> 0]
    /\ verdict' = [t \in Threads |-> "continue"]
    /\ hpc' = [h \in Handlers |-> "idle"]
    /\ target' = [h \in Handlers |-> NoSession]
    /\ old' = [h \in Handlers |-> NoSession]
    /\ lock' = {}
    /\ call' = [a \in Actors |-> NoCall]
    /\ UNCHANGED <<doc, req, active, historyVars>>

RestartMutant ==
    \E found \in SUBSET Sessions : Reload(found, [s \in Sessions |-> doc[s].notes])

(* The process ends at any moment and is started again.                    *)
Restart == \E found \in SUBSET Sessions : Reload(found, req)

RestartNext == Next \/ Restart

RestartSpec == Init /\ [][RestartNext]_vars

-----------------------------------------------------------------------------
(* Properties                                                              *)

Working(h) == HandlerStep(h) \/ Serve(h) \/ AssignSummary(h)
Run(t)     == ThreadStep(t) \/ Serve(t) \/ AssignSummary(t)

(* The bound of the model on threads, not the code, keeps a handler waiting. *)
NoFreeThread(h) == HAt(h, "spawn") /\ \A t \in Threads : pc[t] # "idle"

(* A run and a request that is being handled always have a next step, also *)
(* when the files name sessions that the restarted manager has not loaded, *)
(* or threads of the old process have left them half way: nobody waits for *)
(* ever at a session that is not there, holding the lock of create.        *)
NeverStuck ==
    /\ \A t \in Threads : pc[t] # "idle" => ENABLED Run(t)
    /\ \A h \in Handlers : hpc[h] # "idle" => ENABLED Working(h) \/ NoFreeThread(h)

(* The guards of the next steps written out: of a service call in progress *)
(* (a read has nothing to save), of a run and of a request.                *)
Served(a) ==
    \/ call[a].stage \in {"pop", "activate", "return"}
    \/ \E m \in Methods \ {"read"} : Saving(a, m)

RunMoves(t) ==
    \/ Served(t)
    \/ Idle(t) /\ (pc[t] = "revise" => Exists(sid[t]))

RequestMoves(h) ==
    \/ Served(h)
    \/ /\ Idle(h)
       /\ hpc[h] = "saveRequest" => Exists(target[h])
       /\ hpc[h] = "spawn" => \E t \in Threads : At(t, "idle")

(* NeverStuck with the guards in place of ENABLED: what a run or a request *)
(* needs to go on (its call in a stage the service knows, the session's    *)
(* document, a thread) is there when it gets to that point, whatever the   *)
(* others are in the middle of and whatever a restart has left out.  And   *)
(* the lock that the next create waits for is held by a request at work.   *)
NobodyStuck ==
    /\ \A t \in Threads : pc[t] # "idle" => RunMoves(t)
    /\ \A h \in Handlers : hpc[h] # "idle" => RequestMoves(h) \/ NoFreeThread(h)
    /\ \A h \in lock : hpc[h] # "idle"
=============================================================================
