----------------------------- MODULE GatewayPush -----------------------------
(***************************************************************************)
(* How changes of sessions reach the chat (gateway/service.py).  The       *)
(* watcher polls the worker for sessions changed since its cursor and      *)
(* pushes what it has not pushed; the poll loop answers messages and       *)
(* records what it has told the chat in the same push state.               *)
(*                                                                         *)
(* The worker is modelled by what its API shows: a session is saved in a   *)
(* file, with the time of the save, and shows in the API when it is        *)
(* refreshed from the file, so a time can be published after a later one.  *)
(***************************************************************************)
EXTENDS Naturals, FiniteSets

CONSTANTS
    Sessions,       \* sessions of the gateway's channel
    Existing,       \* those created before the gateway is started
    Texts,          \* what a session's plan, review and outcome may say
    Limit,          \* sessions looked at in one poll (20)
    MaxTime,        \* time stamps issued (bounds the model)
    MaxRequests,    \* chat messages (bounds the model)
    MaxFailures     \* HTTP calls of the watcher that fail (bounds the model)

ASSUME PushAssumption ==
    /\ Existing \subseteq Sessions /\ IsFiniteSet(Sessions) /\ Sessions # {}
    /\ Limit \in Nat \ {0}
    /\ MaxTime \in Nat /\ MaxRequests \in Nat /\ MaxFailures \in Nat

VARIABLES
    clock,                  \* the last time stamp issued
    file,                   \* the session's document, per session
    shows,                  \* the detail the worker's API returns, per session
    pushState,              \* _push_state
    cursor,                 \* _last_push_check, 0 for None
    wpc, batch, maxSeen, got,   \* the watcher
    cpc, about, reply,      \* the poll loop: session and detail it replies with
    last,                   \* the last summary of the session sent to the chat
    repeats,                \* pushes of what the chat was told last
    requests, failures

workerVars  == <<clock, file, shows>>
watcherVars == <<cursor, wpc, batch, maxSeen, got>>
chatVars    == <<cpc, about, reply, requests>>
historyVars == <<last, repeats>>
vars == <<workerVars, watcherVars, chatVars, pushState, historyVars, failures>>

States == {"planning", "executing", "completed"}    \* completed: any settled state
NoText == "none"
Bodies == [state : States \cup {"absent"}, text : Texts \cup {NoText}]
Detail(t, st, x) == [upd |-> t, state |-> st, text |-> x]
NoDetail == Detail(0, "absent", NoText)

(* What _format_session_update shows of a detail.                          *)
Body(d) == [state |-> d.state, text |-> d.text]
Created(s) == shows[s].upd > 0
Known(d) == [upd |-> d.upd, body |-> Body(d)]

(* _should_push_session_update: a plan that is still empty is not shown.   *)
ShouldPush(d) == d.state # "planning" \/ d.text # NoText

-----------------------------------------------------------------------------
(* The worker                                                              *)

Tick == clock < MaxTime /\ clock' = clock + 1

Create(s) ==
    /\ Tick
    /\ file' = [file EXCEPT ![s] = Detail(clock', "planning", NoText)]
    /\ shows' = [shows EXCEPT ![s] = file'[s]]

(* A service method saves the document.                                    *)
Save(s) ==
    /\ Created(s) /\ Tick
    /\ \E st \in {"executing", "completed"}, x \in Texts :
           file' = [file EXCEPT ![s] = Detail(clock', st, x)]
    /\ UNCHANGED <<shows, watcherVars, chatVars, pushState, historyVars, failures>>

(* The end of a run (and a cancel) sets state and time of the summary in   *)
(* place; the rest of the detail is from the refresh before.               *)
EndInPlace(s) ==
    /\ Created(s) /\ file[s].state = "completed" /\ Tick
    /\ shows' = [shows EXCEPT ![s] = Detail(clock', "completed", @.text)]
    /\ UNCHANGED <<file, watcherVars, chatVars, pushState, historyVars, failures>>

(* _refresh_session_detail.                                                *)
Refresh(s) ==
    /\ shows[s] # file[s]
    /\ shows' = [shows EXCEPT ![s] = file[s]]
    /\ UNCHANGED <<clock, file, watcherVars, chatVars, pushState, historyVars, failures>>

WorkerStep == \E s \in Sessions : Save(s) \/ EndInPlace(s) \/ Refresh(s)

-----------------------------------------------------------------------------
(* The watcher                                                             *)

Fail == failures < MaxFailures /\ failures' = failures + 1

(* The first Limit answers of GET /sessions, which are the newest.         *)
Listed(after) ==
    LET found == {[sid |-> s, upd |-> shows[s].upd] : s \in {r \in Sessions : shows[r].upd > after}}
    IN  {e \in found : Cardinality({f \in found : f.upd > e.upd}) < Limit}

Newest == CHOOSE e \in batch : \A f \in batch : f.upd <= e.upd

(* _prime_push_state: what is there when the gateway starts counts as      *)
(* shown, session by session.                                              *)
Prime ==
    /\ wpc = "start"
    /\ batch' = Listed(0)
    /\ wpc' = "prime"
    /\ UNCHANGED <<workerVars, chatVars, cursor, maxSeen, got, pushState, historyVars, failures>>

PrimeSession ==
    /\ wpc = "prime" /\ batch # {}
    /\ LET s == Newest.sid
       IN  IF ShouldPush(shows[s])
           THEN /\ pushState' = [pushState EXCEPT ![s] = Known(shows[s])]
                /\ last' = [last EXCEPT ![s] = Known(shows[s])]
           ELSE UNCHANGED <<pushState, last>>
    /\ batch' = batch \ {Newest}
    /\ UNCHANGED <<workerVars, chatVars, cursor, wpc, maxSeen, got, repeats, failures>>

Primed ==
    /\ wpc = "prime" /\ batch = {}
    /\ wpc' = "wait"
    /\ UNCHANGED <<workerVars, chatVars, cursor, batch, maxSeen, got, pushState, historyVars, failures>>

Poll ==
    /\ wpc = "wait"
    /\ batch' = Listed(cursor)
    /\ maxSeen' = cursor
    /\ wpc' = "fetch"
    /\ UNCHANGED <<workerVars, chatVars, cursor, got, pushState, historyVars, failures>>

Fetch ==
    /\ wpc = "fetch" /\ batch # {}
    /\ maxSeen' = IF Newest.upd > maxSeen THEN Newest.upd ELSE maxSeen
    /\ got' = [sid |-> Newest.sid, detail |-> shows[Newest.sid]]
    /\ batch' = batch \ {Newest}
    /\ wpc' = "compare"
    /\ UNCHANGED <<workerVars, chatVars, cursor, pushState, historyVars, failures>>

(* _session_detail_or_none swallows the exception: the session is passed.  *)
FetchFails ==
    /\ wpc \in {"prime", "fetch"} /\ batch # {} /\ Fail
    /\ maxSeen' = IF wpc = "fetch" /\ Newest.upd > maxSeen THEN Newest.upd ELSE maxSeen
    /\ batch' = batch \ {Newest}
    /\ UNCHANGED <<workerVars, chatVars, cursor, wpc, got, pushState, historyVars>>

AlreadyPushed(s, d) == pushState[s].upd = d.upd \/ pushState[s].body = Body(d)

Skip ==
    /\ wpc = "compare"
    /\ ~ShouldPush(got.detail) \/ AlreadyPushed(got.sid, got.detail)
    /\ wpc' = "fetch"
    /\ UNCHANGED <<workerVars, chatVars, cursor, batch, maxSeen, got, pushState, historyVars, failures>>

(* The push state is written, under the lock, before the message is sent.  *)
RecordMutant ==
    /\ wpc = "compare"
    /\ ShouldPush(got.detail) /\ ~AlreadyPushed(got.sid, got.detail)
    /\ pushState' = [pushState EXCEPT ![got.sid].upd = got.detail.upd]
    /\ wpc' = "send"
    /\ UNCHANGED <<workerVars, chatVars, cursor, batch, maxSeen, got, historyVars, failures>>

Record ==
    /\ wpc = "compare"
    /\ ShouldPush(got.detail) /\ ~AlreadyPushed(got.sid, got.detail)
    /\ pushState' = [pushState EXCEPT ![got.sid] = Known(got.detail)]
    /\ wpc' = "send"
    /\ UNCHANGED <<workerVars, chatVars, cursor, batch, maxSeen, got, historyVars, failures>>

Send ==
    /\ wpc = "send"
    /\ last' = [last EXCEPT ![got.sid] = Known(got.detail)]
    /\ repeats' = IF last[got.sid].upd = got.detail.upd THEN repeats + 1 ELSE repeats
    /\ wpc' = "fetch"
    /\ UNCHANGED <<workerVars, chatVars, cursor, batch, maxSeen, got, pushState, failures>>

(* An exception of the listing or of the send ends the poll, and the       *)
(* cursor stays.                                                           *)
PollFails ==
    /\ wpc \in {"wait", "send"} /\ Fail
    /\ wpc' = "wait"
    /\ batch' = {}
    /\ UNCHANGED <<workerVars, chatVars, cursor, maxSeen, got, pushState, historyVars>>

(* With nothing ever seen the cursor is the present time.                  *)
EndPoll ==
    /\ wpc = "fetch" /\ batch = {}
    /\ cursor' = IF maxSeen = 0 THEN clock ELSE maxSeen
    /\ wpc' = "wait"
    /\ UNCHANGED <<workerVars, chatVars, batch, maxSeen, got, pushState, historyVars, failures>>

WatcherStep ==
    \/ Prime \/ PrimeSession \/ Primed
    \/ Poll \/ Fetch \/ FetchFails \/ Skip \/ Record \/ Send \/ PollFails \/ EndPoll

-----------------------------------------------------------------------------
(* The poll loop, which runs once the watcher has been started             *)

Ask(s) ==
    /\ cpc = "idle" /\ wpc \notin {"start", "prime"} /\ requests < MaxRequests
    /\ requests' = requests + 1
    /\ about' = s

(* /run, or a message without an active session: the session is created.   *)
RunCommand(s) ==
    /\ Ask(s) /\ ~Created(s)
    /\ Create(s)
    /\ cpc' = "started"
    /\ UNCHANGED <<reply, watcherVars, pushState, historyVars, failures>>

(* Any other message goes to the active session of its chat.  Chats are    *)
(* left out: any open session may be the active one.                       *)
FreeformMessage(s) ==
    /\ Ask(s) /\ Created(s) /\ shows[s].state # "completed"
    /\ reply' = shows[s]
    /\ cpc' = "active"
    /\ UNCHANGED <<workerVars, watcherVars, pushState, historyVars, failures>>

(* The worker adds the note to the document and refreshes.                 *)
ContinueSession ==
    /\ cpc = "active" /\ Tick
    /\ file' = [file EXCEPT ![about].upd = clock']
    /\ shows' = [shows EXCEPT ![about] = file'[about]]
    /\ cpc' = "noted"
    /\ UNCHANGED <<about, reply, requests, watcherVars, pushState, historyVars, failures>>

FetchReply ==
    /\ cpc \in {"started", "noted"}
    /\ reply' = shows[about]
    /\ cpc' = IF cpc = "started" THEN "brief" ELSE "ack"
    /\ UNCHANGED <<about, requests, workerVars, watcherVars, pushState, historyVars, failures>>

(* Without its detail a new session is announced without a brief and not   *)
(* remembered; a note is acknowledged with the detail read before it.      *)
FetchReplyFails ==
    /\ cpc \in {"started", "noted"} /\ Fail
    /\ cpc' = IF cpc = "started" THEN "idle" ELSE "ack"
    /\ UNCHANGED <<about, reply, requests, workerVars, watcherVars, pushState, historyVars>>

(* The brief of a new session shows what an update would show, the         *)
(* acknowledgement of a note shows nothing of the session.                 *)
SendBrief ==
    /\ cpc = "brief"
    /\ last' = [last EXCEPT ![about] = Known(reply)]
    /\ cpc' = "remember"
    /\ UNCHANGED <<about, reply, requests, workerVars, watcherVars, pushState, repeats, failures>>

(* The exception is caught and the chat told that the start has failed.    *)
SendBriefFails ==
    /\ cpc = "brief" /\ Fail
    /\ cpc' = "idle"
    /\ UNCHANGED <<about, reply, requests, workerVars, watcherVars, pushState, historyVars>>

SendAck ==
    /\ cpc = "ack"
    /\ cpc' = "remember"
    /\ UNCHANGED <<about, reply, requests, workerVars, watcherVars, pushState, historyVars, failures>>

RememberSnapshotMutant ==
    /\ cpc = "remember"
    /\ pushState' = [pushState EXCEPT ![about] = reply]
    /\ cpc' = "idle"
    /\ UNCHANGED <<about, reply, requests, workerVars, watcherVars, historyVars, failures>>

RememberSnapshot ==
    /\ cpc = "remember"
    /\ pushState' = [pushState EXCEPT ![about] = Known(reply)]
    /\ cpc' = "idle"
    /\ UNCHANGED <<about, reply, requests, workerVars, watcherVars, historyVars, failures>>

ChatStep ==
    \/ ContinueSession \/ FetchReply \/ FetchReplyFails \/ SendBrief \/ SendBriefFails \/ SendAck
    \/ RememberSnapshot

-----------------------------------------------------------------------------
Init ==
    /\ clock = Cardinality(Existing)
    /\ \E t \in [Existing -> 1..Cardinality(Existing)] :
           /\ \A r, s \in Existing : t[r] = t[s] => r = s
           /\ shows = [s \in Sessions |-> IF s \in Existing THEN Detail(t[s], "planning", NoText)
                                                           ELSE NoDetail]
    /\ file = shows
    /\ pushState = [s \in Sessions |-> Known(NoDetail)]
    /\ cursor = 0
    /\ wpc = "start" /\ batch = {} /\ maxSeen = 0
    /\ got = [sid |-> CHOOSE s \in Sessions : TRUE, detail |-> NoDetail]
    /\ cpc = "idle" /\ about = got.sid /\ reply = NoDetail
    /\ last = [s \in Sessions |-> Known(NoDetail)]
    /\ repeats = 0 /\ requests = 0 /\ failures = 0

Next ==
    \/ WorkerStep
    \/ WatcherStep
    \/ ChatStep
    \/ \E s \in Sessions : RunCommand(s) \/ FreeformMessage(s)

Spec == Init /\ [][Next]_vars

(* The watcher's thread keeps polling, a request in progress is finished,  *)
(* and every run of the worker ends with a refresh.                        *)
Fairness ==
    /\ WF_vars(WatcherStep)
    /\ WF_vars(ChatStep)
    /\ \A s \in Sessions : WF_vars(Refresh(s))

FairSpec == Spec /\ Fairness

-----------------------------------------------------------------------------
Details == [upd : Nat, state : States \cup {"absent"}, text : Texts \cup {NoText}]

(* Types of the worker's, the watcher's and the poll loop's state.         *)
TypeOK ==
    /\ clock \in Nat
    /\ file \in [Sessions -> Details]
    /\ shows \in [Sessions -> Details]
    /\ pushState \in [Sessions -> [upd : Nat, body : Bodies]]
    /\ cursor \in Nat
    /\ wpc \in {"start", "prime", "wait", "fetch", "compare", "send"}
    /\ batch \in SUBSET [sid : Sessions, upd : Nat]
    /\ maxSeen \in Nat
    /\ got \in [sid : Sessions, detail : Details]
    /\ cpc \in {"idle", "started", "active", "noted", "brief", "ack", "remember"}
    /\ about \in Sessions
    /\ reply \in Details
    /\ last \in [Sessions -> [upd : Nat, body : Bodies]]
    /\ repeats \in Nat /\ requests \in Nat /\ failures \in Nat

(* The watcher pushes a session once per change, whatever fails.  It       *)
(* repeats what the chat was told last only when the poll loop answers a   *)
(* message meanwhile, and at most twice for each: the brief may show what  *)
(* is being pushed, and the snapshot recorded may be older than the push.  *)
RepeatsBounded == repeats <= 2 * requests

(* "When the shared session document changes, the active session pushes a  *)
(* summary of the update to the chat", for the change users wait for: once *)
(* a session is over, the chat is told.                                    *)
FinalStateShown ==
    \A s \in Sessions : []<>(shows[s].state = "completed" => last[s].body.state = "completed")
=============================================================================
