----------------------------- MODULE TelegramPoll -----------------------------
(***************************************************************************)
(* How messages of the chat reach the worker: the long poll of Telegram    *)
(* (gateway/telegram.py), the poll loop and its commands                   *)
(* (gateway/service.py) and the calls of the worker over HTTP              *)
(* (gateway/worker_client.py, shared/http_client.py).                      *)
(*                                                                         *)
(* Any HTTP call may fail, a call of the worker with or without having had *)
(* its effect.  An exception that no command catches ends the process; the *)
(* service manager starts it again.                                        *)
(***************************************************************************)
EXTENDS Naturals

CONSTANTS
    MaxMessages,    \* messages users send (bounds the model)
    Batch,          \* updates Telegram returns for one request (100)
    MaxFaults       \* failing calls and kills (bounds the model)

ASSUME PollAssumption ==
    MaxMessages \in Nat /\ Batch \in Nat \ {0} /\ MaxFaults \in Nat

(* run, stop: the commands that change a session, and catch exceptions;    *)
(* text: a message for the active session, which catches none, or, without *)
(* an active session, for a new one; query: nothing but a reply; foreign:  *)
(* not for this gateway.                                                   *)
Kinds == {"run", "stop", "text", "query", "foreign"}
Messages == 1..MaxMessages

VARIABLES
    sent,       \* Telegram: messages sent so far, which are its update ids
    kind,       \* Telegram: what they are
    confirmed,  \* Telegram: updates up to this id are gone
    ppc,        \* the process: where the poll loop is
    offset,     \* _offset, 0 for None
    current,    \* the message being handled
    until,      \* the last message of the batch
    answer,     \* what the chat is about to be told
    handled,    \* messages the poll loop is done with, in any life
    effects,    \* changes a message has made at the worker
    lives,      \* processes started
    faults

telegramVars == <<sent, kind, confirmed>>
processVars  == <<ppc, offset, current, until, answer>>
historyVars  == <<handled, effects, lives, faults>>
vars == <<telegramVars, processVars, historyVars>>

Fault == faults < MaxFaults /\ faults' = faults + 1

(* A user sends a message.                                                 *)
UserSends ==
    /\ sent < MaxMessages /\ sent' = sent + 1
    /\ \E k \in Kinds : kind' = [kind EXCEPT ![sent'] = k]
    /\ UNCHANGED <<confirmed, processVars, historyVars>>

-----------------------------------------------------------------------------
(* The process: its offset and the rest of its batch are only in memory.   *)
Start ==
    /\ ppc = "down"
    /\ ppc' = "poll" /\ lives' = lives + 1
    /\ UNCHANGED <<telegramVars, offset, current, until, answer, handled, effects, faults>>

Die ==
    /\ ppc' = "down"
    /\ offset' = 0 /\ current' = 0 /\ until' = 0
    /\ answer' = "none"

Killed ==
    /\ ppc # "down" /\ Fault
    /\ Die
    /\ UNCHANGED <<telegramVars, handled, effects, lives>>

(* Telegram forgets what lies before the offset it is asked for.           *)
Confirm == confirmed' = IF offset > confirmed + 1 THEN offset - 1 ELSE confirmed

(* poll_messages: the updates are fetched and parsed, the offset moves     *)
(* behind the last.                                                        *)
PollMutant ==
    /\ ppc = "poll"
    /\ Confirm /\ confirmed' < sent
    /\ \E last \in Messages :
           /\ last = (IF sent - confirmed' > Batch THEN confirmed' + Batch ELSE sent)
           /\ current' = last /\ until' = last /\ offset' = last + 1
    /\ ppc' = "handle"
    /\ UNCHANGED <<sent, kind, answer, historyVars>>

PollMessages ==
    /\ ppc = "poll"
    /\ Confirm /\ confirmed' < sent
    /\ current' = confirmed' + 1
    /\ until' = IF sent - confirmed' > Batch THEN confirmed' + Batch ELSE sent
    /\ offset' = until' + 1
    /\ ppc' = "handle"
    /\ UNCHANGED <<sent, kind, answer, historyVars>>

(* No updates, or a timeout after the request has been seen.               *)
PollEmpty ==
    /\ ppc = "poll"
    /\ Confirm /\ confirmed' # confirmed
    /\ UNCHANGED <<sent, kind, processVars, historyVars>>

(* The request fails, or a file of an attachment cannot be fetched while   *)
(* the updates are parsed: the exception leaves poll_forever.              *)
PollRaisesMutant ==
    /\ ppc = "poll" /\ Fault
    /\ Confirm
    /\ offset' = sent + 1
    /\ UNCHANGED <<sent, kind, ppc, current, until, answer, handled, effects, lives>>

PollRaises ==
    /\ ppc = "poll" /\ Fault
    /\ Confirm \/ confirmed' = confirmed
    /\ Die
    /\ UNCHANGED <<sent, kind, handled, effects, lives>>

-----------------------------------------------------------------------------
(* _handle_message                                                         *)

(* The loop goes on to the next message, or polls again.                   *)
DoneMutant ==
    /\ handled' = handled \cup {current}
    /\ answer' = "none"
    /\ ppc' = "handle" /\ current' = current + 1 /\ until' = until
    /\ offset' = offset

Done ==
    /\ handled' = handled \cup {current}
    /\ answer' = "none"
    /\ IF current = until
       THEN ppc' = "poll" /\ current' = 0 /\ until' = 0
       ELSE ppc' = "handle" /\ current' = current + 1 /\ until' = until
    /\ offset' = offset

Ignore ==
    /\ ppc = "handle" /\ kind[current] = "foreign"
    /\ Done
    /\ UNCHANGED <<telegramVars, effects, lives, faults>>

Reply(text) ==
    /\ answer' = text /\ ppc' = "reply"
    /\ UNCHANGED <<offset, current, until>>

Query ==
    /\ ppc = "handle" /\ kind[current] = "query"
    /\ \E text \in {"ok", "failed"} : Reply(text)
    /\ UNCHANGED <<telegramVars, historyVars>>

Effect == effects' = [effects EXCEPT ![current] = @ + 1]

(* create_session or continue_session is answered.                         *)
CallSucceeds ==
    /\ ppc = "handle" /\ kind[current] \in {"run", "text"}
    /\ Effect
    /\ Reply("ok")
    /\ UNCHANGED <<telegramVars, handled, lives, faults>>

(* The call raises, with or without its effect.  A POST is not tried       *)
(* again.                                                                  *)
CallFailsMutant ==
    /\ ppc = "handle" /\ kind[current] \in {"run", "text"} /\ Fault
    /\ Effect \/ effects' = effects
    /\ UNCHANGED <<telegramVars, processVars, handled, lives>>

CallFails ==
    /\ ppc = "handle" /\ kind[current] \in {"run", "text"} /\ Fault
    /\ Effect \/ effects' = effects
    /\ \/ Reply("failed")
       \/ kind[current] = "text" /\ Die
    /\ UNCHANGED <<telegramVars, handled, lives>>

(* _stop_command: after any exception, also that of the reply, what is to  *)
(* be stopped is tried as a job, which stops the session of the job.       *)
TryJob ==
    /\ ppc' = "again" /\ answer' = "none"
    /\ UNCHANGED <<offset, current, until>>

StopSession ==
    /\ ppc = "handle" /\ kind[current] = "stop"
    /\ \/ Effect /\ Reply("ok")
       \/ effects' = effects /\ TryJob
    /\ UNCHANGED <<telegramVars, handled, lives, faults>>

StopSessionFails ==
    /\ ppc = "handle" /\ kind[current] = "stop" /\ Fault
    /\ Effect \/ effects' = effects
    /\ TryJob
    /\ UNCHANGED <<telegramVars, handled, lives>>

StopJob ==
    /\ ppc = "again"
    /\ \/ Effect /\ Reply("job")
       \/ effects' = effects /\ Reply("failed")
    /\ UNCHANGED <<telegramVars, handled, lives, faults>>

StopJobFails ==
    /\ ppc = "again" /\ Fault
    /\ Effect \/ effects' = effects
    /\ Reply("failed")
    /\ UNCHANGED <<telegramVars, handled, lives>>

SendReply ==
    /\ ppc = "reply"
    /\ Done
    /\ UNCHANGED <<telegramVars, effects, lives, faults>>

(* sendMessage raises.  Inside a command's try block the chat is sent the  *)
(* failure instead; anywhere else the process ends.  A message for the     *)
(* active session and some queries, such as /help, have no try block.      *)
SendRaisesMutant ==
    /\ ppc = "reply" /\ Fault
    /\ ppc' = "poll" /\ current' = 0 /\ until' = 0 /\ answer' = "none"
    /\ UNCHANGED <<telegramVars, offset, handled, effects, lives>>

SendRaises ==
    /\ ppc = "reply" /\ Fault
    /\ \/ answer = "ok" /\ kind[current] # "stop" /\ Reply("failed")
       \/ answer = "ok" /\ kind[current] = "stop" /\ TryJob
       \/ answer = "job" /\ Reply("failed")
       \/ answer = "failed" /\ Die
       \/ kind[current] \in {"text", "query"} /\ Die
    /\ UNCHANGED <<telegramVars, handled, effects, lives>>

ProcessStep ==
    \/ Start \/ PollMessages \/ PollEmpty
    \/ Ignore \/ Query \/ CallSucceeds \/ StopSession \/ StopJob \/ SendReply

FaultStep ==
    \/ Killed \/ PollRaises
    \/ CallFails \/ StopSessionFails \/ StopJobFails \/ SendRaises

Init ==
    /\ sent = 0 /\ kind = [m \in Messages |-> "none"]
    /\ confirmed = 0
    /\ ppc = "down" /\ offset = 0 /\ current = 0 /\ until = 0 /\ answer = "none"
    /\ handled = {}
    /\ effects = [m \in Messages |-> 0]
    /\ lives = 0 /\ faults = 0

Next == UserSends \/ ProcessStep \/ FaultStep

Spec == Init /\ [][Next]_vars

(* The poll loop runs on, and the service manager restarts the process.    *)
FairSpec == Spec /\ WF_vars(ProcessStep)

-----------------------------------------------------------------------------
(* Types of Telegram's, the process's and the history's state.             *)
TypeOK ==
    /\ sent \in 0..MaxMessages
    /\ kind \in [Messages -> Kinds \cup {"none"}]
    /\ confirmed \in 0..sent
    /\ ppc \in {"down", "poll", "handle", "again", "reply"}
    /\ offset \in 0..(MaxMessages + 1)
    /\ current \in 0..MaxMessages /\ until \in current..MaxMessages
    /\ answer \in {"none", "ok", "job", "failed"}
    /\ handled \in SUBSET Messages
    /\ effects \in [Messages -> Nat]
    /\ lives \in Nat /\ faults \in Nat

(* Telegram forgets a message only when the poll loop is done with it,     *)
(* although the offset moves before the batch is handled: an exception in  *)
(* the middle of a batch ends the process and with it the offset.          *)
NothingLost == \A m \in 1..confirmed : m \in handled

(* Messages are done with in the order in which they were sent, also when  *)
(* a batch is delivered again.                                             *)
InOrder == \A m \in handled : 1..m \subseteq handled

(* How often a message may change a session in the lives so far.           *)
Allowed(m) == IF kind[m] = "stop" THEN 2 * lives ELSE lives

(* One life of the process starts a session or adds a note for a message   *)
(* at most once, however calls and replies fail: only a restart repeats    *)
(* it.  A /stop may stop its session twice, as a session and as a job.     *)
OncePerLife == \A m \in Messages : effects[m] <= Allowed(m)

(* Every message is handled in the end, when failures come to an end.      *)
AllHandled == \A m \in Messages : m <= sent ~> m \in handled
=============================================================================
