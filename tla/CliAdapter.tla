------------------------------ MODULE CliAdapter ------------------------------
(***************************************************************************)
(* One call of JsonCliAdapter.execute (shared/cli.py) and the process      *)
(* behind it.  The protocol that matters is codex_app_server: a child      *)
(* process with a conversation of requests, answers and notifications,     *)
(* whose lines a reader thread puts into a queue and the adapter takes     *)
(* from it until the turn is over or the deadline has passed.  The other   *)
(* protocols share the loop of attempts: one blocking command, or rounds   *)
(* of the Responses API with local shell calls.                            *)
(*                                                                         *)
(* The server is not part of the repository: it answers requests in the    *)
(* order they were sent or refuses them, may stop writing, close its       *)
(* output, die or hang at any time.  A line is abstracted to what the      *)
(* adapter tells apart; lines it ignores (noise, stderr, the answer to     *)
(* "initialize") are left out, and the deltas of a message, which its      *)
(* completion replaces.  "json" is an agent message from which an answer   *)
(* can be read, "plain" one from which none can.  A server that has closed *)
(* its input has exited.                                                   *)
(***************************************************************************)
EXTENDS Naturals, Sequences

CONSTANTS
    Retries,     \* AdapterConfig.retries
    MaxItems     \* messages and requests of one turn (bounds the model)

ASSUME AdapterAssumption == Retries \in Nat /\ MaxItems \in Nat

Attempts == 1 .. Retries + 1

VARIABLES
    kind,       \* the protocol of the adapter
    pc,         \* where execute is
    attempt,    \* attempts begun so far
    got,        \* the locals of _run_codex_app_server
    queue,      \* lines read from the server and not yet taken
    proc,       \* the child process of each attempt
    phase,      \* what each server has done so far
    items,      \* messages the current server has sent in its turn
    said,       \* the last agent message of each server
    eof,        \* the reader has put the end of the output into the queue
    failure,    \* why each attempt failed
    cut         \* attempts whose turn was at work when the adapter stopped it

adapterVars == <<kind, pc, attempt, got, queue>>
serverVars  == <<proc, phase, items, said, eof>>
historyVars == <<failure, cut>>
vars        == <<adapterVars, serverVars, historyVars>>

Kinds    == {"app_server", "command", "local_shell"}
PCs      == {"start", "read", "stop", "wait", "settle", "post", "shell", "answered", "failed"}
Over     == {"answered", "failed"}
Messages == {"json", "plain"}
Lines    == {"thread", "turn", "refusal", "completed", "aborted", "request", "eof"} \cup Messages
Procs    == {"none", "up", "closing", "exited"}
Phases   == {"none", "fresh", "threaded", "refused", "working", "completed", "aborted"}
Failures == {"none", "spawn", "pipe", "timeout", "request", "noanswer", "command"}

Got == [thread : BOOLEAN, asked : BOOLEAN, turn : BOOLEAN,
        final : Messages \cup {"none"}, status : {"none", "completed", "aborted"}]

NothingGot == [thread |-> FALSE, asked |-> FALSE, turn |-> FALSE,
               final |-> "none", status |-> "none"]

Alive(a) == proc[a] \in {"up", "closing"}
Up       == pc \notin {"start", "post", "shell"} /\ attempt > 0 /\ proc[attempt] = "up"

Init ==
    /\ kind \in Kinds
    /\ pc = "start"
    /\ attempt = 0
    /\ got = NothingGot
    /\ queue = <<>>
    /\ proc = [a \in Attempts |-> "none"]
    /\ phase = [a \in Attempts |-> "none"]
    /\ items = 0
    /\ said = [a \in Attempts |-> "none"]
    /\ eof = FALSE
    /\ failure = [a \in Attempts |-> "none"]
    /\ cut = {}

-----------------------------------------------------------------------------
(* The loop of attempts.                                                   *)

AfterFailureMutant(a) == IF a <= Retries + 1 THEN "start" ELSE "failed"

AfterFailure(a) == IF a <= Retries THEN "start" ELSE "failed"

(* An attempt raises outside the conversation with a process.              *)
Raise(a, why) ==
    /\ failure' = [failure EXCEPT ![a] = why]
    /\ pc' = AfterFailure(a)

(* Popen, the reader threads and the first three requests.  Popen raises   *)
(* when there is no such program or directory; a write raises when the     *)
(* process has gone already.                                               *)
Launch ==
    /\ pc = "start" /\ kind = "app_server"
    /\ attempt' = attempt + 1
    /\ got' = NothingGot
    /\ queue' = <<>>
    /\ items' = 0
    /\ eof' = FALSE
    /\ \/ /\ Raise(attempt + 1, "spawn")
          /\ UNCHANGED <<proc, phase>>
       \/ /\ phase' = [phase EXCEPT ![attempt + 1] = "fresh"]
          /\ \/ /\ proc' = [proc EXCEPT ![attempt + 1] = "up"]
                /\ pc' = "read" /\ failure' = failure
             \/ /\ proc' = [proc EXCEPT ![attempt + 1] = "exited"]
                /\ pc' = "stop" /\ failure' = [failure EXCEPT ![attempt + 1] = "pipe"]
    /\ UNCHANGED <<kind, said, cut>>

(* subprocess.run: it has ended, or was killed at its timeout, when it     *)
(* returns, and what it printed is an answer or is not.                    *)
RunCommand ==
    /\ pc = "start" /\ kind = "command"
    /\ attempt' = attempt + 1
    /\ \/ pc' = "answered" /\ failure' = failure
       \/ Raise(attempt + 1, "command")
    /\ UNCHANGED <<kind, got, queue, serverVars, cut>>

-----------------------------------------------------------------------------
(* The message loop of _run_codex_app_server.                              *)

Take(line) ==
    /\ pc = "read" /\ queue # <<>>
    /\ Head(queue) = line
    /\ queue' = Tail(queue)

Reading == UNCHANGED <<kind, attempt, serverVars, cut>>

(* The answer to thread/start or thread/resume: turn/start is sent.  The   *)
(* write raises when the process has gone.                                 *)
ThreadAnswered ==
    /\ Take("thread")
    /\ got' = [got EXCEPT !.thread = TRUE, !.asked = TRUE]
    /\ \/ pc' = pc /\ failure' = failure
       \/ /\ proc[attempt] = "exited"
          /\ pc' = "stop"
          /\ failure' = [failure EXCEPT ![attempt] = "pipe"]
    /\ Reading

(* An error answer has no "result": it is taken for an answer without ids, *)
(* and the adapter waits on.                                               *)
RefusalIgnored ==
    /\ Take("refusal")
    /\ UNCHANGED <<got, pc, failure>>
    /\ Reading

TurnAnswered ==
    /\ Take("turn")
    /\ got' = [got EXCEPT !.turn = TRUE]
    /\ UNCHANGED <<pc, failure>>
    /\ Reading

MessageArrivesMutant ==
    \E line \in Messages :
        /\ Take(line)
        /\ got' = [got EXCEPT !.final = IF got.final = "none" THEN line ELSE got.final]
        /\ UNCHANGED <<pc, failure>>
        /\ Reading

(* The last message is the final one.                                      *)
MessageArrives ==
    \E line \in Messages :
        /\ Take(line)
        /\ got' = [got EXCEPT !.final = line]
        /\ UNCHANGED <<pc, failure>>
        /\ Reading

TurnEnds ==
    \E line \in {"completed", "aborted"} :
        /\ Take(line)
        /\ got' = [got EXCEPT !.status = line, !.turn = TRUE]
        /\ pc' = "stop"
        /\ failure' = failure
        /\ Reading

(* A request of the server to its client: no client action is supported.   *)
ClientActionRequested ==
    /\ Take("request")
    /\ pc' = "stop"
    /\ failure' = [failure EXCEPT ![attempt] = "request"]
    /\ got' = got
    /\ Reading

EndOfOutputMutant ==
    /\ Take("eof")
    /\ pc' = "stop"
    /\ UNCHANGED <<got, failure>>
    /\ Reading

(* The end of the output ends the loop only if the process has exited;     *)
(* nothing more will come, but the adapter waits for it.                   *)
EndOfOutput ==
    /\ Take("eof")
    /\ pc' = IF Alive(attempt) THEN "read" ELSE "stop"
    /\ UNCHANGED <<got, failure>>
    /\ Reading

TimeoutMutant ==
    /\ pc = "read" /\ queue # <<>>
    /\ pc' = "stop"
    /\ failure' = [failure EXCEPT ![attempt] = "timeout"]
    /\ UNCHANGED <<got, queue>>
    /\ Reading

(* The deadline passes: nothing is taken from the queue any more, whatever *)
(* is in it.                                                               *)
Timeout ==
    /\ pc = "read"
    /\ pc' = "stop"
    /\ failure' = [failure EXCEPT ![attempt] = "timeout"]
    /\ UNCHANGED <<got, queue>>
    /\ Reading

-----------------------------------------------------------------------------
(* After the loop, and in its finally clause.                              *)

TerminateMutant ==
    /\ pc = "stop"
    /\ pc' = "settle"
    /\ cut' = IF Alive(attempt) /\ phase[attempt] = "working" THEN cut \cup {attempt} ELSE cut
    /\ UNCHANGED <<kind, attempt, got, queue, serverVars, failure>>

Terminate ==
    /\ pc = "stop"
    /\ pc' = IF Alive(attempt) THEN "wait" ELSE "settle"
    /\ cut' = IF Alive(attempt) /\ phase[attempt] = "working" THEN cut \cup {attempt} ELSE cut
    /\ UNCHANGED <<kind, attempt, got, queue, serverVars, failure>>

(* Five seconds after terminate the process is killed.                     *)
Kill ==
    /\ pc = "wait" /\ Alive(attempt)
    /\ proc' = [proc EXCEPT ![attempt] = "exited"]
    /\ UNCHANGED <<adapterVars, phase, items, said, eof, historyVars>>

Reaped ==
    /\ pc = "wait" /\ ~Alive(attempt)
    /\ pc' = "settle"
    /\ UNCHANGED <<kind, attempt, got, queue, serverVars, historyVars>>

(* No failure so far, no other status than "completed", both ids, and a    *)
(* final message from which an answer can be read.                         *)
Successful ==
    /\ failure[attempt] = "none"
    /\ got.status # "aborted"
    /\ got.thread /\ got.turn
    /\ got.final = "json"

Settle ==
    /\ pc = "settle"
    /\ IF Successful
       THEN pc' = "answered" /\ failure' = failure
       ELSE Raise(attempt, IF failure[attempt] = "none" THEN "noanswer" ELSE failure[attempt])
    /\ UNCHANGED <<kind, attempt, got, queue, serverVars, cut>>

-----------------------------------------------------------------------------
(* _run_openai_local_shell: rounds until a response asks for no command.   *)

StartRounds ==
    /\ pc = "start" /\ kind = "local_shell"
    /\ attempt' = attempt + 1
    /\ pc' = "post"
    /\ UNCHANGED <<kind, got, queue, serverVars, historyVars>>

(* A key is missing, the call fails, or the last text is no answer.        *)
RoundRaises ==
    /\ pc = "post"
    /\ Raise(attempt, "noanswer")
    /\ UNCHANGED <<kind, attempt, got, queue, serverVars, cut>>

ShellCallsAsked ==
    /\ pc = "post"
    /\ pc' = "shell"
    /\ UNCHANGED <<kind, attempt, got, queue, serverVars, historyVars>>

(* A command that is denied, fails or is too slow gives an output like any *)
(* other; only one that is too slow and has printed something raises, when *)
(* its bytes are joined to text.                                           *)
ShellCallsRun ==
    /\ pc = "shell"
    /\ \/ pc' = "post" /\ failure' = failure
       \/ Raise(attempt, "command")
    /\ UNCHANGED <<kind, attempt, got, queue, serverVars, cut>>

RoundAnswers ==
    /\ pc = "post"
    /\ pc' = "answered"
    /\ UNCHANGED <<kind, attempt, got, queue, serverVars, historyVars>>

-----------------------------------------------------------------------------
(* The server and the thread that reads its output (_pipe_reader).         *)

Put(line) == queue' = Append(queue, line)

ServerOnly == UNCHANGED <<kind, pc, attempt, got, historyVars>>

Enters(p) == phase' = [phase EXCEPT ![attempt] = p]

AnswerThread ==
    /\ Up /\ phase[attempt] = "fresh"
    /\ \/ Put("thread") /\ Enters("threaded")
       \/ Put("refusal") /\ Enters("refused")
    /\ UNCHANGED <<proc, items, said, eof>>
    /\ ServerOnly

AnswerTurn ==
    /\ Up /\ phase[attempt] = "threaded" /\ got.asked
    /\ \/ Put("turn") /\ Enters("working")
       \/ Put("refusal") /\ Enters("refused")
    /\ UNCHANGED <<proc, items, said, eof>>
    /\ ServerOnly

SendMessage ==
    /\ Up /\ phase[attempt] = "working" /\ items < MaxItems
    /\ \E line \in Messages :
           /\ Put(line)
           /\ said' = [said EXCEPT ![attempt] = line]
    /\ items' = items + 1
    /\ UNCHANGED <<proc, phase, eof>>
    /\ ServerOnly

RequestAction ==
    /\ Up /\ phase[attempt] = "working" /\ items < MaxItems
    /\ Put("request")
    /\ items' = items + 1
    /\ UNCHANGED <<proc, phase, said, eof>>
    /\ ServerOnly

EndTurn ==
    /\ Up /\ phase[attempt] = "working"
    /\ \E end \in {"completed", "aborted"} : Put(end) /\ Enters(end)
    /\ UNCHANGED <<proc, items, said, eof>>
    /\ ServerOnly

CloseOutput ==
    /\ Up
    /\ proc' = [proc EXCEPT ![attempt] = "closing"]
    /\ UNCHANGED <<phase, items, said, eof, queue>>
    /\ ServerOnly

(* Any process, the one of an earlier attempt included.                    *)
Exit ==
    /\ \E a \in Attempts : Alive(a) /\ proc' = [proc EXCEPT ![a] = "exited"]
    /\ UNCHANGED <<phase, items, said, eof, queue>>
    /\ ServerOnly

ReadEof ==
    /\ pc \in {"read", "stop", "wait"} /\ ~eof
    /\ proc[attempt] \in {"closing", "exited"}
    /\ Put("eof")
    /\ eof' = TRUE
    /\ UNCHANGED <<proc, phase, items, said>>
    /\ ServerOnly

-----------------------------------------------------------------------------
Receive ==
    \/ ThreadAnswered \/ RefusalIgnored \/ TurnAnswered \/ MessageArrives
    \/ TurnEnds \/ ClientActionRequested \/ EndOfOutput

Conclude == Terminate \/ Reaped \/ Settle

Begin == Launch \/ RunCommand \/ StartRounds

Round == RoundRaises \/ ShellCallsAsked \/ ShellCallsRun \/ RoundAnswers

Server ==
    \/ AnswerThread \/ AnswerTurn \/ SendMessage \/ RequestAction \/ EndTurn
    \/ CloseOutput \/ Exit \/ ReadEof

Next == Begin \/ Receive \/ Timeout \/ Conclude \/ Kill \/ Round \/ Server

Spec == Init /\ [][Next]_vars

(* The thread of the adapter goes on, the clock goes on, and signals work. *)
(* Nothing is assumed of the server.                                       *)
Fairness ==
    /\ WF_vars(Begin) /\ WF_vars(Receive) /\ WF_vars(Conclude)
    /\ WF_vars(Timeout) /\ WF_vars(Kill)

FairSpec == Spec /\ Fairness

-----------------------------------------------------------------------------
(* Properties                                                              *)

(* Types of the adapter's, the server's and the history's state.           *)
TypeOK ==
    /\ kind \in Kinds
    /\ pc \in PCs
    /\ attempt \in 0 .. Retries + 1
    /\ got \in Got
    /\ queue \in Seq(Lines)
    /\ proc \in [Attempts -> Procs]
    /\ phase \in [Attempts -> Phases]
    /\ items \in 0 .. MaxItems
    /\ said \in [Attempts -> Messages \cup {"none"}]
    /\ eof \in BOOLEAN
    /\ failure \in [Attempts -> Failures]
    /\ cut \in SUBSET Attempts

(* An answer is never the intermediate message of a turn that the adapter  *)
(* itself has stopped: it stops asking only when the turn is over or the   *)
(* process has exited.                                                     *)
NeverCutsShort == pc = "answered" => attempt \notin cut

(* A turn that was completed and left a readable answer is run again, with *)
(* its effects on the workspace, only if the deadline passed first or the  *)
(* server had asked for a client action.                                   *)
GoodTurnKept ==
    \A a \in Attempts :
        phase[a] = "completed" /\ said[a] = "json" => failure[a] \in {"none", "timeout", "request"}

(* The call ends whatever the server does or fails to do.  The rounds of   *)
(* the Responses API have no bound and no deadline of their own.           *)
CallEnds == (pc = "start" /\ kind # "local_shell") ~> pc \in Over

(* The call as its caller sees it.                                         *)
Call == INSTANCE CodexCall WITH
    Tries <- Retries + 1,
    tries <- attempt,
    running <- {a \in Attempts : Alive(a)},
    result <- IF pc = "answered" THEN "answer" ELSE IF pc = "failed" THEN "error" ELSE "none"

(* Tries follow one another, no process outlives its try, and the call     *)
(* gives up only after the last try.                                       *)
ImplementsCall == Call!Spec
=============================================================================
