------------------------------ MODULE CodexCall ------------------------------
(***************************************************************************)
(* What a call of an adapter promises its caller, whatever program is      *)
(* behind it (JsonCliAdapter.execute, shared/cli.py): tries one after the  *)
(* other, each with at most one process, which is gone before the next try *)
(* begins and before the call is over; an answer or, after the last try,   *)
(* an error; and nothing after that.                                       *)
(***************************************************************************)
EXTENDS Naturals

CONSTANT Tries    \* config.retries + 1, at least one

VARIABLES
    tries,      \* tries begun so far
    running,    \* the tries whose process is alive
    result      \* what the caller has got

callVars == <<tries, running, result>>

Init ==
    /\ tries = 0
    /\ running = {}
    /\ result = "none"

(* A try that cannot start its process, or is over at once, leaves nothing *)
(* running.                                                                *)
Begin ==
    /\ result = "none" /\ running = {} /\ tries < Tries
    /\ tries' = tries + 1
    /\ running' \in {{}, {tries + 1}}
    /\ result' = result

ProcessEnds ==
    /\ running # {}
    /\ running' = {}
    /\ UNCHANGED <<tries, result>>

Answer ==
    /\ result = "none" /\ running = {} /\ tries > 0
    /\ result' = "answer"
    /\ UNCHANGED <<tries, running>>

(* A try that is over at once may be the last one.                         *)
AnswerAtOnce ==
    /\ result = "none" /\ running = {} /\ tries < Tries
    /\ tries' = tries + 1
    /\ result' = "answer"
    /\ running' = running

GiveUp ==
    /\ result = "none" /\ running = {} /\ tries = Tries
    /\ result' = "error"
    /\ UNCHANGED <<tries, running>>

GiveUpAtOnce ==
    /\ result = "none" /\ running = {} /\ tries + 1 = Tries
    /\ tries' = tries + 1
    /\ result' = "error"
    /\ running' = running

Next == Begin \/ ProcessEnds \/ Answer \/ AnswerAtOnce \/ GiveUp \/ GiveUpAtOnce

Spec == Init /\ [][Next]_callVars

-----------------------------------------------------------------------------
(* What the caller may rely on: only the process of the latest try can be  *)
(* alive, none is when the call is over, and an error means that every try *)
(* there is has been made.                                                 *)
Promise ==
    /\ running \subseteq {tries}
    /\ result # "none" => running = {}
    /\ result = "error" => tries = Tries

(* And nothing happens after the call is over.                             *)
OverIsOver == [][result = "none"]_callVars
=============================================================================
