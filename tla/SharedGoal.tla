------------------------------ MODULE SharedGoal ------------------------------
(***************************************************************************)
(* The shared session state of a worker: SessionDocumentStore              *)
(* (worker/session_docs.py) and the SessionMcpService methods over it      *)
(* (worker/session_mcp.py).                                                *)
(*                                                                         *)
(* Every method is load the document, change it, save the document, and    *)
(* then, for a terminal status, clear the conversation's active entry.     *)
(* Nothing locks the document between the load and the save, and the map   *)
(* has a lock of its own that covers one update of the map only.  A method *)
(* is therefore a call that goes through stages, and the stages of calls   *)
(* by different actors (HTTP handlers, session threads, MCP clients)       *)
(* interleave.                                                             *)
(*                                                                         *)
(* A document is abstracted to its status and to the set of user notes it  *)
(* lists.  A write of shared_goal.md and of its session.json index is one  *)
(* step here; see the README for what that leaves out.                     *)
(***************************************************************************)
EXTENDS Naturals, FiniteSets

CONSTANTS
    MaxSessions,     \* number of sessions ever created (bounds the model)
    Conversations,   \* the "channel:conversation_id" keys of the active map
    ConvOf,          \* the conversation each session is created for
    Notes,           \* texts users add to a session, each used once
    Actors           \* whoever calls the service

Sessions  == 1 .. MaxSessions   \* ids are creation timestamps: ordered
NoSession == 0

ASSUME SharedGoalAssumption ==
    /\ MaxSessions \in Nat
    /\ ConvOf \in [Sessions -> Conversations]

InProgress == {"planning", "executing", "reviewing"}
Terminal   == {"completed", "failed", "canceled"}
Status     == InProgress \cup {"waiting_user"} \cup Terminal

Document == [status : Status \cup {"absent"}, notes : SUBSET Notes]
NoDoc    == [status |-> "absent", notes |-> {}]

VARIABLES
    doc,      \* shared_goal.md and session.json of each session
    req,      \* user notes in session_request.json of each session
    active,   \* active_conversations.json
    call      \* the service call each actor is in

sharedVars == <<doc, req, active, call>>

Methods == {"create", "set_verdict", "write_gemini", "write_codex",
            "update_input", "supersede", "read"}
Stages  == {"none", "save", "pop", "activate", "return"}

Call == [stage  : Stages, method : Methods, sid : Sessions \cup {NoSession},
         status : Status, notes : SUBSET Notes,
         buf : Document, rbuf : SUBSET Notes]   \* what was loaded

NoCall == [stage |-> "none", method |-> "read", sid |-> NoSession, status |-> "planning",
           notes |-> {}, buf |-> NoDoc, rbuf |-> {}]

Idle(a)     == call[a].stage = "none"
Exists(s)   == doc[s].status # "absent"
CallsOn(s)  == {a \in Actors : ~Idle(a) /\ call[a].sid = s}

-----------------------------------------------------------------------------
(* Entering a method: load_document reads the copy the method works on,    *)
(* load_request the request (kept here for the one method that saves it).  *)
(* Creation has nothing to load.                                           *)
Enter(a, m, s, st, ns) ==
    /\ Idle(a)
    /\ call' = [call EXCEPT ![a] =
          [stage |-> IF m = "read" THEN "return" ELSE "save", method |-> m,
           sid |-> s, status |-> st, notes |-> ns,
           buf |-> IF m = "create" THEN NoDoc ELSE doc[s],
           rbuf |-> IF m = "update_input" THEN req[s] ELSE {}]]
    /\ UNCHANGED <<doc, req, active>>

(* save_document of what the method made of the copy it had loaded.        *)
Store(a, d, next) ==
    /\ doc' = [doc EXCEPT ![call[a].sid] = d]
    /\ call' = [call EXCEPT ![a] = IF next = "none" THEN NoCall
                                   ELSE [@ EXCEPT !.stage = next, !.buf = NoDoc, !.rbuf = {}]]
    /\ active' = active

Saving(a, m) == call[a].stage = "save" /\ call[a].method = m

WithStatus(a) == [call[a].buf EXCEPT !.status = call[a].status]

AfterStatusMutant(a) == IF call[a].status \in Terminal \ {"canceled"} THEN "pop" ELSE "none"

AfterStatus(a) == IF call[a].status \in Terminal THEN "pop" ELSE "none"

SetVerdict(a) ==
    /\ Saving(a, "set_verdict")
    /\ Store(a, WithStatus(a), AfterStatus(a))
    /\ req' = req

WriteGemini(a) ==
    /\ Saving(a, "write_gemini")
    /\ Store(a, WithStatus(a), AfterStatus(a))
    /\ req' = req

WriteCodex(a) ==
    /\ Saving(a, "write_codex")
    /\ Store(a, call[a].buf, "none")
    /\ req' = req

(* A blank text (attachments only) leaves the notes of both as loaded.     *)
UpdateUserInput(a) ==
    /\ Saving(a, "update_input")
    /\ LET merged == call[a].buf.notes \cup call[a].notes
       IN  /\ Store(a, [call[a].buf EXCEPT !.notes = merged], "none")
           /\ req' = [req EXCEPT ![call[a].sid] =
                          IF call[a].notes = {} THEN call[a].rbuf ELSE merged]

MarkSuperseded(a) ==
    /\ Saving(a, "supersede")
    /\ Store(a, [call[a].buf EXCEPT !.status = "canceled"], "pop")
    /\ req' = req

CreateDocument(a) ==
    /\ Saving(a, "create")
    /\ Store(a, [status |-> "planning", notes |-> {}], "activate")
    /\ req' = [req EXCEPT ![call[a].sid] = {}]

(* set_active_session(.., None): whatever the entry names is removed.      *)
UnmappedMutant(s) == [c \in Conversations \ {ConvOf[s]} |-> active[c]]

Unmapped(s) == [active EXCEPT ![ConvOf[s]] = NoSession]

Pop(a) ==
    /\ call[a].stage = "pop"
    /\ active' = Unmapped(call[a].sid)
    /\ call' = [call EXCEPT ![a] = NoCall]
    /\ UNCHANGED <<doc, req>>

Activate(a) ==
    /\ call[a].stage = "activate"
    /\ active' = [active EXCEPT ![ConvOf[call[a].sid]] = call[a].sid]
    /\ call' = [call EXCEPT ![a] = NoCall]
    /\ UNCHANGED <<doc, req>>

(* session_read hands its copy to the caller.                              *)
Return(a) ==
    /\ call[a].stage = "return"
    /\ call' = [call EXCEPT ![a] = NoCall]
    /\ UNCHANGED <<doc, req, active>>

Progress(a) ==
    \/ SetVerdict(a) \/ WriteGemini(a) \/ WriteCodex(a)
    \/ UpdateUserInput(a) \/ MarkSuperseded(a) \/ CreateDocument(a)
    \/ Pop(a) \/ Activate(a)

-----------------------------------------------------------------------------
(* The service as its callers may use it: a session is created once, and   *)
(* is the subject of other methods only when its creation has returned.    *)

EnterCreate(a) ==
    \E s \in Sessions :
        /\ ~Exists(s) /\ CallsOn(s) = {}
        /\ Enter(a, "create", s, "planning", {})

EnterMethod(a) ==
    \E s \in Sessions :
        /\ Exists(s)
        /\ \A b \in CallsOn(s) : call[b].method # "create"
        /\ \/ \E m \in {"set_verdict", "write_gemini"}, st \in Status : Enter(a, m, s, st, {})
           \/ \E ns \in SUBSET Notes : Enter(a, "update_input", s, "planning", ns)
           \/ \E m \in {"write_codex", "supersede", "read"} : Enter(a, m, s, "planning", {})

(* store.save_request(runtime.request), outside any method.                *)
SaveRequest(s, ns) ==
    /\ Exists(s)
    /\ req' = [req EXCEPT ![s] = ns]

(* store.set_active_session(.., None), outside any method.                 *)
ClearActive(s) == active' = Unmapped(s)

SharedInit ==
    /\ doc = [s \in Sessions |-> NoDoc]
    /\ req = [s \in Sessions |-> {}]
    /\ active = [c \in Conversations |-> NoSession]
    /\ call = [a \in Actors |-> NoCall]

Direct ==
    \/ \E s \in Sessions, ns \in SUBSET Notes :
           SaveRequest(s, ns) /\ UNCHANGED <<doc, active, call>>
    \/ \E s \in Sessions : ClearActive(s) /\ UNCHANGED <<doc, req, call>>

SharedNext ==
    \/ \E a \in Actors : EnterCreate(a) \/ EnterMethod(a) \/ Progress(a) \/ Return(a)
    \/ Direct

SharedSpec == SharedInit /\ [][SharedNext]_sharedVars

-----------------------------------------------------------------------------
(* Types: the files hold documents, notes and a session of the             *)
(* conversation, and calls are well formed.                                *)
SharedTypeOK ==
    /\ doc \in [Sessions -> Document]
    /\ req \in [Sessions -> SUBSET Notes]
    /\ active \in [Conversations -> Sessions \cup {NoSession}]
    /\ call \in [Actors -> Call]

PopPending(s) == \E a \in Actors : call[a].stage = "pop" /\ call[a].sid = s

(* A session whose document is terminal is not the active session of its   *)
(* conversation, except while a writer of a terminal status is still to    *)
(* clear the entry: no interleaving of unlocked writers leaves a finished  *)
(* session behind as the active one.                                       *)
TerminalLeavesMap ==
    \A s \in Sessions :
        active[ConvOf[s]] = s /\ doc[s].status \in Terminal => PopPending(s)
=============================================================================
