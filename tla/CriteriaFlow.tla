----------------------------- MODULE CriteriaFlow -----------------------------
(***************************************************************************)
(* The goal and the acceptance criteria of one session on their way        *)
(* between Gemini, Codex, the run (WorkerOrchestrator.process_session),    *)
(* the request in memory and in session_request.json, and the document     *)
(* shared_goal.md, with a user who adds notes and a worker that restarts.  *)
(*                                                                         *)
(* A criterion belongs to the goal it was made for; its text is left out,  *)
(* and with it the spelling that merge_unique_items keeps: lists without   *)
(* duplicates are sets.  A note is load, change and save of the document,  *)
(* as any writer's method is (see SharedGoal); of the notes only this is   *)
(* kept, that what was loaded is written back.                             *)
(***************************************************************************)
EXTENDS Naturals, FiniteSets

CONSTANTS
    Goals,         \* what the user asks for and what Gemini makes of it
    PerGoal,       \* number of criteria a goal may get
    MaxTurns,      \* cfg.max_turns
    MaxNotes,      \* notes of the user (bounds the model)
    MaxRevisions,  \* goals revised by Gemini (bounds the model)
    MaxRestarts    \* restarts of the worker (bounds the model)

ASSUME CriteriaAssumption ==
    /\ PerGoal \in Nat \ {0} /\ MaxTurns \in Nat \ {0}
    /\ MaxNotes \in Nat /\ MaxRevisions \in Nat /\ MaxRestarts \in Nat
    /\ "none" \notin Goals

Criteria == [goal : Goals, nr : 1 .. PerGoal]

CriteriaOf(g) == [goal : {g}, nr : 1 .. PerGoal]
Derived(g)    == {[goal |-> g, nr |-> 1]}      \* derive_acceptance_criteria

VARIABLES
    doc,        \* shared_goal.md: goal, criteria, those checked off, status
    file,       \* session_request.json: goal and criteria
    mem,        \* SessionRuntimeState.request
    det,        \* SessionRuntimeState.detail: the criteria of the last refresh
    pc,         \* where the run of the session is
    run,        \* its locals
    hpc,        \* where the handler of a note is
    loaded,     \* the document and the request it has loaded
    notes, revisions, restarts,      \* counters of the bounds
    lost,       \* "goal": a note has put back an earlier goal; "marks": or earlier marks
    apart       \* what has kept a revision from some of the files and the memory

sessionVars == <<doc, file, mem, det>>
runVars     == <<pc, run>>
noteVars    == <<hpc, loaded, notes>>
historyVars == <<lost, apart>>
vars == <<sessionVars, runVars, noteVars, revisions, restarts, historyVars>>

Statuses == {"open", "waiting", "completed", "failed"}
PCs      == {"idle", "begin", "gemini", "write", "decide", "codex", "over", "end"}
Verdicts == {"continue", "done", "ask", "fail"}

Document == [goal : Goals, accept : SUBSET Criteria, done : SUBSET Criteria, status : Statuses]
Request  == [goal : Goals, accept : SUBSET Criteria]
Detail   == [accept : SUBSET Criteria, done : SUBSET Criteria]
Run      == [turn : 0 .. MaxTurns, completed : SUBSET Criteria, resolved : SUBSET Criteria,
             goal : Goals \cup {"none"}, changed : BOOLEAN, verdict : Verdicts]

Content(d) == [accept |-> d.accept, done |-> d.done]

NoRun == [turn |-> 0, completed |-> {}, resolved |-> {}, goal |-> "none",
          changed |-> FALSE, verdict |-> "continue"]

NothingLoaded ==
    LET g == CHOOSE g \in Goals : TRUE
    IN  [doc |-> [goal |-> g, accept |-> {}, done |-> {}, status |-> "open"],
         file |-> [goal |-> g, accept |-> {}]]

(* create_session: the user may name criteria.  The first run is started.  *)
Init ==
    /\ \E g \in Goals : \E acc \in SUBSET CriteriaOf(g) :
           /\ doc = [goal |-> g, accept |-> acc, done |-> {}, status |-> "open"]
           /\ file = [goal |-> g, accept |-> acc]
           /\ mem = file
           /\ det = Content(doc)
    /\ pc = "begin" /\ run = NoRun
    /\ hpc = "idle" /\ loaded = NothingLoaded
    /\ notes = 0 /\ revisions = 0 /\ restarts = 0
    /\ lost = {} /\ apart = {}

-----------------------------------------------------------------------------
(* Helpers of the document and of the run.                                 *)

CheckedMutant(d, acc, comp) ==
    LET all == d.accept \cup acc
    IN  [d EXCEPT !.accept = all, !.done = comp \cap all]

(* merge_checklist; saving renders a mark only at a criterion that is      *)
(* listed, whatever else was completed.                                    *)
Checked(d, acc, comp) ==
    LET all == d.accept \cup acc
    IN  [d EXCEPT !.accept = all, !.done = (@ \cup comp) \cap all]

FilterMutant(comp, acc) == comp

(* _filter_completed_criteria                                              *)
Filter(comp, acc) == IF acc = {} THEN comp ELSE comp \cap acc

ForDoneMutant(acc, comp) == Filter(comp, acc)

(* _completed_criteria_for_done                                            *)
ForDone(acc, comp) == Filter(comp, acc) \cup acc

OrDerived(acc, g) == IF acc = {} THEN Derived(g) ELSE acc

Refreshed == det' = Content(doc')

NoteUnchanged == UNCHANGED <<noteVars, restarts, historyVars>>

-----------------------------------------------------------------------------
(* The run.                                                                *)

BeginRun ==
    /\ pc = "begin"
    /\ pc' = "gemini"
    /\ doc' = [doc EXCEPT !.status = "open"]
    /\ Refreshed
    /\ run' = [NoRun EXCEPT !.turn = 1, !.completed = doc.done]
    /\ UNCHANGED <<file, mem, revisions>> /\ NoteUnchanged

(* Gemini gives the session another goal.  The request is saved with it    *)
(* before its criteria are replaced.                                       *)
GoalRevised ==
    /\ pc = "gemini" /\ revisions < MaxRevisions
    /\ revisions' = revisions + 1
    /\ \E g \in Goals \ {mem.goal} :
        \E acc \in SUBSET CriteriaOf(g), comp \in SUBSET Criteria, v \in Verdicts :
            LET resolved == OrDerived(acc, g)
            IN  /\ mem' = [goal |-> g, accept |-> resolved]
                /\ file' = [mem EXCEPT !.goal = g]
                /\ run' = [run EXCEPT !.resolved = resolved, !.verdict = v, !.goal = g, !.changed = TRUE,
                                      !.completed = Filter(comp, resolved)]
    /\ pc' = "write"
    /\ UNCHANGED <<doc, det>> /\ NoteUnchanged

(* Gemini keeps the goal, or names it again.                               *)
GoalKept ==
    /\ pc = "gemini"
    /\ \E acc \in SUBSET CriteriaOf(mem.goal), comp \in SUBSET Criteria, v \in Verdicts,
          g \in {"none", mem.goal} :
            LET resolved == OrDerived(det.accept \cup mem.accept \cup acc, mem.goal)
            IN  /\ mem' = [mem EXCEPT !.accept = resolved]
                /\ run' = [run EXCEPT !.resolved = resolved, !.verdict = v, !.goal = g, !.changed = FALSE,
                                      !.completed = Filter(@ \cup comp, resolved)]
    /\ pc' = "write"
    /\ UNCHANGED <<doc, det, file, revisions>> /\ NoteUnchanged

(* The document with the goal that Gemini named and the status of the turn. *)
Reopened == [doc EXCEPT !.status = "open", !.goal = IF run.goal = "none" THEN @ ELSE run.goal]

WriteGeminiMutant ==
    /\ pc = "write"
    /\ doc' = Checked(Reopened, run.resolved, run.completed)
    /\ Refreshed
    /\ pc' = "decide"
    /\ UNCHANGED <<file, mem, run, revisions>> /\ NoteUnchanged

(* session_write_gemini_sections with replace_goal_context or without.     *)
WriteGemini ==
    /\ pc = "write"
    /\ doc' = IF run.changed
              THEN [Reopened EXCEPT !.accept = run.resolved, !.done = run.completed]
              ELSE Checked(Reopened, run.resolved, run.completed)
    /\ Refreshed
    /\ pc' = "decide"
    /\ UNCHANGED <<file, mem, run, revisions>> /\ NoteUnchanged

(* The verdict: done completes every criterion of the turn.                *)
Decide ==
    /\ pc = "decide"
    /\ LET all == ForDone(run.resolved, run.completed)
       IN  \/ /\ run.verdict = "done"
              /\ doc' = [Checked(doc, run.resolved, all) EXCEPT !.status = "completed"]
              /\ run' = [run EXCEPT !.completed = all]
              /\ pc' = "end"
           \/ /\ run.verdict \in {"ask", "fail"}
              /\ doc' = [doc EXCEPT !.status = IF run.verdict = "ask" THEN "waiting" ELSE "failed"]
              /\ run' = run /\ pc' = "end"
           \/ /\ run.verdict = "continue"
              /\ doc' = [doc EXCEPT !.status = "open"]
              /\ run' = run /\ pc' = "codex"
    /\ UNCHANGED <<file, mem, det, revisions>> /\ NoteUnchanged

NextTurnMutant(turn) == turn + 1

NextTurn(turn) == IF turn < MaxTurns THEN turn + 1 ELSE turn

(* Codex has verified some criteria; only those of the last refresh count. *)
(* The last turn ends the run, and so may any other: Codex has failed too  *)
(* often, or the session is canceled.                                      *)
CodexAnswers ==
    /\ pc = "codex"
    /\ \E verified \in SUBSET Criteria :
        LET known == Filter(verified, det.accept)
        IN  /\ doc' = Checked(doc, {}, known)
            /\ run' = [NoRun EXCEPT !.turn = NextTurn(run.turn),
                                    !.completed = Filter(run.completed \cup known, det.accept)]
    /\ Refreshed
    /\ pc' \in IF run.turn = MaxTurns THEN {"over"} ELSE {"gemini", "over"}
    /\ UNCHANGED <<file, mem, revisions>> /\ NoteUnchanged

(* The loop was left without a verdict; a cancel writes its own status.    *)
NoVerdict ==
    /\ pc = "over"
    /\ pc' = "end"
    /\ doc' = [doc EXCEPT !.status = "failed"]
    /\ UNCHANGED <<file, mem, det, run, revisions>> /\ NoteUnchanged

(* The report is written and the detail refreshed.                         *)
EndRun ==
    /\ pc = "end"
    /\ pc' = "idle" /\ run' = NoRun
    /\ det' = Content(doc)
    /\ UNCHANGED <<doc, file, mem, revisions>> /\ NoteUnchanged

(* An adapter, or the storing of what it said, raises.  The goal of a      *)
(* revision stays in the request when its writing to the document fails.   *)
RunRaises ==
    /\ pc \in PCs \ {"idle", "begin"}
    /\ doc' = [doc EXCEPT !.status = "failed"]
    /\ Refreshed
    /\ pc' = "idle" /\ run' = NoRun
    /\ apart' = IF pc = "write" /\ run.changed THEN apart \cup {"error"} ELSE apart
    /\ UNCHANGED <<file, mem, revisions, noteVars, restarts, lost>>

-----------------------------------------------------------------------------
(* A note of the user (continue_session), and the restart.                 *)

LoadForNote ==
    /\ hpc = "idle" /\ notes < MaxNotes
    /\ notes' = notes + 1
    /\ hpc' = "save"
    /\ loaded' = [doc |-> doc, file |-> file]
    /\ UNCHANGED <<sessionVars, runVars, revisions, restarts, historyVars>>

Overwritten ==
    IF loaded.doc.goal # doc.goal \/ ~(loaded.doc.accept \subseteq doc.accept) THEN {"goal", "marks"}
    ELSE IF Content(loaded.doc) # Content(doc) THEN {"marks"} ELSE {}

SaveNote ==
    /\ hpc = "save"
    /\ hpc' = "request"
    /\ doc' = loaded.doc
    /\ file' = loaded.file
    /\ lost' = lost \cup Overwritten
    /\ UNCHANGED <<mem, det, runVars, loaded, notes, revisions, restarts, apart>>

(* save_request(runtime.request), the refresh, and a run if there is none. *)
NoteStored ==
    /\ hpc = "request"
    /\ hpc' = "idle"
    /\ file' = mem
    /\ det' = Content(doc)
    /\ pc' = IF pc = "idle" THEN "begin" ELSE pc
    /\ loaded' = NothingLoaded
    /\ UNCHANGED <<doc, mem, run, notes, revisions, restarts, historyVars>>

(* What a restart finds of a revision: the goal in the request file only,  *)
(* or in the document too, which has its criteria then, and the file not.  *)
HalfRevised ==
    IF file.goal # doc.goal THEN {"crash"}
    ELSE IF \E c \in file.accept \cup doc.accept : c.goal # file.goal THEN {"reload"}
    ELSE {}

Restart ==
    /\ restarts < MaxRestarts
    /\ restarts' = restarts + 1
    /\ mem' = file
    /\ det' = Content(doc)
    /\ pc' = "idle" /\ run' = NoRun
    /\ hpc' = "idle" /\ loaded' = NothingLoaded
    /\ apart' = apart \cup HalfRevised
    /\ UNCHANGED <<doc, file, notes, revisions, lost>>

Next ==
    \/ BeginRun \/ GoalRevised \/ GoalKept \/ WriteGemini \/ Decide \/ CodexAnswers
    \/ NoVerdict \/ EndRun \/ RunRaises
    \/ LoadForNote \/ SaveNote \/ NoteStored
    \/ Restart

Spec == Init /\ [][Next]_vars

-----------------------------------------------------------------------------
(* Properties                                                              *)

(* Types of the session's files and memory, the run and the note.          *)
TypeOK ==
    /\ doc \in Document /\ file \in Request /\ mem \in Request /\ det \in Detail
    /\ pc \in PCs /\ run \in Run
    /\ hpc \in {"idle", "save", "request"} /\ loaded \in [doc : Document, file : Request]
    /\ notes \in 0 .. MaxNotes /\ revisions \in 0 .. MaxRevisions /\ restarts \in 0 .. MaxRestarts
    /\ lost \in SUBSET {"goal", "marks"} /\ apart \in SUBSET {"error", "crash", "reload"}

(* A completed session has no criterion left that is not checked off,      *)
(* however often it was resumed or restarted, unless a note that was being *)
(* stored while the goal was revised has put back the earlier goal.        *)
DoneCompletesAll ==
    doc.status = "completed" /\ "goal" \notin lost => doc.accept \subseteq doc.done

(* What has been checked off stays so until the goal is revised, unless a  *)
(* note that was being stored has put back an earlier document.            *)
CompletedStays ==
    [][(pc = "write" /\ run.changed) \/ "marks" \in lost' \/ doc.done \subseteq doc'.done]_vars

(* The report of a run that ends without an error lists the criteria that  *)
(* the document has checked off, no more and no fewer.                     *)
ReportMatchesDocument == pc = "end" /\ lost = {} => run.completed = doc.done

OwnCriteria == \A c \in doc.accept : c.goal = doc.goal

(* The criteria of an earlier goal do not survive a revision, as long as   *)
(* no restart has found files that disagree, no error has stopped a        *)
(* revision half way and no note has put back an earlier goal.             *)
RevisionReplaces == "goal" \notin lost /\ apart = {} => OwnCriteria

-----------------------------------------------------------------------------
(* What the repository says of the program and the program does not do     *)

(* After a revision the criteria of the earlier goal are gone, also when   *)
(* the worker is restarted later, with the revision in the document.       *)
RevisionSurvivesRestart == "goal" \notin lost /\ apart \subseteq {"reload"} => OwnCriteria
=============================================================================
