-------------------------- MODULE CriteriaFlow_proofs --------------------------
(***************************************************************************)
(* Proofs about CriteriaFlow: for any goals, any number of criteria, turns,*)
(* notes, revisions and restarts, a completed session has nothing left to  *)
(* do, what is checked off stays so, the report says what the document     *)
(* says, and a revision leaves nothing of the earlier goal.                *)
(***************************************************************************)
EXTENDS CriteriaFlow, TLAPS

Running == {"gemini", "write", "decide", "codex"}

(* A mark is at a listed criterion, in the document, in what a handler has *)
(* loaded of it and in what a run is about to write.                       *)
MarksListed ==
    /\ doc.done \subseteq doc.accept
    /\ hpc = "save" => loaded.doc.done \subseteq loaded.doc.accept
    /\ pc \in {"write", "decide"} => run.resolved # {} /\ run.completed \subseteq run.resolved

(* What the run knows of the criteria has all those of the document.       *)
RunKnowsAll ==
    "goal" \notin lost =>
        /\ pc \in Running => doc.accept \subseteq det.accept
        /\ pc = "write" /\ ~run.changed => doc.accept \subseteq run.resolved
        /\ pc = "decide" => doc.accept \subseteq run.resolved

(* A document that a handler has loaded is as complete as the one it was.  *)
LoadedDone ==
    hpc = "save" /\ "goal" \notin lost /\ loaded.doc.status = "completed" =>
        loaded.doc.accept \subseteq loaded.doc.done

(* As long as no note has put anything back, run and document agree.       *)
InStep ==
    lost = {} =>
        /\ pc \in Running => det.accept = doc.accept
        /\ pc \in {"decide", "codex"} => doc.accept # {}
        /\ pc \in {"gemini", "decide", "codex", "over", "end"} => run.completed = doc.done
        /\ pc = "write" /\ ~run.changed => doc.done \subseteq run.completed

FlowInv == TypeOK /\ MarksListed /\ RunKnowsAll /\ LoadedDone /\ InStep /\ DoneCompletesAll

(* The criteria of a goal, and those derived from it, are criteria, and    *)
(* there is always one to derive.                                          *)
LEMMA SubsetOfCriteria ==
    ASSUME NEW g \in Goals
    PROVE  CriteriaOf(g) \subseteq Criteria /\ Derived(g) \subseteq Criteria /\ Derived(g) # {}
  BY CriteriaAssumption DEF CriteriaOf, Criteria, Derived

(* The locals outside a run are well typed.                                *)
LEMMA NoRunType == NoRun \in Run
  BY CriteriaAssumption DEF NoRun, Run, Verdicts

(* The locals at the head of a turn are well typed.                        *)
LEMMA NewTurnType ==
    ASSUME NEW t \in 0 .. MaxTurns, NEW c \in SUBSET Criteria
    PROVE  /\ [NoRun EXCEPT !.turn = t, !.completed = c] \in Run
           /\ [NoRun EXCEPT !.turn = t, !.completed = c].completed = c
  BY DEF NoRun, Run, Verdicts

(* The buffer of a note that has loaded nothing is well typed.             *)
LEMMA NothingLoadedType ==
    ASSUME NEW h \in Goals
    PROVE  NothingLoaded \in [doc : Document, file : Request]
<1> DEFINE g == CHOOSE g \in Goals : TRUE
<1>1. g \in Goals
  OBVIOUS
<1>2. NothingLoaded = [doc |-> [goal |-> g, accept |-> {}, done |-> {}, status |-> "open"],
                       file |-> [goal |-> g, accept |-> {}]]
  BY DEF NothingLoaded
<1> HIDE DEF g
<1> QED
  BY <1>1, <1>2 DEF Document, Request, Statuses

(* The initial states satisfy the invariant.                               *)
LEMMA FlowInit == Init => FlowInv
<1> SUFFICES ASSUME Init PROVE FlowInv
  OBVIOUS
<1>1. PICK g \in Goals : \E acc \in SUBSET CriteriaOf(g) :
           /\ doc = [goal |-> g, accept |-> acc, done |-> {}, status |-> "open"]
           /\ file = [goal |-> g, accept |-> acc]
           /\ mem = file
           /\ det = Content(doc)
  BY DEF Init
<1>2. doc \in Document /\ file \in Request /\ mem \in Request /\ det \in Detail
  BY <1>1, SubsetOfCriteria DEF Document, Request, Detail, Content, Statuses
<1>3. /\ doc.done = {} /\ doc.status = "open" /\ pc = "begin" /\ hpc = "idle" /\ lost = {}
      /\ loaded = NothingLoaded /\ run \in Run
  BY <1>1, NoRunType DEF Init
<1>4. loaded \in [doc : Document, file : Request]
  BY <1>1, <1>3, NothingLoadedType
<1>5. TypeOK
  BY <1>2, <1>3, <1>4, CriteriaAssumption DEF Init, TypeOK, PCs
<1> QED
  BY <1>3, <1>5 DEF FlowInv, MarksListed, RunKnowsAll, LoadedDone, InStep, DoneCompletesAll, Running

(* The helpers keep to the criteria they are given.                        *)
LEMMA FilterKeeps ==
    ASSUME NEW acc, NEW comp
    PROVE  /\ Filter(comp, acc) \subseteq comp
           /\ acc # {} => Filter(comp, acc) = comp \cap acc
  BY DEF Filter

(* What checking criteria off makes of a document: it adds criteria and    *)
(* marks, no mark without a criterion, and touches nothing else.           *)
LEMMA CheckedKeeps ==
    ASSUME NEW d \in Document, NEW acc \in SUBSET Criteria, NEW comp
    PROVE  /\ Checked(d, acc, comp) \in Document
           /\ Checked(d, acc, comp).goal = d.goal
           /\ Checked(d, acc, comp).status = d.status
           /\ Checked(d, acc, comp).accept = d.accept \cup acc
           /\ Checked(d, acc, comp).done = (d.done \cup comp) \cap (d.accept \cup acc)
<1> DEFINE all == d.accept \cup acc
<1>1. Checked(d, acc, comp) = [d EXCEPT !.accept = all, !.done = (d.done \cup comp) \cap all]
  BY DEF Checked
<1>2. all \in SUBSET Criteria /\ (d.done \cup comp) \cap all \in SUBSET Criteria
  BY DEF Document
<1> HIDE DEF all
<1>3. Checked(d, acc, comp) = [goal |-> d.goal, accept |-> all, done |-> (d.done \cup comp) \cap all,
                               status |-> d.status]
  BY <1>1 DEF Document
<1> QED
  BY <1>2, <1>3 DEF Document, all

(* Checking criteria off leaves the status alone.                          *)
LEMMA CheckedStatus ==
    ASSUME NEW d \in Document, NEW acc \in SUBSET Criteria, NEW comp
    PROVE  Checked(d, acc, comp).status = d.status
  BY DEF Checked, Document

(* Checking criteria off leaves the goal alone.                            *)
LEMMA CheckedGoal ==
    ASSUME NEW d \in Document, NEW acc \in SUBSET Criteria, NEW comp
    PROVE  Checked(d, acc, comp).goal = d.goal
  BY DEF Checked, Document

(* Checking criteria off adds the criteria of the turn.                    *)
LEMMA CheckedAccept ==
    ASSUME NEW d \in Document, NEW acc \in SUBSET Criteria, NEW comp
    PROVE  Checked(d, acc, comp) \in Document /\ Checked(d, acc, comp).accept = d.accept \cup acc
  BY DEF Checked, Document

(* A document whose status changes keeps the rest.                         *)
LEMMA StatusKeeps ==
    ASSUME NEW d \in Document, NEW st \in Statuses
    PROVE  /\ [d EXCEPT !.status = st] \in Document
           /\ [d EXCEPT !.status = st].goal = d.goal
           /\ [d EXCEPT !.status = st].accept = d.accept
           /\ [d EXCEPT !.status = st].done = d.done
           /\ [d EXCEPT !.status = st].status = st
  BY DEF Document

(* A refresh reads the criteria and the marks of the document.             *)
LEMMA ContentType ==
    ASSUME NEW d \in Document
    PROVE  /\ Content(d) \in Detail
           /\ Content(d).accept = d.accept /\ Content(d).done = d.done
  BY DEF Document, Content, Detail

(* The begin of a run keeps the invariant.                                 *)
LEMMA BeginRunKeeps == FlowInv /\ BeginRun => FlowInv'
<1> SUFFICES ASSUME FlowInv, BeginRun PROVE FlowInv'
  OBVIOUS
<1>1. /\ doc' \in Document /\ doc'.accept = doc.accept /\ doc'.done = doc.done
      /\ doc'.status = "open" /\ pc' = "gemini"
  BY StatusKeeps DEF BeginRun, FlowInv, TypeOK, Statuses
<1>2. det' \in Detail /\ det'.accept = doc'.accept
  BY <1>1, ContentType DEF BeginRun, Refreshed
<1>3. run' \in Run /\ run'.completed = doc.done
  <2>1. 1 \in 0 .. MaxTurns /\ doc.done \in SUBSET Criteria
    BY CriteriaAssumption DEF FlowInv, TypeOK, Document
  <2> QED
    BY <2>1, NewTurnType DEF BeginRun
<1>4. TypeOK'
  BY <1>1, <1>2, <1>3 DEF BeginRun, FlowInv, TypeOK, NoteUnchanged, noteVars, historyVars, PCs
<1> QED
  BY <1>1, <1>2, <1>3, <1>4 DEF BeginRun, FlowInv, NoteUnchanged, noteVars, historyVars, MarksListed,
     RunKnowsAll, LoadedDone, InStep, DoneCompletesAll, Running

(* A revised goal keeps the invariant.                                     *)
LEMMA GoalRevisedKeeps == FlowInv /\ GoalRevised => FlowInv'
<1> SUFFICES ASSUME FlowInv, GoalRevised PROVE FlowInv'
  OBVIOUS
<1>a. PICK g \in Goals \ {mem.goal} :
        \E acc \in SUBSET CriteriaOf(g), comp \in SUBSET Criteria, v \in Verdicts :
          /\ mem' = [goal |-> g, accept |-> OrDerived(acc, g)]
          /\ file' = [mem EXCEPT !.goal = g]
          /\ run' = [run EXCEPT !.resolved = OrDerived(acc, g), !.verdict = v, !.goal = g, !.changed = TRUE,
                                !.completed = Filter(comp, OrDerived(acc, g))]
  BY DEF GoalRevised
<1>1. PICK acc \in SUBSET CriteriaOf(g), comp \in SUBSET Criteria, v \in Verdicts :
          /\ mem' = [goal |-> g, accept |-> OrDerived(acc, g)]
          /\ file' = [mem EXCEPT !.goal = g]
          /\ run' = [run EXCEPT !.resolved = OrDerived(acc, g), !.verdict = v, !.goal = g, !.changed = TRUE,
                                !.completed = Filter(comp, OrDerived(acc, g))]
  BY <1>a
<1>2. OrDerived(acc, g) \in SUBSET Criteria /\ OrDerived(acc, g) # {}
  BY SubsetOfCriteria DEF OrDerived
<1>3. /\ Filter(comp, OrDerived(acc, g)) \in SUBSET Criteria
      /\ Filter(comp, OrDerived(acc, g)) \subseteq OrDerived(acc, g)
  BY <1>2, FilterKeeps
<1>4. /\ run' \in Run /\ run'.changed = TRUE /\ run'.resolved = OrDerived(acc, g)
      /\ run'.completed = Filter(comp, OrDerived(acc, g))
  BY <1>1, <1>2, <1>3 DEF FlowInv, TypeOK, Run
<1>5. mem' \in Request /\ file' \in Request
  BY <1>1, <1>2 DEF FlowInv, TypeOK, Request
<1>6. TypeOK'
  BY <1>4, <1>5, CriteriaAssumption DEF GoalRevised, FlowInv, TypeOK, NoteUnchanged, noteVars,
     historyVars, PCs
<1> QED
  BY <1>2, <1>3, <1>4, <1>6 DEF GoalRevised, FlowInv, NoteUnchanged, noteVars, historyVars, MarksListed,
     RunKnowsAll, LoadedDone, InStep, DoneCompletesAll, Running

(* An answer that keeps the goal keeps the invariant.                      *)
LEMMA GoalKeptKeeps == FlowInv /\ GoalKept => FlowInv'
<1> SUFFICES ASSUME FlowInv, GoalKept PROVE FlowInv'
  OBVIOUS
<1>1. PICK acc \in SUBSET CriteriaOf(mem.goal), comp \in SUBSET Criteria, v \in Verdicts,
          g \in {"none", mem.goal} :
          LET resolved == OrDerived(det.accept \cup mem.accept \cup acc, mem.goal)
          IN  /\ mem' = [mem EXCEPT !.accept = resolved]
              /\ run' = [run EXCEPT !.resolved = resolved, !.verdict = v, !.goal = g, !.changed = FALSE,
                                    !.completed = Filter(run.completed \cup comp, resolved)]
  BY DEF GoalKept
<1> DEFINE resolved == OrDerived(det.accept \cup mem.accept \cup acc, mem.goal)
           completed == Filter(run.completed \cup comp, resolved)
<1>2. mem.goal \in Goals /\ det.accept \in SUBSET Criteria /\ mem.accept \in SUBSET Criteria
  BY DEF FlowInv, TypeOK, Request, Detail
<1>3. resolved \in SUBSET Criteria /\ resolved # {} /\ det.accept \subseteq resolved
  BY <1>2, SubsetOfCriteria DEF OrDerived
<1> HIDE DEF resolved
<1>4. completed = (run.completed \cup comp) \cap resolved
  BY <1>3 DEF Filter
<1>5. /\ mem' = [mem EXCEPT !.accept = resolved]
      /\ run' = [run EXCEPT !.resolved = resolved, !.verdict = v, !.goal = g, !.changed = FALSE,
                            !.completed = completed]
  BY <1>1 DEF resolved
<1> HIDE DEF completed
<1>6. /\ run' \in Run /\ run'.changed = FALSE /\ run'.resolved = resolved
      /\ run'.completed = completed /\ mem' \in Request
  BY <1>2, <1>3, <1>4, <1>5 DEF FlowInv, TypeOK, Run, Request
<1>7. TypeOK'
  BY <1>6 DEF GoalKept, FlowInv, TypeOK, NoteUnchanged, noteVars, historyVars, PCs
<1>8. pc = "gemini" /\ pc' = "write" /\ UNCHANGED <<doc, det, hpc, loaded, lost>>
  BY DEF GoalKept, NoteUnchanged, noteVars, historyVars
<1>9. lost = {} => doc.done \subseteq completed
  BY <1>3, <1>4, <1>8 DEF FlowInv, MarksListed, InStep, Running
<1> QED
  BY <1>3, <1>4, <1>6, <1>7, <1>8, <1>9 DEF FlowInv, MarksListed, RunKnowsAll, LoadedDone, InStep,
     DoneCompletesAll, Running

(* Writing the answer to the document keeps the invariant.                 *)
LEMMA WriteGeminiKeeps == FlowInv /\ WriteGemini => FlowInv'
<1> SUFFICES ASSUME FlowInv, WriteGemini PROVE FlowInv'
  OBVIOUS
<1>1. /\ pc = "write" /\ pc' = "decide" /\ run.resolved \in SUBSET Criteria
      /\ run.completed \in SUBSET Criteria /\ run.resolved # {}
      /\ run.completed \subseteq run.resolved
      /\ UNCHANGED <<file, mem, run, revisions, hpc, loaded, notes, restarts, lost, apart>>
  BY DEF WriteGemini, NoteUnchanged, noteVars, historyVars, FlowInv, TypeOK, Run, MarksListed
<1>2. /\ Reopened \in Document /\ Reopened.accept = doc.accept /\ Reopened.done = doc.done
      /\ Reopened.status = "open"
  BY DEF Reopened, FlowInv, TypeOK, Document, Run, Statuses
<1>3. /\ doc' \in Document /\ doc'.status = "open"
      /\ run.changed => doc'.accept = run.resolved /\ doc'.done = run.completed
      /\ ~run.changed => /\ doc'.accept = doc.accept \cup run.resolved
                         /\ doc'.done = (doc.done \cup run.completed) \cap doc'.accept
  <2>1. CASE run.changed
    <3>1. doc' = [Reopened EXCEPT !.accept = run.resolved, !.done = run.completed]
      BY <2>1 DEF WriteGemini
    <3>2. doc' = [goal |-> Reopened.goal, accept |-> run.resolved, done |-> run.completed,
                  status |-> Reopened.status]
      BY <1>2, <3>1 DEF Document
    <3> QED
      BY <1>1, <1>2, <2>1, <3>2 DEF Document
  <2>2. CASE ~run.changed
    <3>1. doc' = Checked(Reopened, run.resolved, run.completed)
      BY <2>2 DEF WriteGemini
    <3> DEFINE d == Reopened  acc == run.resolved  comp == run.completed
    <3>2. d \in Document /\ acc \in SUBSET Criteria
      BY <1>1, <1>2
    <3>3. doc' = Checked(d, acc, comp)
      BY <3>1
    <3>4. d.accept = doc.accept /\ d.done = doc.done /\ d.status = "open"
      BY <1>2
    <3> HIDE DEF d, acc, comp
    <3> DEFINE checked == Checked(d, acc, comp)
    <3>5. doc' = checked /\ checked = Checked(d, acc, comp)
      BY <3>3
    <3> HIDE DEF checked
    <3>6. /\ checked \in Document /\ checked.accept = d.accept \cup acc
          /\ checked.done = (d.done \cup comp) \cap (d.accept \cup acc)
      BY <3>2, <3>5, CheckedKeeps
    <3>8. checked.status = d.status
      BY <3>2, <3>5, CheckedStatus
    <3>7. /\ doc' \in Document /\ doc'.status = "open" /\ doc'.accept = doc.accept \cup acc
          /\ doc'.done = (doc.done \cup comp) \cap (doc.accept \cup acc)
      BY <3>4, <3>5, <3>6, <3>8
    <3> QED
      BY <2>2, <3>7 DEF acc, comp
  <2> QED
    BY <2>1, <2>2
<1>4. det' \in Detail /\ det'.accept = doc'.accept
  BY <1>3, ContentType DEF WriteGemini, Refreshed
<1>5. TypeOK'
  BY <1>1, <1>3, <1>4 DEF FlowInv, TypeOK, PCs
<1>6. MarksListed' /\ LoadedDone' /\ DoneCompletesAll'
  BY <1>1, <1>3 DEF FlowInv, MarksListed, LoadedDone, DoneCompletesAll
<1>7. RunKnowsAll'
  BY <1>1, <1>3, <1>4 DEF FlowInv, RunKnowsAll
<1>8. InStep'
  BY <1>1, <1>3, <1>4 DEF FlowInv, InStep
<1> QED
  BY <1>5, <1>6, <1>7, <1>8 DEF FlowInv

(* Acting on the verdict keeps the invariant.                              *)
LEMMA DecideKeeps == FlowInv /\ Decide => FlowInv'
<1> SUFFICES ASSUME FlowInv, Decide PROVE FlowInv'
  OBVIOUS
<1> DEFINE all == ForDone(run.resolved, run.completed)
<1>1. /\ pc = "decide" /\ run.resolved \in SUBSET Criteria /\ run.completed \in SUBSET Criteria
      /\ run.resolved # {} /\ run.completed \subseteq run.resolved
      /\ UNCHANGED <<file, mem, det, revisions, hpc, loaded, notes, restarts, lost, apart>>
  BY DEF Decide, NoteUnchanged, noteVars, historyVars, FlowInv, TypeOK, Run, MarksListed
<1>2. all = run.resolved
  BY <1>1 DEF ForDone, Filter
<1> HIDE DEF all
<1>3. CASE /\ doc' = [Checked(doc, run.resolved, all) EXCEPT !.status = "completed"]
           /\ run' = [run EXCEPT !.completed = all]
           /\ pc' = "end"
  <2>1. /\ doc' \in Document /\ doc'.status = "completed"
        /\ doc'.accept = doc.accept \cup run.resolved
        /\ doc'.done = (doc.done \cup run.resolved) \cap doc'.accept
    <3> DEFINE checked == Checked(doc, run.resolved, all)
    <3>1. doc \in Document /\ "completed" \in Statuses
      BY DEF FlowInv, TypeOK, Statuses
    <3> DEFINE acc == run.resolved
    <3>2. /\ acc \in SUBSET Criteria
          /\ doc' = [checked EXCEPT !.status = "completed"] /\ checked = Checked(doc, acc, all)
      BY <1>1, <1>3
    <3> HIDE DEF acc, checked
    <3>3. /\ checked \in Document /\ checked.accept = doc.accept \cup acc
          /\ checked.done = (doc.done \cup all) \cap (doc.accept \cup acc)
      BY <3>1, <3>2, CheckedKeeps
    <3>4. /\ doc' \in Document /\ doc'.status = "completed" /\ doc'.accept = checked.accept
          /\ doc'.done = checked.done
      BY <3>1, <3>2, <3>3, StatusKeeps
    <3> QED
      BY <1>2, <3>3, <3>4 DEF acc
  <2>2. run' \in Run /\ run'.completed = run.resolved
    BY <1>1, <1>2, <1>3 DEF FlowInv, TypeOK, Run
  <2>3. TypeOK'
    BY <1>1, <1>3, <2>1, <2>2 DEF FlowInv, TypeOK, PCs
  <2>4. MarksListed' /\ LoadedDone' /\ RunKnowsAll' /\ DoneCompletesAll'
    BY <1>1, <1>3, <2>1 DEF FlowInv, MarksListed, LoadedDone, RunKnowsAll, DoneCompletesAll, Running
  <2>5. InStep'
    BY <1>1, <1>3, <2>1, <2>2 DEF FlowInv, MarksListed, InStep, Running
  <2> QED
    BY <2>3, <2>4, <2>5 DEF FlowInv
<1>4. CASE \E st \in {"waiting", "failed", "open"} :
             /\ doc' = [doc EXCEPT !.status = st]
             /\ run' = run
             /\ pc' = IF st = "open" THEN "codex" ELSE "end"
  <2>1. /\ doc' \in Document /\ doc'.status # "completed"
        /\ doc'.accept = doc.accept /\ doc'.done = doc.done
    <3>1. PICK st \in {"waiting", "failed", "open"} : doc' = [doc EXCEPT !.status = st]
      BY <1>4
    <3>2. doc \in Document /\ st \in Statuses /\ st # "completed"
      BY DEF FlowInv, TypeOK, Statuses
    <3> QED
      BY <3>1, <3>2, StatusKeeps
  <2>2. TypeOK'
    BY <1>1, <1>4, <2>1 DEF FlowInv, TypeOK, PCs
  <2>3. MarksListed' /\ LoadedDone' /\ RunKnowsAll' /\ DoneCompletesAll'
    BY <1>1, <1>4, <2>1 DEF FlowInv, MarksListed, LoadedDone, RunKnowsAll, DoneCompletesAll, Running
  <2>4. InStep'
    BY <1>1, <1>4, <2>1 DEF FlowInv, InStep, Running
  <2> QED
    BY <2>2, <2>3, <2>4 DEF FlowInv
<1> QED
  BY <1>3, <1>4 DEF Decide, all

(* The turn number stays within the limit.                                 *)
LEMMA NextTurnKeeps ==
    ASSUME NEW t \in 0 .. MaxTurns PROVE NextTurn(t) \in 0 .. MaxTurns
  BY CriteriaAssumption DEF NextTurn

(* A result of Codex keeps the invariant.                                  *)
LEMMA CodexAnswersKeeps == FlowInv /\ CodexAnswers => FlowInv'
<1> SUFFICES ASSUME FlowInv, CodexAnswers PROVE FlowInv'
  OBVIOUS
<1>1. PICK verified \in SUBSET Criteria :
          /\ doc' = Checked(doc, {}, Filter(verified, det.accept))
          /\ run' = [NoRun EXCEPT !.turn = NextTurn(run.turn),
                                  !.completed = Filter(run.completed \cup Filter(verified, det.accept),
                                                       det.accept)]
  BY DEF CodexAnswers
<1> DEFINE known == Filter(verified, det.accept)
           completed == Filter(run.completed \cup known, det.accept)
<1>2. /\ pc = "codex" /\ pc' \in {"gemini", "over"} /\ det' = Content(doc')
      /\ UNCHANGED <<file, mem, revisions, hpc, loaded, notes, restarts, lost, apart>>
  BY DEF CodexAnswers, Refreshed, NoteUnchanged, noteVars, historyVars
<1>3. known \in SUBSET Criteria
  BY DEF Filter
<1>4. completed \in SUBSET Criteria
  BY <1>3 DEF Filter, FlowInv, TypeOK, Run
<1>5. det.accept # {} => known = verified \cap det.accept /\ completed = (run.completed \cup known) \cap det.accept
  BY DEF Filter
<1>6. /\ doc' = Checked(doc, {}, known)
      /\ run' = [NoRun EXCEPT !.turn = NextTurn(run.turn), !.completed = completed]
  BY <1>1
<1> HIDE DEF known, completed
<1>7. /\ doc' \in Document /\ doc'.status = doc.status /\ doc'.accept = doc.accept
      /\ doc'.done = (doc.done \cup known) \cap doc.accept
  <2>1. doc \in Document /\ {} \in SUBSET Criteria
    BY DEF FlowInv, TypeOK
  <2>2. doc.accept \cup {} = doc.accept
    OBVIOUS
  <2> DEFINE none == {}  checked == Checked(doc, none, known)
  <2>3. /\ none \in SUBSET Criteria /\ doc' = checked /\ checked = Checked(doc, none, known)
        /\ doc.accept \cup none = doc.accept
    BY <1>6, <2>1, <2>2
  <2> HIDE DEF none, checked
  <2>4. /\ checked \in Document /\ checked.accept = doc.accept \cup none
        /\ checked.done = (doc.done \cup known) \cap (doc.accept \cup none)
    BY <2>1, <2>3, CheckedKeeps
  <2>5. checked.status = doc.status
    BY <2>1, <2>3, CheckedStatus
  <2> QED
    BY <2>3, <2>4, <2>5
<1>8. run' \in Run /\ run'.completed = completed
  <2>1. NextTurn(run.turn) \in 0 .. MaxTurns
    BY NextTurnKeeps DEF FlowInv, TypeOK, Run
  <2> QED
    BY <1>4, <1>6, <2>1, NewTurnType
<1>9. det' \in Detail /\ det'.accept = doc'.accept
  BY <1>2, <1>7, ContentType
<1>10. TypeOK'
  BY <1>2, <1>7, <1>8, <1>9 DEF FlowInv, TypeOK, PCs
<1>11. MarksListed' /\ LoadedDone' /\ RunKnowsAll' /\ DoneCompletesAll'
  BY <1>2, <1>7, <1>9 DEF FlowInv, MarksListed, LoadedDone, RunKnowsAll, DoneCompletesAll
<1>12. InStep'
  BY <1>2, <1>5, <1>7, <1>8, <1>9 DEF FlowInv, InStep, Running
<1> QED
  BY <1>10, <1>11, <1>12 DEF FlowInv

(* The end of a loop that was left without a verdict keeps it.             *)
LEMMA NoVerdictKeeps == FlowInv /\ NoVerdict => FlowInv'
<1> SUFFICES ASSUME FlowInv, NoVerdict PROVE FlowInv'
  OBVIOUS
<1>1. /\ doc' \in Document /\ doc'.status = "failed"
      /\ doc'.accept = doc.accept /\ doc'.done = doc.done
  BY StatusKeeps DEF NoVerdict, FlowInv, TypeOK, Statuses
<1>2. /\ pc = "over" /\ pc' = "end"
      /\ UNCHANGED <<file, mem, det, run, revisions, hpc, loaded, notes, restarts, lost, apart>>
  BY DEF NoVerdict, NoteUnchanged, noteVars, historyVars
<1>3. TypeOK'
  BY <1>1, <1>2 DEF FlowInv, TypeOK, PCs
<1> QED
  BY <1>1, <1>2, <1>3 DEF FlowInv, MarksListed, RunKnowsAll, LoadedDone, InStep, DoneCompletesAll, Running

(* The end of a run keeps the invariant.                                   *)
LEMMA EndRunKeeps == FlowInv /\ EndRun => FlowInv'
<1> SUFFICES ASSUME FlowInv, EndRun PROVE FlowInv'
  OBVIOUS
<1>1. /\ pc' = "idle" /\ run' \in Run /\ det' \in Detail
      /\ UNCHANGED <<doc, file, mem, revisions, hpc, loaded, notes, restarts, lost, apart>>
  BY NoRunType, ContentType DEF EndRun, NoteUnchanged, noteVars, historyVars, FlowInv, TypeOK
<1>2. TypeOK'
  BY <1>1 DEF FlowInv, TypeOK, PCs
<1> QED
  BY <1>1, <1>2 DEF FlowInv, MarksListed, RunKnowsAll, LoadedDone, InStep, DoneCompletesAll, Running

(* A run that raises keeps the invariant.                                  *)
LEMMA RunRaisesKeeps == FlowInv /\ RunRaises => FlowInv'
<1> SUFFICES ASSUME FlowInv, RunRaises PROVE FlowInv'
  OBVIOUS
<1>1. /\ doc' \in Document /\ doc'.status = "failed"
      /\ doc'.accept = doc.accept /\ doc'.done = doc.done
  BY StatusKeeps DEF RunRaises, FlowInv, TypeOK, Statuses
<1>2. /\ pc' = "idle" /\ run' \in Run /\ det' \in Detail
      /\ apart' \in SUBSET {"error", "crash", "reload"}
      /\ UNCHANGED <<file, mem, revisions, hpc, loaded, notes, restarts, lost>>
  BY <1>1, NoRunType, ContentType DEF RunRaises, Refreshed, noteVars, FlowInv, TypeOK
<1>3. TypeOK'
  BY <1>1, <1>2 DEF FlowInv, TypeOK, PCs
<1> QED
  BY <1>1, <1>2, <1>3 DEF FlowInv, MarksListed, RunKnowsAll, LoadedDone, InStep, DoneCompletesAll, Running

(* Loading the document for a note keeps the invariant.                    *)
LEMMA LoadForNoteKeeps == FlowInv /\ LoadForNote => FlowInv'
<1> SUFFICES ASSUME FlowInv, LoadForNote PROVE FlowInv'
  OBVIOUS
<1>1. /\ hpc' = "save" /\ loaded' = [doc |-> doc, file |-> file] /\ notes < MaxNotes /\ notes' = notes + 1
      /\ UNCHANGED <<doc, file, mem, det, pc, run, revisions, restarts, lost, apart>>
  BY DEF LoadForNote, sessionVars, runVars, historyVars
<1>2. TypeOK'
  BY <1>1, CriteriaAssumption DEF FlowInv, TypeOK
<1> QED
  BY <1>1, <1>2 DEF FlowInv, MarksListed, RunKnowsAll, LoadedDone, InStep, DoneCompletesAll

(* What a note that overwrites nothing of interest leaves as it was.       *)
LEMMA SaveNoteLeaves ==
    ASSUME TypeOK, SaveNote
    PROVE  /\ "goal" \notin lost' => "goal" \notin lost /\ loaded.doc.accept \subseteq doc.accept
           /\ "marks" \notin lost' => loaded.doc.accept = doc.accept /\ loaded.doc.done = doc.done
           /\ lost \subseteq lost' /\ lost' \in SUBSET {"goal", "marks"}
<1>1. lost' = lost \cup Overwritten /\ lost \in SUBSET {"goal", "marks"}
  BY DEF SaveNote, TypeOK
<1>2. Content(loaded.doc) = Content(doc) => loaded.doc.accept = doc.accept /\ loaded.doc.done = doc.done
  BY DEF Content
<1> QED
  BY <1>1, <1>2 DEF Overwritten

(* Saving the document with a note keeps the invariant.                    *)
LEMMA SaveNoteKeeps == FlowInv /\ SaveNote => FlowInv'
<1> SUFFICES ASSUME FlowInv, SaveNote PROVE FlowInv'
  OBVIOUS
<1>1. /\ hpc = "save" /\ hpc' = "request" /\ doc' = loaded.doc /\ file' = loaded.file
      /\ UNCHANGED <<mem, det, pc, run, loaded, notes, revisions, restarts, apart>>
  BY DEF SaveNote, runVars
<1>2. /\ "goal" \notin lost' => "goal" \notin lost /\ loaded.doc.accept \subseteq doc.accept
      /\ lost' = {} => lost = {} /\ loaded.doc.accept = doc.accept /\ loaded.doc.done = doc.done
      /\ lost' \in SUBSET {"goal", "marks"}
  BY SaveNoteLeaves DEF FlowInv
<1>3. TypeOK'
  BY <1>1, <1>2 DEF FlowInv, TypeOK
<1>4. MarksListed' /\ LoadedDone' /\ DoneCompletesAll'
  BY <1>1, <1>2 DEF FlowInv, MarksListed, LoadedDone, DoneCompletesAll
<1>5. RunKnowsAll'
  BY <1>1, <1>2 DEF FlowInv, RunKnowsAll
<1>6. InStep'
  BY <1>1, <1>2 DEF FlowInv, InStep
<1> QED
  BY <1>3, <1>4, <1>5, <1>6 DEF FlowInv

(* Storing the request with a note keeps the invariant.                    *)
LEMMA NoteStoredKeeps == FlowInv /\ NoteStored => FlowInv'
<1> SUFFICES ASSUME FlowInv, NoteStored PROVE FlowInv'
  OBVIOUS
<1>1. /\ hpc' = "idle" /\ file' = mem /\ pc' = IF pc = "idle" THEN "begin" ELSE pc
      /\ det' = Content(doc)
      /\ UNCHANGED <<doc, mem, run, notes, revisions, restarts, lost, apart>>
  BY DEF NoteStored, historyVars
<1>2. det' \in Detail /\ det'.accept = doc.accept
  BY <1>1, ContentType DEF FlowInv, TypeOK
<1>3. loaded' \in [doc : Document, file : Request]
  <2>1. mem.goal \in Goals
    BY DEF FlowInv, TypeOK, Request
  <2> QED
    BY <2>1, NothingLoadedType DEF NoteStored
<1>4. TypeOK'
  BY <1>1, <1>2, <1>3 DEF FlowInv, TypeOK, PCs
<1> QED
  BY <1>1, <1>2, <1>4 DEF FlowInv, MarksListed, RunKnowsAll, LoadedDone, InStep, DoneCompletesAll, Running

(* A restart keeps the invariant.                                          *)
LEMMA RestartKeeps == FlowInv /\ Restart => FlowInv'
<1> SUFFICES ASSUME FlowInv, Restart PROVE FlowInv'
  OBVIOUS
<1>1. /\ pc' = "idle" /\ hpc' = "idle" /\ mem' = file /\ run' \in Run /\ det' \in Detail
      /\ restarts < MaxRestarts /\ restarts' = restarts + 1
      /\ UNCHANGED <<doc, file, notes, revisions, lost>>
  BY NoRunType, ContentType DEF Restart, FlowInv, TypeOK
<1>2. loaded' \in [doc : Document, file : Request]
  <2>1. mem.goal \in Goals
    BY DEF FlowInv, TypeOK, Request
  <2> QED
    BY <2>1, NothingLoadedType DEF Restart
<1>3. apart' \in SUBSET {"error", "crash", "reload"}
  BY DEF Restart, HalfRevised, FlowInv, TypeOK
<1>4. TypeOK'
  BY <1>1, <1>2, <1>3, CriteriaAssumption DEF FlowInv, TypeOK, PCs
<1> QED
  BY <1>1, <1>4 DEF FlowInv, MarksListed, RunKnowsAll, LoadedDone, InStep, DoneCompletesAll, Running

(* So does a step that changes nothing.                                    *)
LEMMA StutterKeeps == FlowInv /\ UNCHANGED vars => FlowInv'
<1> SUFFICES ASSUME FlowInv, UNCHANGED vars PROVE FlowInv'
  OBVIOUS
<1>1. UNCHANGED <<doc, file, mem, det, pc, run, hpc, loaded, notes, revisions, restarts, lost, apart>>
  BY DEF vars, sessionVars, runVars, noteVars, historyVars
<1>2. TypeOK'
  BY <1>1 DEF FlowInv, TypeOK
<1> QED
  BY <1>1, <1>2 DEF FlowInv, MarksListed, RunKnowsAll, LoadedDone, InStep, DoneCompletesAll

(* The inductive invariant is one.                                         *)
LEMMA FlowInvariant == Spec => []FlowInv
<1>1. FlowInv /\ [Next]_vars => FlowInv'
  BY BeginRunKeeps, GoalRevisedKeeps, GoalKeptKeeps, WriteGeminiKeeps, DecideKeeps, CodexAnswersKeeps,
     NoVerdictKeeps, EndRunKeeps, RunRaisesKeeps, LoadForNoteKeeps, SaveNoteKeeps, NoteStoredKeeps,
     RestartKeeps, StutterKeeps DEF Next
<1> QED
  BY FlowInit, <1>1, PTL DEF Spec

(* For any goals and bounds, document, request, memory, run and note have  *)
(* their types.                                                            *)
THEOREM FlowTypes == Spec => []TypeOK
<1>1. FlowInv => TypeOK
  BY DEF FlowInv
<1> QED
  BY FlowInvariant, <1>1, PTL

(* For any goals and bounds, whatever Gemini and Codex answer: a completed *)
(* session has no criterion left that is not checked off, after any notes, *)
(* errors and restarts, unless a note has put back an earlier goal.        *)
THEOREM DoneIsComplete == Spec => []DoneCompletesAll
<1>1. FlowInv => DoneCompletesAll
  BY DEF FlowInv
<1> QED
  BY FlowInvariant, <1>1, PTL

(* For any goals and bounds, what the run has collected when it ends is    *)
(* what the document has checked off, unless a note has put something back.*)
THEOREM ReportIsTrue == Spec => []ReportMatchesDocument
<1>1. FlowInv => ReportMatchesDocument
  BY DEF FlowInv, InStep, ReportMatchesDocument
<1> QED
  BY FlowInvariant, <1>1, PTL

-----------------------------------------------------------------------------
(* What is checked off stays checked off.                                  *)

MarksStay == (pc = "write" /\ run.changed) \/ "marks" \in lost' \/ doc.done \subseteq doc'.done

(* Checking criteria off takes no mark back from a document all of whose   *)
(* marks are at listed criteria.                                           *)
LEMMA CheckedKeepsMarks ==
    ASSUME NEW d \in Document, d.done \subseteq d.accept, NEW acc \in SUBSET Criteria, NEW comp
    PROVE  d.done \subseteq Checked(d, acc, comp).done
<1>1. Checked(d, acc, comp).done = (d.done \cup comp) \cap (d.accept \cup acc)
  BY CheckedKeeps
<1> QED
  BY <1>1

(* No step takes a mark back, unless it writes a revision or is a note     *)
(* that overwrites marks.                                                  *)
LEMMA StepKeepsMarks == FlowInv /\ [Next]_vars => MarksStay
<1> SUFFICES ASSUME FlowInv, [Next]_vars PROVE MarksStay
  OBVIOUS
<1>1. doc \in Document /\ doc.done \subseteq doc.accept
  BY DEF FlowInv, TypeOK, MarksListed
<1>2. CASE UNCHANGED doc
  BY <1>2 DEF MarksStay
<1>3. CASE \E st \in Statuses : doc' = [doc EXCEPT !.status = st]
  BY <1>1, <1>3, StatusKeeps DEF MarksStay
<1>4. CASE WriteGemini /\ ~run.changed
  <2>1. /\ Reopened \in Document /\ Reopened.accept = doc.accept /\ Reopened.done = doc.done
        /\ run.resolved \in SUBSET Criteria
    BY DEF Reopened, FlowInv, TypeOK, Document, Run, Statuses
  <2>2. doc' = Checked(Reopened, run.resolved, run.completed)
    BY <1>4 DEF WriteGemini
  <2> DEFINE acc == run.resolved  comp == run.completed
  <2>3. acc \in SUBSET Criteria /\ doc' = Checked(Reopened, acc, comp)
    BY <2>1, <2>2
  <2> HIDE DEF acc, comp
  <2>4. Reopened.done \subseteq doc'.done
    BY <1>1, <2>1, <2>3, CheckedKeepsMarks
  <2> QED
    BY <2>1, <2>4 DEF MarksStay
<1>5. CASE Decide
  <2> DEFINE acc == run.resolved  comp == ForDone(run.resolved, run.completed)
             checked == Checked(doc, acc, comp)
  <2>1. acc \in SUBSET Criteria
    BY DEF FlowInv, TypeOK, Run
  <2>2. doc' = [checked EXCEPT !.status = "completed"] \/ \E st \in Statuses : doc' = [doc EXCEPT !.status = st]
    BY <1>5 DEF Decide, Statuses
  <2>3. checked = Checked(doc, acc, comp)
    OBVIOUS
  <2> HIDE DEF acc, comp, checked
  <2>4. checked \in Document
    BY <1>1, <2>1, <2>3, CheckedKeeps
  <2>5. doc.done \subseteq checked.done
    BY <1>1, <2>1, <2>3, CheckedKeepsMarks
  <2>6. "completed" \in Statuses
    BY DEF Statuses
  <2>7. CASE doc' = [checked EXCEPT !.status = "completed"]
    <3>1. doc'.done = checked.done
      BY <2>4, <2>6, <2>7, StatusKeeps
    <3> QED
      BY <2>5, <3>1 DEF MarksStay
  <2> QED
    BY <1>3, <2>2, <2>7
<1>6. CASE CodexAnswers
  <2>1. PICK known : doc' = Checked(doc, {}, known)
    BY <1>6 DEF CodexAnswers
  <2> DEFINE none == {}
  <2>2. none \in SUBSET Criteria /\ doc' = Checked(doc, none, known)
    BY <2>1
  <2> HIDE DEF none
  <2> QED
    BY <1>1, <2>2, CheckedKeepsMarks DEF MarksStay
<1>7. CASE SaveNote
  <2>1. doc' = loaded.doc
    BY <1>7 DEF SaveNote
  <2> QED
    BY <1>7, <2>1, SaveNoteLeaves DEF FlowInv, MarksStay
<1>8. CASE GoalRevised \/ GoalKept \/ EndRun \/ LoadForNote \/ NoteStored \/ Restart \/ UNCHANGED vars
  BY <1>2, <1>8 DEF GoalRevised, GoalKept, EndRun, LoadForNote, NoteStored, Restart, vars, sessionVars
<1>9. CASE BeginRun \/ NoVerdict \/ RunRaises
  BY <1>3, <1>9 DEF BeginRun, NoVerdict, RunRaises, Statuses
<1>10. CASE WriteGemini /\ run.changed
  BY <1>10 DEF WriteGemini, MarksStay
<1> QED
  BY <1>4, <1>5, <1>6, <1>7, <1>8, <1>9, <1>10 DEF Next

(* For any goals and bounds: what has been checked off stays so, whatever  *)
(* Gemini and Codex answer, unless the goal is being revised or a note has *)
(* put back an earlier document.                                           *)
THEOREM CheckedOffStays == Spec => CompletedStays
<1>1. FlowInv /\ [Next]_vars =>
        [(pc = "write" /\ run.changed) \/ "marks" \in lost' \/ doc.done \subseteq doc'.done]_vars
  BY StepKeepsMarks DEF MarksStay
<1> QED
  BY FlowInvariant, <1>1, PTL DEF Spec, CompletedStays
-----------------------------------------------------------------------------
(* A revision leaves nothing of the earlier goal.                          *)

Own(cs, g) == \A c \in cs : c.goal = g

Revising == pc = "write" /\ run.changed

(* While nothing has put files and memory at odds, everything belongs to   *)
(* the goal it is kept with, and only a revision under way has a goal that *)
(* the document has not.                                                   *)
OwnInv ==
    "goal" \notin lost /\ apart = {} =>
        /\ Own(doc.accept, doc.goal) /\ Own(det.accept, doc.goal) /\ Own(mem.accept, mem.goal)
        /\ ~Revising => mem.goal = doc.goal
        /\ Revising => run.goal = mem.goal
        /\ pc = "write" => run.goal \in {"none", mem.goal} /\ Own(run.resolved, mem.goal)
        /\ pc = "decide" => Own(run.resolved, doc.goal)

(* Sets of criteria of one goal are closed under union.                    *)
LEMMA OwnUnion ==
    ASSUME NEW A, NEW B, NEW g, Own(A, g), Own(B, g)
    PROVE  Own(A \cup B, g)
  BY DEF Own

(* Criteria Gemini names for a goal, and derived ones, are its own.        *)
LEMMA CriteriaAreOwn ==
    ASSUME NEW g \in Goals, NEW acc \in SUBSET CriteriaOf(g)
    PROVE  Own(acc, g) /\ Own(Derived(g), g)
  BY DEF Own, CriteriaOf, Derived

(* The initial states satisfy the invariant.                               *)
LEMMA OwnInit == Init => OwnInv
<1> SUFFICES ASSUME Init PROVE OwnInv
  OBVIOUS
<1>1. PICK g \in Goals, acc \in SUBSET Criteria :
           /\ doc = [goal |-> g, accept |-> acc, done |-> {}, status |-> "open"]
           /\ mem = [goal |-> g, accept |-> acc]
           /\ det = Content(doc)
           /\ Own(acc, g)
  <2>1. PICK g \in Goals : \E acc \in SUBSET CriteriaOf(g) :
           /\ doc = [goal |-> g, accept |-> acc, done |-> {}, status |-> "open"]
           /\ file = [goal |-> g, accept |-> acc]
           /\ mem = file
           /\ det = Content(doc)
    BY DEF Init
  <2>2. CriteriaOf(g) \subseteq Criteria
    BY SubsetOfCriteria
  <2> QED
    BY <2>1, <2>2, CriteriaAreOwn
<1>2. doc.accept = acc /\ doc.goal = g /\ det.accept = acc /\ mem.accept = acc /\ mem.goal = g
  BY <1>1 DEF Content
<1> QED
  BY <1>1, <1>2 DEF Init, OwnInv, Revising

(* A step of the run that changes status or marks of the document only.    *)
LEMMA OwnSameCriteria ==
    ASSUME FlowInv, OwnInv, ~Revising, ~Revising', pc' \notin {"write", "decide"},
           lost' = lost, apart' = apart, mem' = mem,
           doc'.goal = doc.goal, doc'.accept = doc.accept,
           det' = det \/ det'.accept = doc.accept
    PROVE  OwnInv'
  BY DEF OwnInv, Own

(* A revised goal comes with its own criteria.                             *)
LEMMA GoalRevisedOwn == FlowInv /\ OwnInv /\ GoalRevised => OwnInv'
<1> SUFFICES ASSUME FlowInv, OwnInv, GoalRevised PROVE OwnInv'
  OBVIOUS
<1>a. PICK g \in Goals \ {mem.goal} :
        \E acc \in SUBSET CriteriaOf(g), comp \in SUBSET Criteria, v \in Verdicts :
          /\ mem' = [goal |-> g, accept |-> OrDerived(acc, g)]
          /\ run' = [run EXCEPT !.resolved = OrDerived(acc, g), !.verdict = v, !.goal = g, !.changed = TRUE,
                                !.completed = Filter(comp, OrDerived(acc, g))]
  BY DEF GoalRevised
<1>1. PICK acc \in SUBSET CriteriaOf(g), comp \in SUBSET Criteria, v \in Verdicts :
          /\ mem' = [goal |-> g, accept |-> OrDerived(acc, g)]
          /\ run' = [run EXCEPT !.resolved = OrDerived(acc, g), !.verdict = v, !.goal = g, !.changed = TRUE,
                                !.completed = Filter(comp, OrDerived(acc, g))]
  BY <1>a
<1>2. Own(OrDerived(acc, g), g)
  BY CriteriaAreOwn DEF OrDerived
<1>3. run'.resolved = OrDerived(acc, g) /\ run'.goal = g /\ run'.changed = TRUE
  BY <1>1 DEF FlowInv, TypeOK, Run
<1>4. mem'.goal = g /\ mem'.accept = OrDerived(acc, g)
  BY <1>1
<1>5. pc = "gemini" /\ pc' = "write" /\ UNCHANGED <<doc, det, lost, apart>>
  BY DEF GoalRevised, NoteUnchanged, historyVars
<1> QED
  BY <1>2, <1>3, <1>4, <1>5 DEF OwnInv, Revising

(* An answer that keeps the goal brings only criteria of that goal.        *)
LEMMA GoalKeptOwn == FlowInv /\ OwnInv /\ GoalKept => OwnInv'
<1> SUFFICES ASSUME FlowInv, OwnInv, GoalKept, "goal" \notin lost', apart' = {} PROVE OwnInv'
  BY DEF OwnInv
<1>1. PICK acc \in SUBSET CriteriaOf(mem.goal), comp \in SUBSET Criteria, v \in Verdicts,
          g \in {"none", mem.goal} :
          LET resolved == OrDerived(det.accept \cup mem.accept \cup acc, mem.goal)
          IN  /\ mem' = [mem EXCEPT !.accept = resolved]
              /\ run' = [run EXCEPT !.resolved = resolved, !.verdict = v, !.goal = g, !.changed = FALSE,
                                    !.completed = Filter(run.completed \cup comp, resolved)]
  BY DEF GoalKept
<1> DEFINE resolved == OrDerived(det.accept \cup mem.accept \cup acc, mem.goal)
<1>2. pc = "gemini" /\ pc' = "write" /\ UNCHANGED <<doc, det, lost, apart>>
  BY DEF GoalKept, NoteUnchanged, historyVars
<1>3. Own(det.accept, mem.goal) /\ Own(mem.accept, mem.goal) /\ mem.goal = doc.goal
  BY <1>2 DEF OwnInv, Revising
<1>4. Own(resolved, mem.goal)
  <2>1. mem.goal \in Goals
    BY DEF FlowInv, TypeOK, Request
  <2>2. Own(det.accept \cup mem.accept \cup acc, mem.goal)
    BY <1>3, <2>1, CriteriaAreOwn, OwnUnion
  <2> QED
    BY <2>1, <2>2, CriteriaAreOwn DEF OrDerived
<1> HIDE DEF resolved
<1>5. /\ mem' = [mem EXCEPT !.accept = resolved]
      /\ run' = [run EXCEPT !.resolved = resolved, !.verdict = v, !.goal = g, !.changed = FALSE,
                            !.completed = Filter(run.completed \cup comp, resolved)]
  BY <1>1 DEF resolved
<1>6. run'.resolved = resolved /\ run'.goal = g /\ run'.changed = FALSE
  BY <1>5 DEF FlowInv, TypeOK, Run
<1>7. mem'.goal = mem.goal /\ mem'.accept = resolved
  BY <1>5 DEF FlowInv, TypeOK, Request
<1> QED
  BY <1>2, <1>3, <1>4, <1>6, <1>7 DEF OwnInv, Revising

(* Writing the answer brings the document to the goal of the request.      *)
LEMMA WriteGeminiOwn == FlowInv /\ OwnInv /\ WriteGemini => OwnInv'
<1> SUFFICES ASSUME FlowInv, OwnInv, WriteGemini, "goal" \notin lost', apart' = {} PROVE OwnInv'
  BY DEF OwnInv
<1>1. /\ pc = "write" /\ pc' = "decide" /\ UNCHANGED <<mem, run, lost, apart>>
      /\ run.resolved \in SUBSET Criteria /\ run.completed \in SUBSET Criteria
  BY DEF WriteGemini, NoteUnchanged, historyVars, FlowInv, TypeOK, Run
<1>2. /\ Own(run.resolved, mem.goal) /\ Own(doc.accept, doc.goal) /\ Own(mem.accept, mem.goal)
      /\ run.changed => run.goal = mem.goal
      /\ ~run.changed => mem.goal = doc.goal /\ run.goal \in {"none", mem.goal}
  BY <1>1 DEF OwnInv, Revising
<1>3. /\ Reopened \in Document /\ Reopened.accept = doc.accept
      /\ Reopened.goal = IF run.goal = "none" THEN doc.goal ELSE run.goal
  BY DEF Reopened, FlowInv, TypeOK, Document, Run, Statuses
<1>4. mem.goal \in Goals /\ "none" \notin Goals
  BY CriteriaAssumption DEF FlowInv, TypeOK, Request
<1>5. doc'.goal = mem.goal /\ Own(doc'.accept, mem.goal)
  <2>1. CASE run.changed
    <3>1. doc' = [Reopened EXCEPT !.accept = run.resolved, !.done = run.completed]
      BY <2>1 DEF WriteGemini
    <3>2. doc'.goal = Reopened.goal /\ doc'.accept = run.resolved
      BY <1>3, <3>1 DEF Document
    <3> QED
      BY <1>2, <1>3, <1>4, <2>1, <3>2
  <2>2. CASE ~run.changed
    <3> DEFINE acc == run.resolved  comp == run.completed  checked == Checked(Reopened, acc, comp)
    <3>1. acc \in SUBSET Criteria /\ doc' = checked /\ checked = Checked(Reopened, acc, comp)
      BY <1>1, <2>2 DEF WriteGemini
    <3>2. Own(acc, mem.goal)
      BY <1>2
    <3> HIDE DEF acc, comp, checked
    <3>3. checked.goal = Reopened.goal
      BY <1>3, <3>1, CheckedGoal
    <3>4. checked.accept = Reopened.accept \cup acc
      BY <1>3, <3>1, CheckedAccept
    <3>5. mem.goal = doc.goal /\ Reopened.goal = mem.goal
      BY <1>2, <1>3, <2>2
    <3> QED
      BY <1>2, <1>3, <3>1, <3>2, <3>3, <3>4, <3>5, OwnUnion
  <2> QED
    BY <2>1, <2>2
<1>6. det'.accept = doc'.accept
  BY DEF WriteGemini, Refreshed, Content
<1> QED
  BY <1>1, <1>2, <1>5, <1>6 DEF OwnInv, Revising

(* Acting on the verdict keeps them together.                              *)
LEMMA DecideOwn == FlowInv /\ OwnInv /\ Decide => OwnInv'
<1> SUFFICES ASSUME FlowInv, OwnInv, Decide, "goal" \notin lost', apart' = {} PROVE OwnInv'
  BY DEF OwnInv
<1>1. /\ pc = "decide" /\ pc' \in {"end", "codex"} /\ UNCHANGED <<mem, det, lost, apart>>
      /\ doc \in Document
  BY DEF Decide, NoteUnchanged, historyVars, FlowInv, TypeOK
<1>2. /\ Own(run.resolved, doc.goal) /\ Own(doc.accept, doc.goal) /\ Own(mem.accept, mem.goal)
      /\ Own(det.accept, doc.goal) /\ mem.goal = doc.goal
  BY <1>1 DEF OwnInv, Revising
<1> DEFINE acc == run.resolved  comp == ForDone(run.resolved, run.completed)
           checked == Checked(doc, acc, comp)
<1>3. /\ doc' = [checked EXCEPT !.status = "completed"] \/ \E st \in Statuses : doc' = [doc EXCEPT !.status = st]
      /\ acc \in SUBSET Criteria /\ checked = Checked(doc, acc, comp) /\ Own(acc, doc.goal)
  BY <1>2 DEF Decide, Statuses, FlowInv, TypeOK, Run
<1> HIDE DEF acc, comp, checked
<1>4. checked \in Document /\ checked.accept = doc.accept \cup acc
  BY <1>1, <1>3, CheckedAccept
<1>5. checked.goal = doc.goal
  BY <1>1, <1>3, CheckedGoal
<1>6. doc'.goal = doc.goal /\ Own(doc'.accept, doc.goal)
  <2>1. CASE doc' = [checked EXCEPT !.status = "completed"]
    <3>1. doc'.goal = checked.goal /\ doc'.accept = checked.accept
      BY <1>4, <2>1 DEF Document
    <3> QED
      BY <1>2, <1>3, <1>4, <1>5, <3>1, OwnUnion
  <2>2. CASE \E st \in Statuses : doc' = [doc EXCEPT !.status = st]
    BY <1>1, <1>2, <2>2, StatusKeeps
  <2> QED
    BY <1>3, <2>1, <2>2
<1> QED
  BY <1>1, <1>2, <1>6 DEF OwnInv, Revising

(* A result of Codex keeps goal and criteria together.                     *)
LEMMA CodexAnswersOwn == FlowInv /\ OwnInv /\ CodexAnswers => OwnInv'
<1> SUFFICES ASSUME FlowInv, OwnInv, CodexAnswers PROVE OwnInv'
  OBVIOUS
<1>1. PICK known : doc' = Checked(doc, {}, known)
  BY DEF CodexAnswers
<1> DEFINE none == {}  checked == Checked(doc, none, known)
<1>2. /\ none \in SUBSET Criteria /\ doc' = checked /\ checked = Checked(doc, none, known)
      /\ doc.accept \cup none = doc.accept /\ doc \in Document
  BY <1>1 DEF FlowInv, TypeOK
<1> HIDE DEF none, checked
<1>3. checked.accept = doc.accept \cup none
  BY <1>2, CheckedAccept
<1>4. checked.goal = doc.goal
  BY <1>2, CheckedGoal
<1>5. doc'.goal = doc.goal /\ doc'.accept = doc.accept
  BY <1>2, <1>3, <1>4
<1>6. /\ pc = "codex" /\ pc' \in {"gemini", "over"} /\ det'.accept = doc'.accept
      /\ UNCHANGED <<mem, lost, apart>>
  BY DEF CodexAnswers, Refreshed, Content, NoteUnchanged, historyVars
<1> QED
  BY <1>5, <1>6, OwnSameCriteria DEF Revising

(* BeginRun, NoVerdict, EndRun and RunRaises change the status at most.    *)
LEMMA StatusStepOwn ==
    FlowInv /\ OwnInv /\ (BeginRun \/ NoVerdict \/ EndRun \/ RunRaises) => OwnInv'
<1> SUFFICES ASSUME FlowInv, OwnInv, BeginRun \/ NoVerdict \/ EndRun \/ RunRaises,
                    "goal" \notin lost', apart' = {} PROVE OwnInv'
  BY DEF OwnInv
<1>1. doc' = doc \/ \E st \in Statuses : doc' = [doc EXCEPT !.status = st]
  BY DEF BeginRun, NoVerdict, EndRun, RunRaises, Statuses
<1>2. doc'.goal = doc.goal /\ doc'.accept = doc.accept
  <2>1. doc \in Document
    BY DEF FlowInv, TypeOK
  <2>2. CASE \E st \in Statuses : doc' = [doc EXCEPT !.status = st]
    <3>1. PICK st \in Statuses : doc' = [doc EXCEPT !.status = st]
      BY <2>2
    <3> QED
      BY <2>1, <3>1 DEF Document
  <2> QED
    BY <1>1, <2>2
<1>3. /\ pc' \in {"gemini", "end", "idle"} /\ lost' = lost /\ mem' = mem /\ apart' = apart /\ ~Revising
      /\ det' = det \/ det'.accept = doc.accept
  BY <1>2 DEF BeginRun, NoVerdict, EndRun, RunRaises, Refreshed, Content, NoteUnchanged, historyVars, Revising
<1> QED
  BY <1>2, <1>3, OwnSameCriteria DEF Revising

(* A note keeps them together unless one of the named accidents has        *)
(* A note keeps them together, or it has put back an earlier goal.         *)
LEMMA NoteOwn == FlowInv /\ OwnInv /\ (LoadForNote \/ SaveNote \/ NoteStored) => OwnInv'
<1> SUFFICES ASSUME FlowInv, OwnInv, LoadForNote \/ SaveNote \/ NoteStored,
                    "goal" \notin lost', apart' = {} PROVE OwnInv'
  BY DEF OwnInv
<1>1. CASE LoadForNote
  BY <1>1 DEF LoadForNote, sessionVars, runVars, historyVars, OwnInv, Revising
<1>2. CASE SaveNote
  <2>1. UNCHANGED <<mem, det, pc, run, apart>> /\ doc' = loaded.doc
    BY <1>2 DEF SaveNote, runVars
  <2>2. /\ "goal" \notin lost /\ loaded.doc.accept \subseteq doc.accept
        /\ loaded.doc.goal = doc.goal
    BY <1>2 DEF SaveNote, Overwritten
  <2> QED
    BY <2>1, <2>2 DEF OwnInv, Revising, Own
<1>3. CASE NoteStored
  <2>1. /\ UNCHANGED <<doc, mem, run, lost, apart>> /\ det'.accept = doc.accept
        /\ pc' = IF pc = "idle" THEN "begin" ELSE pc
    BY <1>3 DEF NoteStored, Content, historyVars
  <2> QED
    BY <2>1 DEF OwnInv, Revising
<1> QED
  BY <1>1, <1>2, <1>3

(* A restart keeps them together, or it has found half a revision.         *)
LEMMA RestartOwn == FlowInv /\ OwnInv /\ Restart => OwnInv'
<1> SUFFICES ASSUME FlowInv, OwnInv, Restart, "goal" \notin lost', apart' = {} PROVE OwnInv'
  BY DEF OwnInv
<1>1. /\ pc' = "idle" /\ mem' = file /\ doc' = doc /\ det'.accept = doc.accept
      /\ lost' = lost /\ apart' = apart \cup HalfRevised
  BY DEF Restart, Content
<1>2. file.goal = doc.goal /\ \A c \in file.accept \cup doc.accept : c.goal = file.goal
  BY <1>1 DEF HalfRevised
<1> QED
  BY <1>1, <1>2 DEF OwnInv, Revising, Own

(* The invariant holds throughout.                                         *)
LEMMA OwnInvariant == Spec => []OwnInv
<1>1. OwnInv /\ UNCHANGED vars => OwnInv'
  BY DEF OwnInv, Revising, vars, sessionVars, runVars, historyVars
<1>2. FlowInv /\ OwnInv /\ [Next]_vars => OwnInv'
  BY <1>1, GoalRevisedOwn, GoalKeptOwn, WriteGeminiOwn, DecideOwn, CodexAnswersOwn, StatusStepOwn,
     NoteOwn, RestartOwn DEF Next
<1> QED
  BY OwnInit, FlowInvariant, <1>2, PTL DEF Spec

(* For any goals and bounds, whatever Gemini and Codex answer: the         *)
(* document lists no criterion of another goal, unless a note has put back *)
(* an earlier goal, an error has stopped a revision half way or a restart  *)
(* has found files that disagree.                                          *)
THEOREM RevisionIsComplete == Spec => []RevisionReplaces
<1>1. OwnInv => RevisionReplaces
  BY DEF OwnInv, RevisionReplaces, OwnCriteria, Own
<1> QED
  BY OwnInvariant, <1>1, PTL
=============================================================================
