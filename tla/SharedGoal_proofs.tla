--------------------------- MODULE SharedGoal_proofs ---------------------------
(***************************************************************************)
(* Proofs about SharedGoal, for any number of sessions, conversations,     *)
(* notes and callers.                                                      *)
(***************************************************************************)
EXTENDS SharedGoal, TLAPS

-----------------------------------------------------------------------------
(* Types.  One lemma for each way the state of the service changes; the    *)
(* modules that build on the service cite them too.                        *)

(* Entering any method with well typed arguments keeps the types.          *)
LEMMA EnterType ==
    ASSUME SharedTypeOK, NEW a \in Actors, NEW m \in Methods, NEW s \in Sessions,
           NEW st \in Status, NEW ns \in SUBSET Notes, Enter(a, m, s, st, ns)
    PROVE  SharedTypeOK'
<1> DEFINE c == [stage |-> IF m = "read" THEN "return" ELSE "save", method |-> m,
                 sid |-> s, status |-> st, notes |-> ns,
                 buf |-> IF m = "create" THEN NoDoc ELSE doc[s],
                 rbuf |-> IF m = "update_input" THEN req[s] ELSE {}]
<1>1. c \in Call
  BY DEF Call, Stages, SharedTypeOK, NoDoc, Document
<1>2. call' = [call EXCEPT ![a] = c] /\ UNCHANGED <<doc, req, active>>
  BY DEF Enter
<1> QED
  BY <1>1, <1>2 DEF SharedTypeOK

(* A document saved by a method, and the call moving on, keep their types. *)
LEMMA StoreType ==
    ASSUME SharedTypeOK, NEW a \in Actors, NEW d \in Document,
           NEW next \in Stages, Store(a, d, next)
    PROVE  doc' \in [Sessions -> Document] /\ active' = active /\ call' \in [Actors -> Call]
<1>1. NoCall \in Call
  BY DEF NoCall, Call, Stages, Methods, NoSession, Status, InProgress, NoDoc, Document
<1>2. [call[a] EXCEPT !.stage = next, !.buf = NoDoc, !.rbuf = {}] \in Call
  BY DEF SharedTypeOK, Call, NoDoc, Document
<1> QED
  BY <1>1, <1>2 DEF SharedTypeOK, Store

(* Every stage of every method but the loading keeps the types.            *)
LEMMA ProgressType ==
    ASSUME SharedTypeOK, NEW a \in Actors, Progress(a)
    PROVE  SharedTypeOK'
<1>0. /\ call[a] \in Call /\ call[a].buf \in Document /\ call[a].status \in Status
      /\ call[a].sid \in Sessions \cup {NoSession}
      /\ call[a].notes \in SUBSET Notes /\ call[a].rbuf \in SUBSET Notes
      /\ call[a].buf.notes \in SUBSET Notes
  BY DEF SharedTypeOK, Call, Document
<1>1. /\ WithStatus(a) \in Document
      /\ AfterStatus(a) \in Stages
  BY <1>0 DEF WithStatus, AfterStatus, Document, Stages
<1>2. NoCall \in Call
  BY DEF NoCall, Call, Stages, Methods, NoSession, Status, InProgress, NoDoc, Document
<1>3. CASE SetVerdict(a)
  BY <1>1, <1>3, StoreType DEF SetVerdict, SharedTypeOK
<1>4. CASE WriteGemini(a)
  BY <1>1, <1>4, StoreType DEF WriteGemini, SharedTypeOK
<1>5. CASE WriteCodex(a)
  BY <1>0, <1>5, StoreType DEF WriteCodex, SharedTypeOK, Stages
<1>6. CASE UpdateUserInput(a)
  <2> DEFINE merged == call[a].buf.notes \cup call[a].notes
  <2>1. [call[a].buf EXCEPT !.notes = merged] \in Document
    BY <1>0 DEF Document
  <2>2. Store(a, [call[a].buf EXCEPT !.notes = merged], "none")
    BY <1>6 DEF UpdateUserInput
  <2>3. doc' \in [Sessions -> Document] /\ active' = active /\ call' \in [Actors -> Call]
    <3> HIDE DEF merged
    <3> QED BY <2>1, <2>2, StoreType DEF Stages
  <2>4. req' \in [Sessions -> SUBSET Notes]
    BY <1>0, <1>6 DEF UpdateUserInput, SharedTypeOK
  <2> QED BY <2>3, <2>4 DEF SharedTypeOK
<1>7. CASE MarkSuperseded(a)
  <2>1. [call[a].buf EXCEPT !.status = "canceled"] \in Document
    BY <1>0 DEF Document, Status, Terminal
  <2> QED BY <1>7, <2>1, StoreType DEF MarkSuperseded, SharedTypeOK, Stages
<1>8. CASE CreateDocument(a)
  <2>1. [status |-> "planning", notes |-> {}] \in Document
    BY DEF Document, Status, InProgress
  <2>2. doc' \in [Sessions -> Document] /\ active' = active /\ call' \in [Actors -> Call]
    BY <1>8, <2>1, StoreType DEF CreateDocument, Stages
  <2> QED BY <1>8, <2>2 DEF CreateDocument, SharedTypeOK
<1>9. CASE Pop(a)
  BY <1>2, <1>9 DEF Pop, Unmapped, SharedTypeOK
<1>10. CASE Activate(a)
  BY <1>0, <1>2, <1>10 DEF Activate, SharedTypeOK
<1> QED
  BY <1>3, <1>4, <1>5, <1>6, <1>7, <1>8, <1>9, <1>10 DEF Progress

(* Handing the copy to the caller keeps the types.                         *)
LEMMA ReturnType ==
    ASSUME SharedTypeOK, NEW a \in Actors, Return(a)
    PROVE  SharedTypeOK'
<1>1. NoCall \in Call
  BY DEF NoCall, Call, Stages, Methods, NoSession, Status, InProgress, NoDoc, Document
<1> QED
  BY <1>1 DEF Return, SharedTypeOK

(* The initial files and callers are well typed.                           *)
LEMMA SharedInitType == SharedInit => SharedTypeOK
<1>1. NoCall \in Call
  BY DEF NoCall, Call, Stages, Methods, NoSession, Status, InProgress, NoDoc, Document
<1> QED
  BY <1>1 DEF SharedInit, SharedTypeOK, Document, NoDoc

(* Every step of the service keeps the types.                              *)
LEMMA SharedNextType == SharedTypeOK /\ [SharedNext]_sharedVars => SharedTypeOK'
<1> SUFFICES ASSUME SharedTypeOK, [SharedNext]_sharedVars PROVE SharedTypeOK'
  OBVIOUS
<1>1. ASSUME NEW a \in Actors, EnterCreate(a) PROVE SharedTypeOK'
  BY <1>1, EnterType DEF EnterCreate, Methods, Status, InProgress
<1>2. ASSUME NEW a \in Actors, EnterMethod(a) PROVE SharedTypeOK'
  <2>1. "planning" \in Status /\ {} \in SUBSET Notes
    BY DEF Status, InProgress
  <2>2. PICK s \in Sessions :
           \/ \E m \in {"set_verdict", "write_gemini"}, st \in Status : Enter(a, m, s, st, {})
           \/ \E ns \in SUBSET Notes : Enter(a, "update_input", s, "planning", ns)
           \/ \E m \in {"write_codex", "supersede", "read"} : Enter(a, m, s, "planning", {})
    BY <1>2 DEF EnterMethod
  <2> QED BY <2>1, <2>2, EnterType DEF Methods
<1>3. ASSUME NEW a \in Actors, Progress(a) PROVE SharedTypeOK'
  BY <1>3, ProgressType
<1>4. ASSUME NEW a \in Actors, Return(a) PROVE SharedTypeOK'
  BY <1>4, ReturnType
<1>5. CASE Direct
  BY <1>5 DEF Direct, SaveRequest, ClearActive, Unmapped, SharedTypeOK
<1>6. CASE UNCHANGED sharedVars
  BY <1>6 DEF sharedVars, SharedTypeOK
<1> QED
  BY <1>1, <1>2, <1>3, <1>4, <1>5, <1>6 DEF SharedNext

(* The session files always hold well formed documents, requests and an    *)
(* active map that names sessions, whoever calls the service in any order. *)
THEOREM SharedTypes == SharedSpec => []SharedTypeOK
<1>1. SharedInit => SharedTypeOK
  BY SharedInitType
<1>2. SharedTypeOK /\ [SharedNext]_sharedVars => SharedTypeOK'
  BY SharedNextType
<1> QED
  BY <1>1, <1>2, PTL DEF SharedSpec
-----------------------------------------------------------------------------
(* No finished session stays active.  The formula is not inductive: a      *)
(* writer that keeps the status it loaded (write_codex, update_input) may  *)
(* store a terminal status long after the document left it, and a creation *)
(* in flight sets the active entry.                                        *)

(* A call that has begun names a session; its stages fit its method.       *)
CallShape ==
    \A a \in Actors :
        /\ ~Idle(a) => call[a].sid \in Sessions
        /\ call[a].stage = "activate" => call[a].method = "create"

(* A creation is the only call on its session, whose document is still to  *)
(* be written or has just been.                                            *)
CreationAlone ==
    \A a \in Actors :
        ~Idle(a) /\ call[a].method = "create" =>
            /\ \A b \in CallsOn(call[a].sid) : b = a
            /\ call[a].stage = "save" => doc[call[a].sid].status = "absent"
            /\ call[a].stage = "activate" => doc[call[a].sid].status = "planning"

(* A terminal status that some call still holds is no more dangerous than  *)
(* one in the document.                                                    *)
LoadedLeavesMap ==
    \A a \in Actors, s \in Sessions :
        /\ call[a].stage = "save" /\ call[a].sid = s
        /\ call[a].buf.status \in Terminal
        /\ active[ConvOf[s]] = s
        => PopPending(s)

MapInv == SharedTypeOK /\ CallShape /\ CreationAlone /\ LoadedLeavesMap /\ TerminalLeavesMap

(* An entry still to be cleared stays so while another caller moves.       *)
LEMMA PopStays ==
    ASSUME NEW a \in Actors, NEW s \in Sessions, call[a].stage # "pop",
           \A b \in Actors : b # a => call'[b] = call[b], PopPending(s)
    PROVE  PopPending(s)'
  BY DEF PopPending

(* Entering a method, under the conditions its callers meet.               *)
LEMMA EnterMap ==
    ASSUME MapInv, NEW a \in Actors, NEW m \in Methods, NEW s \in Sessions,
           NEW st \in Status, NEW ns \in SUBSET Notes, Enter(a, m, s, st, ns),
           m = "create" => ~Exists(s) /\ CallsOn(s) = {},
           m # "create" => \A b \in CallsOn(s) : call[b].method # "create"
    PROVE  MapInv'
<1>0. SharedTypeOK'
  BY EnterType DEF MapInv
<1>1. /\ UNCHANGED <<doc, req, active>>
      /\ Idle(a) /\ call[a].stage = "none"
      /\ call'[a].stage \in {"save", "return"}
      /\ call'[a].method = m /\ call'[a].sid = s
      /\ call'[a].buf = IF m = "create" THEN NoDoc ELSE doc[s]
      /\ \A b \in Actors : b # a => call'[b] = call[b]
  BY DEF Enter, Idle, MapInv, SharedTypeOK
<1>2. \A r \in Sessions : PopPending(r) => PopPending(r)'
  BY <1>1, PopStays
<1>3. CallShape'
  BY <1>1 DEF MapInv, CallShape, Idle
<1>4. CreationAlone'
  <2> SUFFICES ASSUME NEW b \in Actors, ~Idle(b)', call'[b].method = "create"
               PROVE  /\ \A c \in CallsOn(call[b].sid)' : c = b
                      /\ call'[b].stage = "save" => doc'[call'[b].sid].status = "absent"
                      /\ call'[b].stage = "activate" => doc'[call'[b].sid].status = "planning"
    BY DEF CreationAlone
  <2>1. CASE b = a
    <3>1. m = "create" /\ CallsOn(s) = {} /\ ~Exists(s)
      BY <1>1, <2>1
    <3>2. \A c \in CallsOn(call[b].sid)' : c = b
      BY <1>1, <2>1, <3>1 DEF CallsOn, Idle
    <3> QED BY <1>1, <2>1, <3>1, <3>2 DEF Exists
  <2>2. CASE b # a
    <3>1. ~Idle(b) /\ call[b].method = "create" /\ call'[b] = call[b]
      BY <1>1, <2>2 DEF Idle
    <3>2. /\ \A c \in CallsOn(call[b].sid) : c = b
          /\ call[b].stage = "save" => doc[call[b].sid].status = "absent"
          /\ call[b].stage = "activate" => doc[call[b].sid].status = "planning"
      BY <3>1 DEF MapInv, CreationAlone
    <3>3. call[b].sid # s
      BY <3>1 DEF CallsOn
    <3>4. \A c \in CallsOn(call[b].sid)' : c = b
      BY <1>1, <3>1, <3>2, <3>3 DEF CallsOn, Idle
    <3> QED BY <1>1, <3>1, <3>2, <3>4
  <2> QED BY <2>1, <2>2
<1>5. LoadedLeavesMap'
  <2> SUFFICES ASSUME NEW b \in Actors, NEW r \in Sessions,
                      call'[b].stage = "save", call'[b].sid = r,
                      call'[b].buf.status \in Terminal, active'[ConvOf[r]] = r
               PROVE  PopPending(r)'
    BY DEF LoadedLeavesMap
  <2>1. CASE b = a
    <3>1. doc[s].status \in Terminal
      BY <1>1, <2>1 DEF NoDoc, Terminal
    <3> QED BY <1>1, <1>2, <2>1, <3>1 DEF MapInv, TerminalLeavesMap
  <2>2. CASE b # a
    <3>1. PopPending(r)
      BY <1>1, <2>2 DEF MapInv, LoadedLeavesMap
    <3> QED BY <1>2, <3>1
  <2> QED BY <2>1, <2>2
<1>6. TerminalLeavesMap'
  BY <1>1, <1>2 DEF MapInv, TerminalLeavesMap
<1> QED
  BY <1>0, <1>3, <1>4, <1>5, <1>6 DEF MapInv

(* Saving a document: a terminal status is stored only by a writer that    *)
(* will clear the entry, or by one that had loaded it.                     *)
LEMMA StoreMap ==
    ASSUME MapInv, SharedTypeOK', NEW a \in Actors, NEW d \in Document,
           NEW next \in {"none", "pop"}, Store(a, d, next),
           call[a].stage = "save", call[a].method # "create",
           d.status \in Terminal => next = "pop" \/ d.status = call[a].buf.status
    PROVE  MapInv'
<1> DEFINE s == call[a].sid
<1>1. /\ active' = active
      /\ s \in Sessions
      /\ doc'[s] = d
      /\ \A r \in Sessions : r # s => doc'[r] = doc[r]
      /\ \A b \in Actors : b # a => call'[b] = call[b]
  BY DEF Store, MapInv, SharedTypeOK, CallShape, Idle
<1>2. /\ next = "none" => call'[a] = NoCall
      /\ next = "pop" => /\ call'[a].stage = "pop" /\ call'[a].sid = s
                         /\ call'[a].method = call[a].method
  BY DEF Store, MapInv, SharedTypeOK, Call
<1> HIDE DEF s
<1>3. \A r \in Sessions : PopPending(r) => PopPending(r)'
  BY <1>1, PopStays
<1>4. CallShape'
  BY <1>1, <1>2 DEF MapInv, CallShape, Idle, NoCall
<1>5. CreationAlone'
  <2> SUFFICES ASSUME NEW b \in Actors, ~Idle(b)', call'[b].method = "create"
               PROVE  /\ \A c \in CallsOn(call[b].sid)' : c = b
                      /\ call'[b].stage = "save" => doc'[call'[b].sid].status = "absent"
                      /\ call'[b].stage = "activate" => doc'[call'[b].sid].status = "planning"
    BY DEF CreationAlone
  <2>1. b # a
    BY <1>2 DEF Idle, NoCall
  <2>2. call'[b] = call[b] /\ ~Idle(b) /\ call[b].sid \in Sessions
    BY <1>1, <2>1 DEF Idle, MapInv, CallShape
  <2>3. /\ \A c \in CallsOn(call[b].sid) : c = b
        /\ call[b].stage = "save" => doc[call[b].sid].status = "absent"
        /\ call[b].stage = "activate" => doc[call[b].sid].status = "planning"
    BY <2>2 DEF MapInv, CreationAlone
  <2>4. call[b].sid # s
    BY <2>1, <2>3 DEF CallsOn, Idle, s
  <2>5. \A c \in CallsOn(call[b].sid)' : c \in CallsOn(call[b].sid)
    BY <1>1, <1>2, <2>2, <2>4 DEF CallsOn, Idle, NoCall
  <2> QED BY <1>1, <2>2, <2>3, <2>4, <2>5
<1>6. LoadedLeavesMap'
  <2> SUFFICES ASSUME NEW b \in Actors, NEW r \in Sessions,
                      call'[b].stage = "save", call'[b].sid = r,
                      call'[b].buf.status \in Terminal, active'[ConvOf[r]] = r
               PROVE  PopPending(r)'
    BY DEF LoadedLeavesMap
  <2>1. b # a
    BY <1>2 DEF NoCall
  <2>2. PopPending(r)
    BY <1>1, <2>1 DEF MapInv, LoadedLeavesMap
  <2> QED BY <1>3, <2>2
<1>7. TerminalLeavesMap'
  <2> SUFFICES ASSUME NEW r \in Sessions, active'[ConvOf[r]] = r, doc'[r].status \in Terminal
               PROVE  PopPending(r)'
    BY DEF TerminalLeavesMap
  <2>1. CASE r # s
    BY <1>1, <1>3, <2>1 DEF MapInv, TerminalLeavesMap
  <2>2. CASE r = s /\ next = "pop"
    BY <1>2, <2>2 DEF PopPending
  <2>3. CASE r = s /\ next # "pop"
    <3>1. call[a].buf.status \in Terminal /\ active[ConvOf[s]] = s
      BY <1>1, <2>3
    <3>2. PopPending(s)
      BY <1>1, <3>1 DEF MapInv, LoadedLeavesMap, s
    <3> QED BY <1>1, <1>3, <2>3, <3>2
  <2> QED BY <2>1, <2>2, <2>3
<1> QED
  BY <1>4, <1>5, <1>6, <1>7 DEF MapInv

(* The document of a new session is written by the only call on it.        *)
LEMMA CreateMap ==
    ASSUME MapInv, SharedTypeOK', NEW a \in Actors, CreateDocument(a)
    PROVE  MapInv'
<1> DEFINE s == call[a].sid
<1>0. call[a].stage = "save" /\ call[a].method = "create" /\ ~Idle(a)
  BY DEF CreateDocument, Saving, Idle
<1>1. /\ active' = active
      /\ s \in Sessions
      /\ doc'[s].status = "planning"
      /\ \A r \in Sessions : r # s => doc'[r] = doc[r]
      /\ \A b \in Actors : b # a => call'[b] = call[b]
      /\ call'[a].stage = "activate" /\ call'[a].method = "create" /\ call'[a].sid = s
  BY <1>0 DEF CreateDocument, Store, MapInv, SharedTypeOK, CallShape, Call
<1>2. \A c \in CallsOn(s) : c = a
  BY <1>0 DEF MapInv, CreationAlone
<1>3. \A r \in Sessions : PopPending(r) => PopPending(r)'
  BY <1>0, <1>1, PopStays
<1> HIDE DEF s
<1>4. CallShape'
  BY <1>1 DEF MapInv, CallShape, Idle
<1>5. CreationAlone'
  <2> SUFFICES ASSUME NEW b \in Actors, ~Idle(b)', call'[b].method = "create"
               PROVE  /\ \A c \in CallsOn(call[b].sid)' : c = b
                      /\ call'[b].stage = "save" => doc'[call'[b].sid].status = "absent"
                      /\ call'[b].stage = "activate" => doc'[call'[b].sid].status = "planning"
    BY DEF CreationAlone
  <2>1. CASE b = a
    <3>1. \A c \in CallsOn(call[b].sid)' : c \in CallsOn(s)
      BY <1>0, <1>1, <2>1 DEF CallsOn, Idle, s
    <3> QED BY <1>1, <1>2, <2>1, <3>1
  <2>2. CASE b # a
    <3>1. call'[b] = call[b] /\ ~Idle(b) /\ call[b].sid \in Sessions
      BY <1>1, <2>2 DEF Idle, MapInv, CallShape
    <3>2. /\ \A c \in CallsOn(call[b].sid) : c = b
          /\ call[b].stage = "save" => doc[call[b].sid].status = "absent"
          /\ call[b].stage = "activate" => doc[call[b].sid].status = "planning"
      BY <3>1 DEF MapInv, CreationAlone
    <3>3. call[b].sid # s
      BY <1>2, <2>2, <3>1 DEF CallsOn
    <3>4. \A c \in CallsOn(call[b].sid)' : c \in CallsOn(call[b].sid)
      BY <1>1, <3>1, <3>3 DEF CallsOn, Idle
    <3> QED BY <1>1, <3>1, <3>2, <3>3, <3>4
  <2> QED BY <2>1, <2>2
<1>6. LoadedLeavesMap'
  <2> SUFFICES ASSUME NEW b \in Actors, NEW r \in Sessions,
                      call'[b].stage = "save", call'[b].sid = r,
                      call'[b].buf.status \in Terminal, active'[ConvOf[r]] = r
               PROVE  PopPending(r)'
    BY DEF LoadedLeavesMap
  <2>1. b # a
    BY <1>1
  <2>2. PopPending(r)
    BY <1>1, <2>1 DEF MapInv, LoadedLeavesMap
  <2> QED BY <1>3, <2>2
<1>7. TerminalLeavesMap'
  BY <1>1, <1>3 DEF MapInv, TerminalLeavesMap, Terminal
<1> QED
  BY <1>4, <1>5, <1>6, <1>7 DEF MapInv

(* A call that ends or clears an entry, and changes no document.           *)
LEMMA EndMap ==
    ASSUME MapInv, SharedTypeOK', NEW a \in Actors,
           Pop(a) \/ Activate(a) \/ Return(a)
    PROVE  MapInv'
<1> DEFINE s == call[a].sid
<1>1. /\ doc' = doc
      /\ ~Idle(a) /\ s \in Sessions
      /\ call'[a] = NoCall
      /\ \A b \in Actors : b # a => call'[b] = call[b]
  BY DEF Pop, Activate, Return, MapInv, SharedTypeOK, CallShape, Idle
<1>2. CallShape'
  BY <1>1 DEF MapInv, CallShape, Idle, NoCall
<1>3. CreationAlone'
  <2> SUFFICES ASSUME NEW b \in Actors, ~Idle(b)', call'[b].method = "create"
               PROVE  /\ \A c \in CallsOn(call[b].sid)' : c = b
                      /\ call'[b].stage = "save" => doc'[call'[b].sid].status = "absent"
                      /\ call'[b].stage = "activate" => doc'[call'[b].sid].status = "planning"
    BY DEF CreationAlone
  <2>1. b # a /\ call'[b] = call[b] /\ ~Idle(b)
    BY <1>1 DEF Idle, NoCall
  <2>2. \A c \in CallsOn(call[b].sid)' : c \in CallsOn(call[b].sid)
    BY <1>1, <2>1 DEF CallsOn, Idle, NoCall
  <2> QED BY <1>1, <2>1, <2>2 DEF MapInv, CreationAlone
<1>4. ASSUME NEW b \in Actors, call'[b].stage = "save"
      PROVE  b # a /\ call'[b] = call[b]
  BY <1>1, <1>4 DEF NoCall
<1>5. CASE Return(a)
  <2>1. active' = active /\ call[a].stage # "pop"
    BY <1>5 DEF Return
  <2>2. \A r \in Sessions : PopPending(r) => PopPending(r)'
    BY <1>1, <2>1, PopStays
  <2>3. LoadedLeavesMap'
    BY <1>4, <2>1, <2>2 DEF MapInv, LoadedLeavesMap
  <2>4. TerminalLeavesMap'
    BY <1>1, <2>1, <2>2 DEF MapInv, TerminalLeavesMap
  <2> QED BY <1>2, <1>3, <2>3, <2>4 DEF MapInv
<1>6. CASE Activate(a)
  <2>1. /\ call[a].stage = "activate"
        /\ active' = [active EXCEPT ![ConvOf[s]] = s]
    BY <1>6 DEF Activate
  <2>2. \A r \in Sessions : PopPending(r) => PopPending(r)'
    BY <1>1, <2>1, PopStays
  <2>3. call[a].method = "create"
    BY <2>1 DEF MapInv, CallShape
  <2>4. doc[s].status = "planning" /\ \A c \in CallsOn(s) : c = a
    BY <1>1, <2>1, <2>3 DEF MapInv, CreationAlone
  <2>5. \A r \in Sessions : r # s /\ active'[ConvOf[r]] = r => active[ConvOf[r]] = r
    BY <2>1, SharedGoalAssumption DEF MapInv, SharedTypeOK
  <2>6. LoadedLeavesMap'
    <3> SUFFICES ASSUME NEW b \in Actors, NEW r \in Sessions,
                        call'[b].stage = "save", call'[b].sid = r,
                        call'[b].buf.status \in Terminal, active'[ConvOf[r]] = r
                 PROVE  PopPending(r)'
      BY DEF LoadedLeavesMap
    <3>1. b # a /\ call'[b] = call[b]
      BY <1>4
    <3>2. r # s
      BY <2>4, <3>1 DEF CallsOn, Idle
    <3> QED BY <2>2, <2>5, <3>1, <3>2 DEF MapInv, LoadedLeavesMap
  <2>7. TerminalLeavesMap'
    BY <1>1, <2>2, <2>4, <2>5 DEF MapInv, TerminalLeavesMap, Terminal
  <2> QED BY <1>2, <1>3, <2>6, <2>7 DEF MapInv
<1>7. CASE Pop(a)
  <2>1. active' = [active EXCEPT ![ConvOf[s]] = NoSession]
    BY <1>7 DEF Pop, Unmapped
  <2>2. \A r \in Sessions : active'[ConvOf[r]] = r => active[ConvOf[r]] = r /\ r # s
    BY <1>1, <2>1, SharedGoalAssumption DEF MapInv, SharedTypeOK, Sessions, NoSession
  <2>3. \A r \in Sessions : r # s /\ PopPending(r) => PopPending(r)'
    BY <1>1 DEF PopPending
  <2> HIDE DEF s
  <2>4. LoadedLeavesMap'
    BY <1>4, <2>2, <2>3 DEF MapInv, LoadedLeavesMap
  <2>5. TerminalLeavesMap'
    BY <1>1, <2>2, <2>3 DEF MapInv, TerminalLeavesMap
  <2> QED BY <1>2, <1>3, <2>4, <2>5 DEF MapInv
<1> QED
  BY <1>5, <1>6, <1>7

(* Files changed outside any method.                                       *)
LEMMA DirectMap ==
    ASSUME MapInv, SharedTypeOK', Direct
    PROVE  MapInv'
<1>1. /\ UNCHANGED <<doc, call>>
      /\ \A r \in Sessions : active'[ConvOf[r]] = r => active[ConvOf[r]] = r
  BY SharedGoalAssumption
  DEF Direct, SaveRequest, ClearActive, Unmapped, MapInv, SharedTypeOK, Sessions, NoSession
<1>2. \A r \in Sessions : PopPending(r) => PopPending(r)'
  BY <1>1 DEF PopPending
<1>3. CallShape' /\ CreationAlone'
  BY <1>1 DEF MapInv, CallShape, CreationAlone, CallsOn, Idle
<1>4. LoadedLeavesMap' /\ TerminalLeavesMap'
  BY <1>1, <1>2 DEF MapInv, LoadedLeavesMap, TerminalLeavesMap
<1> QED
  BY <1>3, <1>4 DEF MapInv

(* Every stage of every method but the loading.                            *)
LEMMA ProgressMap ==
    ASSUME MapInv, NEW a \in Actors, Progress(a)
    PROVE  MapInv'
<1>0. SharedTypeOK'
  BY ProgressType DEF MapInv
<1>1. call[a] \in Call /\ call[a].buf \in Document
  BY DEF MapInv, SharedTypeOK, Call
<1>2. /\ WithStatus(a) \in Document /\ WithStatus(a).status = call[a].status
      /\ AfterStatus(a) \in {"none", "pop"}
      /\ call[a].status \in Terminal => AfterStatus(a) = "pop"
  BY <1>1 DEF WithStatus, AfterStatus, Document, Call
<1>3. CASE SetVerdict(a)
  BY <1>0, <1>2, <1>3, StoreMap DEF SetVerdict, Saving
<1>4. CASE WriteGemini(a)
  BY <1>0, <1>2, <1>4, StoreMap DEF WriteGemini, Saving
<1>5. CASE WriteCodex(a)
  BY <1>0, <1>1, <1>5, StoreMap DEF WriteCodex, Saving
<1>6. CASE UpdateUserInput(a)
  <2> DEFINE d == [call[a].buf EXCEPT !.notes = call[a].buf.notes \cup call[a].notes]
  <2>1. d \in Document /\ d.status = call[a].buf.status
    BY <1>1 DEF Document, Call
  <2>2. Store(a, d, "none") /\ call[a].stage = "save" /\ call[a].method # "create"
    BY <1>6 DEF UpdateUserInput, Saving
  <2> HIDE DEF d
  <2> QED BY <1>0, <2>1, <2>2, StoreMap
<1>7. CASE MarkSuperseded(a)
  <2> DEFINE d == [call[a].buf EXCEPT !.status = "canceled"]
  <2>1. d \in Document
    BY <1>1 DEF Document, Status, Terminal
  <2>2. Store(a, d, "pop") /\ call[a].stage = "save" /\ call[a].method # "create"
    BY <1>7 DEF MarkSuperseded, Saving
  <2> HIDE DEF d
  <2> QED BY <1>0, <2>1, <2>2, StoreMap
<1>8. CASE CreateDocument(a)
  BY <1>0, <1>8, CreateMap
<1>9. CASE Pop(a) \/ Activate(a)
  BY <1>0, <1>9, EndMap
<1> QED
  BY <1>3, <1>4, <1>5, <1>6, <1>7, <1>8, <1>9 DEF Progress

(* No step of the service breaks the invariant.                            *)
LEMMA SharedNextMap == MapInv /\ [SharedNext]_sharedVars => MapInv'
<1> SUFFICES ASSUME MapInv, [SharedNext]_sharedVars PROVE MapInv'
  OBVIOUS
<1>0. SharedTypeOK'
  BY SharedNextType DEF MapInv
<1>1. "planning" \in Status /\ {} \in SUBSET Notes
  BY DEF Status, InProgress
<1>2. ASSUME NEW a \in Actors, EnterCreate(a) PROVE MapInv'
  BY <1>1, <1>2, EnterMap DEF EnterCreate, Methods
<1>3. ASSUME NEW a \in Actors, EnterMethod(a) PROVE MapInv'
  <2>1. PICK s \in Sessions :
           /\ \A b \in CallsOn(s) : call[b].method # "create"
           /\ \/ \E m \in {"set_verdict", "write_gemini"}, st \in Status : Enter(a, m, s, st, {})
              \/ \E ns \in SUBSET Notes : Enter(a, "update_input", s, "planning", ns)
              \/ \E m \in {"write_codex", "supersede", "read"} : Enter(a, m, s, "planning", {})
    BY <1>3 DEF EnterMethod
  <2> QED BY <1>1, <2>1, EnterMap DEF Methods
<1>4. ASSUME NEW a \in Actors, Progress(a) PROVE MapInv'
  BY <1>4, ProgressMap
<1>5. ASSUME NEW a \in Actors, Return(a) PROVE MapInv'
  BY <1>0, <1>5, EndMap
<1>6. CASE Direct
  BY <1>0, <1>6, DirectMap
<1>7. CASE UNCHANGED sharedVars
  BY <1>7 DEF sharedVars, MapInv, SharedTypeOK, CallShape, CreationAlone, LoadedLeavesMap,
              TerminalLeavesMap, CallsOn, Idle, PopPending
<1> QED
  BY <1>2, <1>3, <1>4, <1>5, <1>6, <1>7 DEF SharedNext

(* Nobody is in a call and no entry is set at the start.                   *)
LEMMA SharedInitMap == SharedInit => MapInv
<1> SUFFICES ASSUME SharedInit PROVE MapInv
  OBVIOUS
<1>1. SharedTypeOK
  BY SharedInitType
<1>2. \A a \in Actors : Idle(a) /\ call[a].stage = "none"
  BY DEF SharedInit, Idle, NoCall
<1>3. \A s \in Sessions : active[ConvOf[s]] # s
  BY SharedGoalAssumption DEF SharedInit, Sessions, NoSession
<1> QED
  BY <1>1, <1>2, <1>3
  DEF MapInv, CallShape, CreationAlone, LoadedLeavesMap, TerminalLeavesMap

(* However the unlocked loads and saves of HTTP handlers, session threads  *)
(* and MCP clients interleave, a finished session is never left behind as  *)
(* its conversation's active one: whoever stores a terminal status, even a *)
(* stale one, is followed by the step that clears the entry.               *)
THEOREM FinishedSessionsLeaveMap == SharedSpec => []TerminalLeavesMap
<1>1. SharedInit => MapInv
  BY SharedInitMap
<1>2. MapInv /\ [SharedNext]_sharedVars => MapInv'
  BY SharedNextMap
<1>3. MapInv => TerminalLeavesMap
  BY DEF MapInv
<1> QED
  BY <1>1, <1>2, <1>3, PTL DEF SharedSpec
=============================================================================
