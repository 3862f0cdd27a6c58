-------------------------- MODULE GatewayPush_proofs --------------------------
(***************************************************************************)
(* Proofs about GatewayPush, for any number of sessions, chat messages and *)
(* failures and any limit on a poll.                                       *)
(***************************************************************************)
EXTENDS GatewayPush, FiniteSetTheorems, TLAPS

-----------------------------------------------------------------------------
(* The listing                                                             *)

(* What is listed was saved before now, so one of it is the newest: the    *)
(* watcher's loop over the listing always finds its next session.          *)
LEMMA NewestIsListed ==
    ASSUME clock \in Nat, batch # {},
           \A e \in batch : e.upd \in Nat /\ e.upd <= clock
    PROVE  Newest \in batch
<1> DEFINE later(e) == (e.upd + 1) .. clock
           laters == {later(e) : e \in batch}
           times == 0 .. clock
<1>1. laters \subseteq FiniteSubsetsOf(times) /\ laters # {}
  <2>1. ASSUME NEW e \in batch PROVE later(e) \in SUBSET times
    OBVIOUS
  <2>2. IsFiniteSet(times)
    BY FS_Interval
  <2> HIDE DEF later, times
  <2> QED BY <2>1, <2>2, FS_Subset DEF FiniteSubsetsOf
<1>2. PICK x \in laters : \A y \in laters : <<y, x>> \notin StrictSubsetOrdering(times)
  <2> HIDE DEF laters, times
  <2> QED BY <1>1, FS_StrictSubsetOrderingWellFounded, WFMin
<1>3. PICK e \in batch : x = later(e)
  OBVIOUS
<1>4. ASSUME NEW f \in batch, f.upd > e.upd PROVE FALSE
  <2>1. later(f) \subseteq later(e) /\ later(e) \subseteq times
    BY <1>4
  <2>2. e.upd + 1 \in later(e) /\ e.upd + 1 \notin later(f)
    BY <1>4
  <2>3. later(f) \in laters
    OBVIOUS
  <2> HIDE DEF later, times, laters
  <2> QED BY <1>2, <1>3, <2>1, <2>2, <2>3 DEF StrictSubsetOrdering
<1>5. \A f \in batch : f.upd <= e.upd
  BY <1>4
<1> QED
  BY <1>5 DEF Newest
-----------------------------------------------------------------------------
(* Types and times                                                         *)

(* What is known of sessions anywhere: by time and contents.               *)
Records ==
    {Known(file[s]) : s \in Sessions} \cup {Known(shows[s]) : s \in Sessions}
        \cup {pushState[s] : s \in Sessions} \cup {last[s] : s \in Sessions}
        \cup {Known(got.detail), Known(reply)}

(* Nothing is known from after now, and a time stamp names one contents.   *)
TimesIssued     == \A r \in Records : r.upd <= clock
ListedIssued    == \A e \in batch : e.upd <= clock
TimesNameBodies == \A q, r \in Records : q.upd = r.upd => q.body = r.body

PushTypeInv == TypeOK /\ TimesIssued /\ ListedIssued /\ TimesNameBodies

(* The records of the model, field by field.                               *)
LEMMA DetailType ==
    /\ NoDetail \in Details /\ Known(NoDetail) \in [upd : Nat, body : Bodies]
    /\ \A t \in Nat, st \in States, x \in Texts \cup {NoText} : Detail(t, st, x) \in Details
    /\ \A d \in Details : Known(d) \in [upd : Nat, body : Bodies]
    /\ \A d \in Details : Known(d).upd = d.upd /\ Known(d).body = Body(d)
    /\ "planning" \in States /\ "executing" \in States /\ "completed" \in States
  BY DEF Details, Detail, NoDetail, Known, Body, Bodies, States

(* A listing holds sessions with the times they show.                      *)
LEMMA ListedType ==
    ASSUME PushTypeInv, NEW after
    PROVE  /\ Listed(after) \in SUBSET [sid : Sessions, upd : Nat]
           /\ \A e \in Listed(after) : e.upd <= clock
<1>1. ASSUME NEW s \in Sessions
      PROVE  /\ [sid |-> s, upd |-> shows[s].upd] \in [sid : Sessions, upd : Nat]
             /\ shows[s].upd <= clock
  BY DetailType DEF PushTypeInv, TypeOK, TimesIssued, Records, Details
<1> QED
  BY <1>1 DEF Listed

(* The next session of a listing.                                          *)
LEMMA NewestType ==
    ASSUME PushTypeInv, batch # {}
    PROVE  Newest \in batch /\ Newest.sid \in Sessions /\ Newest.upd \in Nat
  BY NewestIsListed DEF PushTypeInv, TypeOK, ListedIssued

(* A step issues no time stamp, or one, for one new contents.              *)
LEMMA RecordsGrow ==
    ASSUME PushTypeInv, clock' \in Nat,
           \/ clock' = clock /\ Records' \subseteq Records
           \/ /\ clock' = clock + 1
              /\ \E r : r.upd = clock' /\ Records' \subseteq Records \cup {r}
    PROVE  TimesIssued' /\ TimesNameBodies'
<1>1. clock \in Nat /\ \A r \in Records : r.upd \in Nat
  BY DetailType DEF PushTypeInv, TypeOK, Records
<1>2. CASE clock' = clock /\ Records' \subseteq Records
  BY <1>2 DEF PushTypeInv, TimesIssued, TimesNameBodies
<1>3. ASSUME clock' = clock + 1, NEW r, r.upd = clock', Records' \subseteq Records \cup {r}
      PROVE  TimesIssued' /\ TimesNameBodies'
  <2>1. \A q \in Records : q.upd <= clock' /\ q.upd # r.upd
    BY <1>1, <1>3 DEF PushTypeInv, TimesIssued
  <2> QED
    BY <1>1, <1>3, <2>1 DEF PushTypeInv, TimesIssued, TimesNameBodies
<1> QED
  BY <1>2, <1>3

(* The worker's steps keep types and times.                                *)
LEMMA WorkerKeeps ==
    ASSUME PushTypeInv, WorkerStep
    PROVE  PushTypeInv'
<1> USE DEF PushTypeInv, TypeOK, watcherVars, chatVars, historyVars
<1>1. ASSUME NEW s \in Sessions, Save(s) PROVE PushTypeInv'
  <2>1. PICK st \in {"executing", "completed"}, x \in Texts :
           file' = [file EXCEPT ![s] = Detail(clock', st, x)]
    BY <1>1 DEF Save
  <2>2. clock' = clock + 1 /\ UNCHANGED <<shows, pushState, last, got, reply, batch>>
    BY <1>1 DEF Save, Tick
  <2>3. file' \in [Sessions -> Details]
    BY <2>1, <2>2, DetailType
  <2>4. /\ Known(file'[s]).upd = clock'
        /\ Records' \subseteq Records \cup {Known(file'[s])}
    BY <2>1, <2>2 DEF Records, Known, Detail
  <2>5. TimesIssued' /\ TimesNameBodies'
    BY <2>2, <2>4, RecordsGrow
  <2> QED
    BY <1>1, <2>2, <2>3, <2>5 DEF Save, ListedIssued
<1>2. ASSUME NEW s \in Sessions, EndInPlace(s) PROVE PushTypeInv'
  <2>1. /\ shows' = [shows EXCEPT ![s] = Detail(clock', "completed", shows[s].text)]
        /\ clock' = clock + 1 /\ UNCHANGED <<file, pushState, last, got, reply, batch>>
    BY <1>2 DEF EndInPlace, Tick
  <2>2. shows[s].text \in Texts \cup {NoText}
    BY DEF Details
  <2>3. shows' \in [Sessions -> Details]
    BY <2>1, <2>2, DetailType
  <2>4. /\ Known(shows'[s]).upd = clock'
        /\ Records' \subseteq Records \cup {Known(shows'[s])}
    BY <2>1 DEF Records, Known, Detail
  <2>5. TimesIssued' /\ TimesNameBodies'
    BY <2>1, <2>4, RecordsGrow
  <2> QED
    BY <1>2, <2>1, <2>3, <2>5 DEF EndInPlace, ListedIssued
<1>3. ASSUME NEW s \in Sessions, Refresh(s) PROVE PushTypeInv'
  <2>1. /\ shows' = [shows EXCEPT ![s] = file[s]]
        /\ UNCHANGED <<clock, file, pushState, last, got, reply, batch>>
    BY <1>3 DEF Refresh
  <2>2. Records' \subseteq Records
    BY <2>1 DEF Records
  <2>3. TimesIssued' /\ TimesNameBodies'
    BY <2>1, <2>2, RecordsGrow
  <2> QED
    BY <1>3, <2>1, <2>3 DEF Refresh, ListedIssued
<1> QED
  BY <1>1, <1>2, <1>3 DEF WorkerStep

(* The watcher's steps issue no time stamp and keep the types.             *)
LEMMA WatcherKeeps ==
    ASSUME PushTypeInv, WatcherStep
    PROVE  PushTypeInv'
<1> USE DEF PushTypeInv, TypeOK, workerVars, chatVars, historyVars
<1> DEFINE KnownType == [upd : Nat, body : Bodies]
<1>0. UNCHANGED <<clock, file, shows, reply>>
  BY DEF WatcherStep, Prime, PrimeSession, Primed, Poll, Fetch, FetchFails, Skip, Record, Send,
         PollFails, EndPoll
<1>1. CASE Prime \/ Poll
  <2>1. Records' = Records
    BY <1>1 DEF Prime, Poll, Records
  <2>2. batch' = Listed(0) \/ batch' = Listed(cursor)
    BY <1>1 DEF Prime, Poll
  <2> QED
    BY <1>0, <1>1, <2>1, <2>2, ListedType, RecordsGrow DEF Prime, Poll, ListedIssued
<1>2. CASE PrimeSession
  <2>1. Newest.sid \in Sessions
    BY <1>2, NewestType DEF PrimeSession
  <2>2. \/ UNCHANGED <<pushState, last>>
        \/ /\ pushState' = [pushState EXCEPT ![Newest.sid] = Known(shows[Newest.sid])]
           /\ last' = [last EXCEPT ![Newest.sid] = Known(shows[Newest.sid])]
    BY <1>2 DEF PrimeSession
  <2>3. got' = got /\ batch' \subseteq batch
    BY <1>2 DEF PrimeSession
  <2>4. Records' \subseteq Records
    BY <1>0, <2>1, <2>2, <2>3 DEF Records
  <2>5. Known(shows[Newest.sid]) \in [upd : Nat, body : Bodies]
    BY <2>1, DetailType
  <2>6. pushState' \in [Sessions -> KnownType] /\ last' \in [Sessions -> KnownType]
    <3>1. /\ Known(shows[Newest.sid]) \in KnownType
          /\ pushState \in [Sessions -> KnownType] /\ last \in [Sessions -> KnownType]
      BY <2>5
    <3> HIDE DEF KnownType
    <3> QED BY <2>1, <2>2, <3>1
  <2> QED
    BY <1>0, <1>2, <2>3, <2>4, <2>6, RecordsGrow DEF PrimeSession, ListedIssued
<1>3. CASE Fetch
  <2>1. Newest.sid \in Sessions /\ Newest.upd \in Nat
    BY <1>3, NewestType DEF Fetch
  <2>2. /\ got' = [sid |-> Newest.sid, detail |-> shows[Newest.sid]]
        /\ batch' \subseteq batch
    BY <1>3 DEF Fetch
  <2>3. Records' \subseteq Records
    BY <1>0, <1>3, <2>1, <2>2 DEF Fetch, Records
  <2> QED
    BY <1>0, <1>3, <2>1, <2>2, <2>3, RecordsGrow DEF Fetch, ListedIssued
<1>4. CASE FetchFails
  <2>1. Newest.upd \in Nat /\ batch' \subseteq batch
    BY <1>4, NewestType DEF FetchFails
  <2>2. Records' = Records
    BY <1>4 DEF FetchFails, Records
  <2> QED
    BY <1>0, <1>4, <2>1, <2>2, RecordsGrow DEF FetchFails, Fail, ListedIssued
<1>5. CASE Primed \/ Skip \/ EndPoll
  <2>1. Records' = Records
    BY <1>5 DEF Primed, Skip, EndPoll, Records
  <2> QED
    BY <1>0, <1>5, <2>1, RecordsGrow DEF Primed, Skip, EndPoll, ListedIssued
<1>6. CASE Record \/ Send
  <2>1. /\ UNCHANGED <<got, batch>>
        /\ \/ last' = last /\ pushState' = [pushState EXCEPT ![got.sid] = Known(got.detail)]
           \/ pushState' = pushState /\ last' = [last EXCEPT ![got.sid] = Known(got.detail)]
    BY <1>6 DEF Record, Send
  <2>2. Records' \subseteq Records
    BY <1>0, <2>1 DEF Records
  <2>3. Known(got.detail) \in [upd : Nat, body : Bodies]
    BY DetailType
  <2>4. /\ pushState' \in [Sessions -> [upd : Nat, body : Bodies]]
        /\ last' \in [Sessions -> [upd : Nat, body : Bodies]]
    BY <2>1, <2>3
  <2> QED
    BY <1>0, <1>6, <2>1, <2>2, <2>4, RecordsGrow DEF Record, Send, ListedIssued
<1>7. CASE PollFails
  <2>1. Records' = Records
    BY <1>7 DEF PollFails, Records
  <2> QED
    BY <1>0, <1>7, <2>1, RecordsGrow DEF PollFails, Fail, ListedIssued
<1> QED
  BY <1>1, <1>2, <1>3, <1>4, <1>5, <1>6, <1>7 DEF WatcherStep

(* The poll loop's steps keep types and times.                             *)
LEMMA ChatKeeps ==
    ASSUME PushTypeInv,
           ChatStep \/ \E s \in Sessions : RunCommand(s) \/ FreeformMessage(s)
    PROVE  PushTypeInv'
<1> USE DEF PushTypeInv, TypeOK, workerVars, watcherVars, historyVars
<1>1. ASSUME NEW s \in Sessions, RunCommand(s) PROVE PushTypeInv'
  <2>1. /\ clock' = clock + 1
        /\ file' = [file EXCEPT ![s] = Detail(clock', "planning", NoText)]
        /\ shows' = [shows EXCEPT ![s] = file'[s]]
        /\ UNCHANGED <<pushState, last, got, reply, batch>>
    BY <1>1 DEF RunCommand, Create, Tick
  <2>2. file' \in [Sessions -> Details] /\ shows' \in [Sessions -> Details]
    BY <2>1, DetailType
  <2>3. /\ Known(file'[s]).upd = clock'
        /\ Records' \subseteq Records \cup {Known(file'[s])}
    BY <2>1 DEF Records, Known, Detail
  <2>4. TimesIssued' /\ TimesNameBodies'
    BY <2>1, <2>3, RecordsGrow
  <2> QED
    BY <1>1, <2>1, <2>2, <2>4 DEF RunCommand, Ask, ListedIssued
<1>2. ASSUME NEW s \in Sessions, FreeformMessage(s) PROVE PushTypeInv'
  <2>1. Records' \subseteq Records
    BY <1>2 DEF FreeformMessage, Records
  <2>2. TimesIssued' /\ TimesNameBodies'
    BY <1>2, <2>1, RecordsGrow DEF FreeformMessage
  <2> QED
    BY <1>2, <2>2 DEF FreeformMessage, Ask, ListedIssued
<1>3. CASE ContinueSession
  <2>1. /\ clock' = clock + 1
        /\ file' = [file EXCEPT ![about] = [file[about] EXCEPT !.upd = clock']]
        /\ shows' = [shows EXCEPT ![about] = file'[about]]
        /\ UNCHANGED <<pushState, last, got, reply, batch>>
    BY <1>3 DEF ContinueSession, Tick
  <2>2. file' \in [Sessions -> Details] /\ shows' \in [Sessions -> Details]
    <3>1. file[about] \in Details /\ clock' \in Nat
      BY <2>1
    <3>2. [file[about] EXCEPT !.upd = clock'] \in Details
      BY <3>1 DEF Details
    <3> QED BY <2>1, <3>2
  <2>3. /\ Known(file'[about]).upd = clock'
        /\ Records' \subseteq Records \cup {Known(file'[about])}
    BY <2>1 DEF Records, Known, Details
  <2>4. TimesIssued' /\ TimesNameBodies'
    BY <2>1, <2>3, RecordsGrow
  <2> QED
    BY <1>3, <2>1, <2>2, <2>4 DEF ContinueSession, ListedIssued
<1>4. CASE FetchReply
  <2>1. Records' \subseteq Records
    BY <1>4 DEF FetchReply, Records
  <2>2. TimesIssued' /\ TimesNameBodies'
    BY <1>4, <2>1, RecordsGrow DEF FetchReply
  <2> QED
    BY <1>4, <2>2 DEF FetchReply, ListedIssued
<1>5. CASE FetchReplyFails \/ SendBriefFails \/ SendAck
  <2>1. Records' = Records
    BY <1>5 DEF FetchReplyFails, SendBriefFails, SendAck, Records
  <2>2. TimesIssued' /\ TimesNameBodies'
    BY <1>5, <2>1, RecordsGrow DEF FetchReplyFails, SendBriefFails, SendAck
  <2> QED
    BY <1>5, <2>2 DEF FetchReplyFails, SendBriefFails, SendAck, Fail, ListedIssued
<1>6. CASE SendBrief \/ RememberSnapshot
  <2>1. /\ UNCHANGED <<clock, file, shows, got, reply, about, batch>>
        /\ \/ last' = last /\ pushState' = [pushState EXCEPT ![about] = Known(reply)]
           \/ pushState' = pushState /\ last' = [last EXCEPT ![about] = Known(reply)]
    BY <1>6 DEF SendBrief, RememberSnapshot
  <2>2. Records' \subseteq Records
    BY <2>1 DEF Records
  <2>3. Known(reply) \in [upd : Nat, body : Bodies]
    BY DetailType
  <2>4. /\ pushState' \in [Sessions -> [upd : Nat, body : Bodies]]
        /\ last' \in [Sessions -> [upd : Nat, body : Bodies]]
    BY <2>1, <2>3
  <2> QED
    BY <1>6, <2>1, <2>2, <2>4, RecordsGrow DEF SendBrief, RememberSnapshot, ListedIssued
<1> QED
  BY <1>1, <1>2, <1>3, <1>4, <1>5, <1>6 DEF ChatStep

(* At the start all that exists shows an empty plan.                       *)
LEMMA PushInit == Init => PushTypeInv
<1> SUFFICES ASSUME Init PROVE PushTypeInv
  OBVIOUS
<1>1. Cardinality(Existing) \in Nat
  BY PushAssumption, FS_Subset, FS_CardinalityType
<1>2. PICK t \in [Existing -> 1..Cardinality(Existing)] :
         shows = [s \in Sessions |-> IF s \in Existing THEN Detail(t[s], "planning", NoText)
                                                     ELSE NoDetail]
  BY DEF Init
<1>3. got.sid \in Sessions
  BY PushAssumption DEF Init
<1>4. shows \in [Sessions -> Details] /\ file = shows
  BY <1>1, <1>2, DetailType DEF Init
<1>5. TypeOK
  BY <1>1, <1>3, <1>4, DetailType DEF Init, TypeOK
<1>6. \A r \in Records :
         \/ r = Known(NoDetail)
         \/ \E n \in 1..Cardinality(Existing) : r = Known(Detail(n, "planning", NoText))
  BY <1>2 DEF Init, Records
<1>7. \A r \in Records :
         \/ r.upd = 0 /\ r = Known(NoDetail)
         \/ r.upd \in 1..Cardinality(Existing) /\ r.body = [state |-> "planning", text |-> NoText]
  BY <1>6 DEF Known, Detail, NoDetail, Body
<1>8. TimesIssued /\ ListedIssued
  BY <1>1, <1>7 DEF Init, TimesIssued, ListedIssued
<1>9. TimesNameBodies
  BY <1>1, <1>7 DEF TimesNameBodies
<1> QED
  BY <1>5, <1>8, <1>9 DEF PushTypeInv

(* Every step keeps types and times.                                       *)
LEMMA PushNext == PushTypeInv /\ [Next]_vars => PushTypeInv'
<1> SUFFICES ASSUME PushTypeInv, [Next]_vars PROVE PushTypeInv'
  OBVIOUS
<1>1. CASE UNCHANGED vars
  BY <1>1 DEF vars, workerVars, watcherVars, chatVars, historyVars, PushTypeInv, TypeOK,
              TimesIssued, ListedIssued, TimesNameBodies, Records
<1> QED
  BY <1>1, WorkerKeeps, WatcherKeeps, ChatKeeps DEF Next

(* The worker's, the watcher's and the poll loop's state keeps its types.  *)
THEOREM PushTypes == Spec => []TypeOK
<1>1. PushTypeInv => TypeOK
  BY DEF PushTypeInv
<1> QED
  BY <1>1, PushInit, PushNext, PTL DEF Spec

-----------------------------------------------------------------------------
(* Repeats.  The bound is not inductive: what the poll loop records can    *)
(* make the watcher push again, later and in another session's turn, what  *)
(* the chat was told last.  The invariant counts the repeats still owed.   *)

(* What the watcher has fetched says what the document says, or the        *)
(* document has been saved since.                                          *)
GotCurrent ==
    wpc \in {"compare", "send"} /\ file[got.sid].upd = got.detail.upd =>
        Body(shows[got.sid]) = Body(got.detail)

Comparing(s) == wpc = "compare" /\ got.sid = s

(* The contents k of a session s cannot be fetched any more.               *)
Gone(s, k) ==
    /\ k.upd \notin {shows[s].upd, file[s].upd}
    /\ ~(Comparing(s) /\ got.detail.upd = k.upd)

(* Whatever the watcher can fetch next while k can still be fetched says   *)
(* what k says.                                                            *)
Stable(s, k) ==
    /\ k.upd \in {shows[s].upd, file[s].upd} /\ Comparing(s) => Body(got.detail) = k.body
    /\ k.upd = file[s].upd => Body(shows[s]) = k.body

(* If the chat was told k last, the watcher does not push it again.        *)
Settled(s, k) == Gone(s, k) \/ (pushState[s].body = k.body /\ Stable(s, k))

(* Sessions the watcher may repeat once, after what it is sending now.     *)
Owed ==
    {s \in Sessions :
        \/ ~Settled(s, last[s])
        \/ wpc = "send" /\ got.sid = s /\ ~Settled(s, Known(got.detail))}

(* What is being sent now is a repeat.                                     *)
SendingRepeat == IF wpc = "send" /\ last[got.sid].upd = got.detail.upd THEN 1 ELSE 0

(* Repeats the message being handled may still cause.                      *)
Credit ==
    CASE cpc = "idle"     -> 0
      [] cpc = "remember" -> 1
      [] OTHER            -> 2

RepeatInv ==
    /\ PushTypeInv
    /\ GotCurrent
    /\ repeats + SendingRepeat + Cardinality(Owed) + Credit <= 2 * requests

(* The counts, and how they follow the sets.                               *)
LEMMA OwedCounted ==
    /\ Cardinality(Owed) \in Nat /\ Cardinality(Owed)' \in Nat
    /\ Owed' \subseteq Owed => Cardinality(Owed)' <= Cardinality(Owed)
    /\ \A s \in Sessions :
           Owed' \subseteq Owed \cup {s} => Cardinality(Owed)' <= Cardinality(Owed) + 1
    /\ \A s \in Owed :
           Owed' \subseteq Owed \ {s} => Cardinality(Owed)' + 1 <= Cardinality(Owed)
    /\ SendingRepeat \in 0..1 /\ SendingRepeat' \in 0..1
    /\ Credit \in 0..2 /\ Credit' \in 0..2
<1>1. Owed \in SUBSET Sessions /\ Owed' \in SUBSET Sessions
  BY DEF Owed
<1>2. IsFiniteSet(Owed) /\ IsFiniteSet(Owed')
  BY <1>1, PushAssumption, FS_Subset
<1>3. Cardinality(Owed) \in Nat /\ Cardinality(Owed)' \in Nat
  BY <1>2, FS_CardinalityType
<1>4. Owed' \subseteq Owed => Cardinality(Owed)' <= Cardinality(Owed)
  BY <1>2, FS_Subset
<1>5. ASSUME NEW s \in Sessions, Owed' \subseteq Owed \cup {s}
      PROVE  Cardinality(Owed)' <= Cardinality(Owed) + 1
  <2>1. /\ IsFiniteSet(Owed \cup {s})
        /\ Cardinality(Owed \cup {s}) \in {Cardinality(Owed), Cardinality(Owed) + 1}
    BY <1>2, FS_AddElement
  <2>2. Cardinality(Owed') <= Cardinality(Owed \cup {s})
    BY <1>5, <2>1, FS_Subset
  <2> QED BY <1>3, <2>1, <2>2
<1>6. ASSUME NEW s \in Owed, Owed' \subseteq Owed \ {s}
      PROVE  Cardinality(Owed)' + 1 <= Cardinality(Owed)
  <2>1. IsFiniteSet(Owed \ {s}) /\ Cardinality(Owed \ {s}) = Cardinality(Owed) - 1
    BY <1>2, FS_RemoveElement
  <2>2. Cardinality(Owed') <= Cardinality(Owed \ {s})
    BY <1>6, <2>1, FS_Subset
  <2> QED BY <1>3, <2>1, <2>2
<1>7. /\ SendingRepeat \in 0..1 /\ SendingRepeat' \in 0..1
      /\ Credit \in 0..2 /\ Credit' \in 0..2
  BY DEF SendingRepeat, Credit
<1> QED
  BY <1>3, <1>4, <1>5, <1>6, <1>7

(* A session of the worker moves: it is saved, or its summary is published *)
(* or ended in place.  The watcher and the chat are left alone.            *)
SessionMoves(r) ==
    /\ \A s \in Sessions : s # r => shows'[s] = shows[s] /\ file'[s] = file[s]
    /\ \/ file'[r].upd > clock /\ (shows'[r] = shows[r] \/ shows'[r].upd > clock)
       \/ /\ file'[r] = file[r] /\ file[r].state = "completed" /\ shows'[r].upd > clock
          /\ Body(shows'[r]) = [state |-> "completed", text |-> shows[r].text]
       \/ file'[r] = file[r] /\ shows'[r] = file[r]
    /\ UNCHANGED <<wpc, got, pushState, last>>

(* Such a step owes no repeat that was not owed before.                    *)
LEMMA MovesOweNothing ==
    ASSUME RepeatInv, NEW r \in Sessions, SessionMoves(r)
    PROVE  GotCurrent' /\ Owed' \subseteq Owed /\ SendingRepeat' = SendingRepeat
<1>1. /\ clock \in Nat
      /\ \A k \in Records : k.upd \in Nat /\ k.upd <= clock
      /\ \A j, k \in Records : j.upd = k.upd => j.body = k.body
  BY DetailType DEF RepeatInv, PushTypeInv, TypeOK, TimesIssued, TimesNameBodies, Records
<1>2. /\ \A s \in Sessions : Known(file[s]) \in Records /\ last[s] \in Records
      /\ Known(got.detail) \in Records /\ got.sid \in Sessions
  BY DEF Records, RepeatInv, PushTypeInv, TypeOK
<1>3. \A s \in Sessions, k \in Records :
         k.upd = file[s].upd => k.body = [state |-> file[s].state, text |-> file[s].text]
  BY <1>1, <1>2 DEF Known, Body
<1>4. ASSUME NEW s \in Sessions, NEW k \in Records, k.upd = file'[s].upd,
             k.upd = file[s].upd => Body(shows[s]) = k.body
      PROVE  Body(shows'[s]) = k.body
  <2>1. CASE s # r
    BY <1>4, <2>1 DEF SessionMoves
  <2>2. CASE s = r /\ file'[r].upd > clock
    BY <1>1, <1>4, <2>2 DEF RepeatInv, PushTypeInv, TypeOK, Details
  <2>3. CASE s = r /\ file'[r] = file[r]
    <3>1. /\ k.body = [state |-> file[r].state, text |-> file[r].text]
          /\ Body(shows[r]) = k.body
      BY <1>3, <1>4, <2>3
    <3>2. CASE shows'[r] = file[r]
      BY <2>3, <3>1, <3>2 DEF Body
    <3>3. CASE /\ file[r].state = "completed"
               /\ Body(shows'[r]) = [state |-> "completed", text |-> shows[r].text]
      <4>1. shows[r].text = file[r].text
        BY <3>1 DEF Body
      <4> QED BY <2>3, <3>1, <3>3, <4>1
    <3> QED
      BY <1>1, <1>4, <2>3, <3>1, <3>2, <3>3 DEF SessionMoves
  <2> QED
    BY <2>1, <2>2, <2>3 DEF SessionMoves
<1>5. \A s \in Sessions, k \in Records :
         k.upd \in {shows'[s].upd, file'[s].upd} => k.upd \in {shows[s].upd, file[s].upd}
  BY <1>1 DEF SessionMoves
<1>6. GotCurrent'
  <2>1. Known(got.detail).upd = got.detail.upd /\ Known(got.detail).body = Body(got.detail)
    BY DEF Known
  <2> QED
    BY <1>2, <1>4, <2>1 DEF RepeatInv, GotCurrent, SessionMoves
<1>7. ASSUME NEW s \in Sessions, NEW k \in Records, Settled(s, k)
      PROVE  Settled(s, k)'
  <2>1. Gone(s, k) => Gone(s, k)'
    BY <1>5 DEF Gone, Comparing, SessionMoves
  <2>2. Stable(s, k) => Stable(s, k)'
    BY <1>4, <1>5 DEF Stable, Comparing, SessionMoves
  <2> QED
    BY <1>7, <2>1, <2>2 DEF Settled, SessionMoves
<1>8. Owed' \subseteq Owed
  BY <1>2, <1>7 DEF Owed, SessionMoves
<1> QED
  BY <1>6, <1>8 DEF SendingRepeat, SessionMoves

(* Sessions that move cost no repeat, and a new message pays for two.      *)
LEMMA MovesRepeat ==
    ASSUME RepeatInv, PushTypeInv', NEW r \in Sessions, SessionMoves(r), repeats' = repeats,
           \/ requests' = requests /\ Credit' = Credit
           \/ requests' = requests + 1 /\ Credit' <= Credit + 2
    PROVE  RepeatInv'
<1>1. GotCurrent' /\ Owed' \subseteq Owed /\ SendingRepeat' = SendingRepeat
  BY MovesOweNothing
<1>2. Cardinality(Owed)' <= Cardinality(Owed)
  BY <1>1, OwedCounted
<1>3. repeats \in Nat /\ requests \in Nat
  BY DEF RepeatInv, PushTypeInv, TypeOK
<1> QED
  BY <1>1, <1>2, <1>3, OwedCounted DEF RepeatInv

(* The worker owes the chat nothing.                                       *)
LEMMA WorkerRepeat ==
    ASSUME RepeatInv, PushTypeInv', WorkerStep
    PROVE  RepeatInv'
<1>1. /\ UNCHANGED <<wpc, got, pushState, last, repeats, requests, cpc>>
      /\ Credit' = Credit
  BY DEF WorkerStep, Save, EndInPlace, Refresh, watcherVars, chatVars, historyVars, Credit
<1>2. clock \in Nat /\ file \in [Sessions -> Details] /\ shows \in [Sessions -> Details]
  BY DEF RepeatInv, PushTypeInv, TypeOK
<1>3. ASSUME NEW s \in Sessions, Save(s) PROVE SessionMoves(s)
  BY <1>1, <1>2, <1>3 DEF Save, Tick, SessionMoves, Detail
<1>4. ASSUME NEW s \in Sessions, EndInPlace(s) PROVE SessionMoves(s)
  BY <1>1, <1>2, <1>4 DEF EndInPlace, Tick, SessionMoves, Detail, Body
<1>5. ASSUME NEW s \in Sessions, Refresh(s) PROVE SessionMoves(s)
  BY <1>1, <1>2, <1>5 DEF Refresh, SessionMoves
<1> QED
  BY <1>1, <1>3, <1>4, <1>5, MovesRepeat DEF WorkerStep

(* Known details as records.                                               *)
LEMMA KnownIsRecord ==
    ASSUME PushTypeInv
    PROVE  /\ \A s \in Sessions : /\ Known(file[s]) \in Records /\ Known(shows[s]) \in Records
                                 /\ last[s] \in Records /\ pushState[s] \in Records
           /\ Known(got.detail) \in Records /\ Known(reply) \in Records
           /\ \A d : Known(d).upd = d.upd /\ Known(d).body = Body(d)
           /\ \A j, k \in Records : j.upd = k.upd => j.body = k.body
           /\ got.sid \in Sessions /\ about \in Sessions
           /\ \A j, k \in Records : j.upd = k.upd /\ j.body = k.body => j = k
<1>1. \A k \in Records : k \in [upd : Nat, body : Bodies]
  BY DetailType DEF Records, PushTypeInv, TypeOK
<1> QED
  BY <1>1 DEF Records, Known, PushTypeInv, TypeOK, TimesNameBodies

(* A fetch is of what is shown now.                                        *)
LEMMA FetchRepeat ==
    ASSUME RepeatInv, PushTypeInv', Fetch
    PROVE  RepeatInv'
<1>1. Newest.sid \in Sessions
  BY NewestType DEF Fetch, RepeatInv
<1>2. /\ wpc = "fetch" /\ wpc' = "compare"
      /\ got'.sid = Newest.sid /\ got'.detail = shows[Newest.sid]
      /\ UNCHANGED <<file, shows, pushState, last, repeats, requests, cpc>>
  BY DEF Fetch, workerVars, chatVars, historyVars
<1>3. GotCurrent'
  BY <1>1, <1>2, KnownIsRecord DEF RepeatInv, GotCurrent
<1>4. ASSUME NEW s \in Sessions, Settled(s, last[s])
      PROVE  Settled(s, last[s])'
  <2>1. Gone(s, last[s]) => Gone(s, last[s])'
    BY <1>2 DEF Gone, Comparing
  <2>2. Stable(s, last[s]) => Stable(s, last[s])'
    <3>1. last[s].upd = shows[s].upd => last[s].body = Body(shows[s])
      BY KnownIsRecord DEF RepeatInv
    <3> QED BY <1>2, <3>1 DEF Stable, Comparing
  <2> QED
    BY <1>2, <1>4, <2>1, <2>2 DEF Settled
<1>5. Owed' \subseteq Owed /\ SendingRepeat' = SendingRepeat /\ Credit' = Credit
  BY <1>2, <1>4 DEF Owed, SendingRepeat, Credit
<1>6. repeats \in Nat /\ requests \in Nat /\ Cardinality(Owed)' <= Cardinality(Owed)
  BY <1>5, OwedCounted DEF RepeatInv, PushTypeInv, TypeOK
<1> QED
  BY <1>2, <1>3, <1>5, <1>6, OwedCounted DEF RepeatInv

(* What is pushed is recorded first; if it is what the chat was told last, *)
(* the repeat was owed.                                                    *)
LEMMA RecordRepeat ==
    ASSUME RepeatInv, PushTypeInv', Record
    PROVE  RepeatInv'
<1> DEFINE r == got.sid
           k == Known(got.detail)
<1>1. /\ wpc = "compare" /\ wpc' = "send"
      /\ pushState' = [pushState EXCEPT ![r] = k]
      /\ pushState[r].upd # k.upd /\ pushState[r].body # k.body
      /\ UNCHANGED <<file, shows, got, last, repeats, requests, cpc>>
  BY KnownIsRecord DEF Record, workerVars, chatVars, historyVars, AlreadyPushed, RepeatInv
<1>2. /\ r \in Sessions /\ k \in Records /\ last[r] \in Records
      /\ k.upd = got.detail.upd /\ k.body = Body(got.detail)
      /\ pushState'[r] = k /\ \A s \in Sessions : s # r => pushState'[s] = pushState[s]
  BY <1>1, KnownIsRecord DEF RepeatInv, PushTypeInv, TypeOK
<1> HIDE DEF r, k
<1>3. GotCurrent'
  BY <1>1 DEF RepeatInv, GotCurrent
<1>4. Settled(r, k)'
  BY <1>1, <1>2 DEF Settled, Stable, Comparing, RepeatInv, GotCurrent, r, k
<1>5. ASSUME NEW s \in Sessions, s # r, Settled(s, last[s]) PROVE Settled(s, last[s])'
  BY <1>1, <1>2, <1>5 DEF Settled, Gone, Stable, Comparing, r
<1>6. CASE last[r].upd = k.upd
  <2>1. last[r] = k
    BY <1>2, <1>6, KnownIsRecord DEF RepeatInv
  <2>2. r \in Owed
    <3>1. ~Settled(r, last[r])
      BY <1>1, <1>2, <2>1 DEF Settled, Gone, Comparing, r
    <3> QED BY <1>2, <3>1 DEF Owed
  <2>3. Owed' \subseteq Owed \ {r}
    BY <1>1, <1>2, <1>4, <1>5, <2>1 DEF Owed, r, k
  <2>4. Cardinality(Owed)' + 1 <= Cardinality(Owed)
    BY <2>2, <2>3, OwedCounted
  <2>5. SendingRepeat' <= SendingRepeat + 1 /\ Credit' = Credit
    BY <1>1 DEF SendingRepeat, Credit
  <2>6. repeats \in Nat /\ requests \in Nat
    BY DEF RepeatInv, PushTypeInv, TypeOK
  <2> QED
    BY <1>1, <1>3, <2>4, <2>5, <2>6, OwedCounted DEF RepeatInv
<1>7. CASE last[r].upd # k.upd
  <2>1. Settled(r, last[r]) => Settled(r, last[r])'
    BY <1>1, <1>2, <1>7 DEF Settled, Gone, Stable, Comparing, r, k
  <2>2. Owed' \subseteq Owed
    BY <1>1, <1>2, <1>4, <1>5, <2>1 DEF Owed, r, k
  <2>3. SendingRepeat' = 0 /\ Credit' = Credit
    BY <1>1, <1>2, <1>7 DEF SendingRepeat, Credit, r
  <2>4. repeats \in Nat /\ requests \in Nat /\ Cardinality(Owed)' <= Cardinality(Owed)
    BY <2>2, OwedCounted DEF RepeatInv, PushTypeInv, TypeOK
  <2> QED
    BY <1>1, <1>3, <2>3, <2>4, OwedCounted DEF RepeatInv
<1> QED
  BY <1>6, <1>7

(* The push is sent, and counted if it is a repeat, or it is not sent.     *)
LEMMA SendRepeat ==
    ASSUME RepeatInv, PushTypeInv', Send \/ PollFails
    PROVE  RepeatInv'
<1>1. /\ UNCHANGED <<file, shows, got, pushState, requests, cpc>>
      /\ wpc' \in {"fetch", "wait"}
  BY DEF Send, PollFails, workerVars, chatVars
<1>2. GotCurrent' /\ SendingRepeat' = 0 /\ Credit' = Credit
  BY <1>1 DEF GotCurrent, SendingRepeat, Credit
<1>4. CASE Send
  <2>1. /\ last' = [last EXCEPT ![got.sid] = Known(got.detail)] /\ wpc = "send"
        /\ repeats' = repeats + SendingRepeat
    BY <1>4 DEF Send, SendingRepeat, RepeatInv, PushTypeInv, TypeOK
  <2>2. Owed' \subseteq Owed
    <3> SUFFICES ASSUME NEW s \in Owed' PROVE s \in Owed
      OBVIOUS
    <3>1. s \in Sessions /\ ~Settled(s, last[s])'
      BY <1>1 DEF Owed
    <3>2. CASE s = got.sid
      <4>1. last'[s] = Known(got.detail)
        BY <2>1, <3>1, <3>2 DEF RepeatInv, PushTypeInv, TypeOK
      <4>2. ~Settled(s, Known(got.detail))
        BY <1>1, <3>1, <4>1 DEF Settled, Gone, Stable, Comparing
      <4> QED BY <2>1, <3>1, <3>2, <4>2 DEF Owed
    <3>3. CASE s # got.sid
      <4>1. last'[s] = last[s]
        BY <2>1, <3>1, <3>3 DEF RepeatInv, PushTypeInv, TypeOK
      <4>2. ~Settled(s, last[s])
        BY <1>1, <3>1, <4>1 DEF Settled, Gone, Stable, Comparing
      <4> QED BY <3>1, <4>2 DEF Owed
    <3> QED BY <3>2, <3>3
  <2>3. repeats \in Nat /\ requests \in Nat /\ Cardinality(Owed)' <= Cardinality(Owed)
    BY <2>2, OwedCounted DEF RepeatInv, PushTypeInv, TypeOK
  <2> QED
    BY <1>1, <1>2, <2>1, <2>3, OwedCounted DEF RepeatInv
<1>5. CASE PollFails
  <2>1. UNCHANGED <<last, repeats>>
    BY <1>5 DEF PollFails, historyVars
  <2>2. Owed' \subseteq Owed
    <3> SUFFICES ASSUME NEW s \in Owed' PROVE s \in Owed
      OBVIOUS
    <3>1. s \in Sessions /\ ~Settled(s, last[s])'
      BY <1>1 DEF Owed
    <3>2. ~Settled(s, last[s])
      BY <1>1, <2>1, <3>1 DEF Settled, Gone, Stable, Comparing
    <3> QED BY <3>1, <3>2 DEF Owed
  <2>3. repeats \in Nat /\ requests \in Nat /\ Cardinality(Owed)' <= Cardinality(Owed)
    BY <2>2, OwedCounted DEF RepeatInv, PushTypeInv, TypeOK
  <2> QED
    BY <1>1, <1>2, <2>1, <2>3, OwedCounted DEF RepeatInv
<1> QED
  BY <1>4, <1>5

(* What is primed counts as shown, and so is not shown again.              *)
LEMMA PrimeRepeat ==
    ASSUME RepeatInv, PushTypeInv', PrimeSession
    PROVE  RepeatInv'
<1> DEFINE r == Newest.sid
           k == Known(shows[r])
<1>1. /\ wpc = "prime" /\ UNCHANGED <<wpc, file, shows, got, repeats, requests, cpc>>
      /\ \/ UNCHANGED <<pushState, last>>
         \/ pushState' = [pushState EXCEPT ![r] = k] /\ last' = [last EXCEPT ![r] = k]
  BY DEF PrimeSession, workerVars, chatVars
<1>2. r \in Sessions
  BY NewestType DEF PrimeSession, RepeatInv
<1>3. k.upd = shows[r].upd /\ k.body = Body(shows[r])
  BY KnownIsRecord DEF RepeatInv
<1> HIDE DEF r, k
<1>4. GotCurrent' /\ SendingRepeat' = 0 /\ Credit' = Credit
  BY <1>1 DEF GotCurrent, SendingRepeat, Credit
<1>5. ASSUME NEW s \in Sessions, Settled(s, last[s])
      PROVE  Settled(s, last[s])'
  <2>1. CASE pushState'[s] = pushState[s] /\ last'[s] = last[s]
    BY <1>1, <1>5, <2>1 DEF Settled, Gone, Stable, Comparing
  <2>2. CASE s = r /\ pushState'[r] = k /\ last'[r] = k
    BY <1>1, <1>3, <2>2 DEF Settled, Stable, Comparing
  <2> QED
    BY <1>1, <1>2, <2>1, <2>2 DEF RepeatInv, PushTypeInv, TypeOK
<1>6. Owed' \subseteq Owed
  BY <1>1, <1>5 DEF Owed
<1>7. repeats \in Nat /\ requests \in Nat /\ Cardinality(Owed)' <= Cardinality(Owed)
  BY <1>6, OwedCounted DEF RepeatInv, PushTypeInv, TypeOK
<1> QED
  BY <1>1, <1>4, <1>7, OwedCounted DEF RepeatInv

(* Steps of the watcher and of the poll loop that leave records, what is   *)
(* fetched and what was told alone cost nothing.                           *)
LEMMA QuietRepeat ==
    ASSUME RepeatInv, PushTypeInv',
           UNCHANGED <<file, shows, got, pushState, last, repeats>>,
           wpc' = wpc \/ wpc' \notin {"compare", "send"},
           \/ requests' = requests /\ Credit' <= Credit
           \/ requests' = requests + 1 /\ Credit' <= Credit + 2
    PROVE  RepeatInv'
<1>1. GotCurrent' /\ SendingRepeat' <= SendingRepeat
  BY DEF RepeatInv, GotCurrent, SendingRepeat
<1>3. Owed' \subseteq Owed
  <2> SUFFICES ASSUME NEW s \in Owed' PROVE s \in Owed
    OBVIOUS
  <2>1. /\ s \in Sessions
        /\ \/ ~Settled(s, last[s])'
           \/ wpc = "send" /\ got.sid = s /\ ~Settled(s, Known(got.detail))'
    BY DEF Owed
  <2>2. ~Settled(s, last[s])' => ~Settled(s, last[s])
    BY DEF Settled, Gone, Stable, Comparing
  <2>3. ~Settled(s, Known(got.detail))' => ~Settled(s, Known(got.detail))
    BY DEF Settled, Gone, Stable, Comparing
  <2> QED BY <2>1, <2>2, <2>3 DEF Owed
<1>4. repeats \in Nat /\ requests \in Nat /\ Cardinality(Owed)' <= Cardinality(Owed)
  BY <1>3, OwedCounted DEF RepeatInv, PushTypeInv, TypeOK
<1> QED
  BY <1>1, <1>4, OwedCounted DEF RepeatInv

(* The brief may show what is being pushed, or make an earlier push due    *)
(* again; one of the two, as what is the same is settled alike.            *)
LEMMA BriefRepeat ==
    ASSUME RepeatInv, PushTypeInv', SendBrief
    PROVE  RepeatInv'
<1> DEFINE k == Known(reply)
<1>1. /\ cpc = "brief" /\ cpc' = "remember"
      /\ last' = [last EXCEPT ![about] = k]
      /\ UNCHANGED <<file, shows, wpc, got, pushState, repeats, requests>>
  BY DEF SendBrief, workerVars, watcherVars
<1>2. /\ about \in Sessions /\ last'[about] = k /\ k \in Records /\ k.upd = reply.upd
      /\ \A s \in Sessions : s # about => last'[s] = last[s]
  BY <1>1, KnownIsRecord DEF RepeatInv, PushTypeInv, TypeOK
<1>3. GotCurrent' /\ Credit = 2 /\ Credit' = 1
  BY <1>1 DEF RepeatInv, GotCurrent, Credit
<1> HIDE DEF k
<1>5. CASE wpc = "send" /\ got.sid = about /\ got.detail.upd = k.upd
  <2>1. k = Known(got.detail)
    BY <1>2, <1>5, KnownIsRecord DEF RepeatInv
  <2>2. ASSUME NEW s \in Owed' PROVE s \in Owed
    <3>1. /\ s \in Sessions
          /\ ~Settled(s, last[s])' \/ (got.sid = s /\ ~Settled(s, Known(got.detail))')
      BY <1>1, <2>2 DEF Owed
    <3>2. CASE s = about
      <4>1. ~Settled(s, Known(got.detail))
        BY <1>1, <1>2, <2>1, <3>1, <3>2 DEF Settled, Gone, Stable, Comparing
      <4> QED BY <1>5, <3>1, <3>2, <4>1 DEF Owed
    <3>3. CASE s # about
      <4>1. ~Settled(s, last[s])
        BY <1>1, <1>2, <1>5, <3>1, <3>3 DEF Settled, Gone, Stable, Comparing
      <4> QED BY <3>1, <4>1 DEF Owed
    <3> QED BY <3>2, <3>3
  <2>3. Cardinality(Owed)' <= Cardinality(Owed)
    BY <2>2, OwedCounted
  <2>4. repeats \in Nat /\ requests \in Nat /\ SendingRepeat' <= SendingRepeat + 1
    BY DEF SendingRepeat, RepeatInv, PushTypeInv, TypeOK
  <2> QED
    BY <1>1, <1>3, <2>3, <2>4, OwedCounted DEF RepeatInv
<1>6. CASE ~(wpc = "send" /\ got.sid = about /\ got.detail.upd = k.upd)
  <2>1. SendingRepeat' <= SendingRepeat
    BY <1>1, <1>2, <1>6, KnownIsRecord DEF SendingRepeat, RepeatInv
  <2>2. ASSUME NEW s \in Owed', s # about PROVE s \in Owed
    <3>1. /\ s \in Sessions
          /\ \/ ~Settled(s, last[s])'
             \/ wpc = "send" /\ got.sid = s /\ ~Settled(s, Known(got.detail))'
      BY <1>1, <2>2 DEF Owed
    <3>2. \/ ~Settled(s, last[s])
          \/ wpc = "send" /\ got.sid = s /\ ~Settled(s, Known(got.detail))
      BY <1>1, <1>2, <2>2, <3>1 DEF Settled, Gone, Stable, Comparing
    <3> QED BY <3>1, <3>2 DEF Owed
  <2>3. Cardinality(Owed)' <= Cardinality(Owed) + 1
    BY <1>2, <2>2, OwedCounted
  <2>4. repeats \in Nat /\ requests \in Nat
    BY DEF RepeatInv, PushTypeInv, TypeOK
  <2> QED
    BY <1>1, <1>3, <2>1, <2>3, <2>4, OwedCounted DEF RepeatInv
<1> QED
  BY <1>5, <1>6

(* What the poll loop remembers may be older than what was pushed, so the  *)
(* watcher may push that once more.                                        *)
LEMMA RememberRepeat ==
    ASSUME RepeatInv, PushTypeInv', RememberSnapshot
    PROVE  RepeatInv'
<1>1. /\ cpc = "remember" /\ cpc' = "idle"
      /\ pushState' = [pushState EXCEPT ![about] = Known(reply)]
      /\ UNCHANGED <<file, shows, wpc, got, last, repeats, requests>>
  BY DEF RememberSnapshot, workerVars, watcherVars, historyVars
<1>2. about \in Sessions /\ \A s \in Sessions : s # about => pushState'[s] = pushState[s]
  BY <1>1 DEF RepeatInv, PushTypeInv, TypeOK
<1>3. GotCurrent' /\ SendingRepeat' = SendingRepeat /\ Credit = 1 /\ Credit' = 0
  BY <1>1 DEF RepeatInv, GotCurrent, SendingRepeat, Credit
<1>4. ASSUME NEW s \in Owed', s # about PROVE s \in Owed
  <2>1. /\ s \in Sessions
        /\ \/ ~Settled(s, last[s])'
           \/ wpc = "send" /\ got.sid = s /\ ~Settled(s, Known(got.detail))'
    BY <1>1, <1>4 DEF Owed
  <2>2. \/ ~Settled(s, last[s])
        \/ wpc = "send" /\ got.sid = s /\ ~Settled(s, Known(got.detail))
    BY <1>1, <1>2, <1>4, <2>1 DEF Settled, Gone, Stable, Comparing
  <2> QED BY <2>1, <2>2 DEF Owed
<1>5. repeats \in Nat /\ requests \in Nat /\ Cardinality(Owed)' <= Cardinality(Owed) + 1
  BY <1>2, <1>4, OwedCounted DEF RepeatInv, PushTypeInv, TypeOK
<1> QED
  BY <1>1, <1>3, <1>5, OwedCounted DEF RepeatInv

(* Nothing is owed at the start.                                           *)
LEMMA RepeatInit == Init => RepeatInv
<1> SUFFICES ASSUME Init PROVE RepeatInv
  OBVIOUS
<1>1. PushTypeInv
  BY PushInit
<1>2. /\ wpc = "start" /\ cpc = "idle" /\ repeats = 0 /\ requests = 0 /\ file = shows
      /\ \A s \in Sessions : pushState[s] = Known(NoDetail) /\ last[s] = Known(NoDetail)
  BY DEF Init
<1>3. ASSUME NEW s \in Sessions PROVE Settled(s, last[s])
  BY <1>1, <1>2, KnownIsRecord DEF Settled, Stable, Comparing
<1>4. Owed = {}
  BY <1>2, <1>3 DEF Owed
<1>5. Cardinality(Owed) = 0
  BY <1>4, FS_EmptySet
<1>6. GotCurrent /\ SendingRepeat = 0 /\ Credit = 0
  BY <1>2 DEF GotCurrent, SendingRepeat, Credit
<1> QED
  BY <1>1, <1>2, <1>5, <1>6 DEF RepeatInv

(* Every step keeps the account of repeats.                                *)
LEMMA RepeatNext == RepeatInv /\ [Next]_vars => RepeatInv'
<1> SUFFICES ASSUME RepeatInv, [Next]_vars PROVE RepeatInv'
  OBVIOUS
<1>0. PushTypeInv' /\ PushTypeInv
  BY PushNext DEF RepeatInv
<1>1. CASE WorkerStep
  BY <1>0, <1>1, WorkerRepeat
<1>2. CASE Fetch \/ Record \/ Send \/ PollFails \/ PrimeSession
  BY <1>0, <1>2, FetchRepeat, RecordRepeat, SendRepeat, PrimeRepeat
<1>3. CASE Prime \/ Primed \/ Poll \/ FetchFails \/ Skip \/ EndPoll
  <2>1. /\ UNCHANGED <<file, shows, got, pushState, last, repeats, requests, cpc>>
        /\ wpc' = wpc \/ wpc' \notin {"compare", "send"}
    BY <1>3 DEF Prime, Primed, Poll, FetchFails, Skip, EndPoll, workerVars, chatVars, historyVars
  <2>2. Credit' = Credit /\ Credit \in 0..2
    BY <2>1 DEF Credit
  <2> QED
    BY <1>0, <2>1, <2>2, QuietRepeat
<1>4. ASSUME NEW s \in Sessions, RunCommand(s) PROVE RepeatInv'
  <2>1. /\ requests' = requests + 1 /\ repeats' = repeats
        /\ UNCHANGED <<wpc, got, pushState, last>>
    BY <1>4 DEF RunCommand, Ask, watcherVars, historyVars
  <2>2. SessionMoves(s)
    BY <1>0, <1>4, <2>1
    DEF RunCommand, Create, Tick, SessionMoves, Detail, PushTypeInv, TypeOK
  <2>3. Credit' <= Credit + 2
    BY OwedCounted
  <2> QED
    BY <1>0, <2>1, <2>2, <2>3, MovesRepeat
<1>5. ASSUME NEW s \in Sessions, FreeformMessage(s) PROVE RepeatInv'
  <2>1. /\ UNCHANGED <<file, shows, got, wpc, pushState, last, repeats>>
        /\ requests' = requests + 1
    BY <1>5 DEF FreeformMessage, Ask, workerVars, watcherVars, historyVars
  <2>2. Credit' <= Credit + 2
    BY OwedCounted
  <2> QED
    BY <1>0, <2>1, <2>2, QuietRepeat
<1>6. CASE ContinueSession
  <2>1. /\ requests' = requests /\ repeats' = repeats /\ cpc = "active" /\ cpc' = "noted"
        /\ UNCHANGED <<wpc, got, pushState, last>> /\ about \in Sessions
    BY <1>0, <1>6 DEF ContinueSession, watcherVars, historyVars, PushTypeInv, TypeOK
  <2>2. SessionMoves(about)
    BY <1>0, <1>6, <2>1
    DEF ContinueSession, Tick, SessionMoves, Details, PushTypeInv, TypeOK
  <2>3. Credit' = Credit
    BY <2>1 DEF Credit
  <2> QED
    BY <1>0, <2>1, <2>2, <2>3, MovesRepeat
<1>7. CASE FetchReply \/ FetchReplyFails \/ SendBriefFails \/ SendAck
  <2>1. UNCHANGED <<file, shows, got, wpc, pushState, last, repeats, requests>>
    BY <1>7 DEF FetchReply, FetchReplyFails, SendBriefFails, SendAck, workerVars, watcherVars,
                historyVars
  <2>2. /\ cpc \notin {"idle", "remember"}
    BY <1>7 DEF FetchReply, FetchReplyFails, SendBriefFails, SendAck
  <2>3. Credit = 2 /\ Credit' <= Credit
    BY <2>2, OwedCounted DEF Credit
  <2> QED
    BY <1>0, <2>1, <2>3, QuietRepeat
<1>8. CASE SendBrief \/ RememberSnapshot
  BY <1>0, <1>8, BriefRepeat, RememberRepeat
<1>9. CASE UNCHANGED vars
  <2>1. UNCHANGED <<file, shows, got, wpc, pushState, last, repeats, requests, cpc>>
    BY <1>9 DEF vars, workerVars, watcherVars, chatVars, historyVars
  <2>2. Credit' = Credit /\ Credit \in 0..2
    BY <2>1 DEF Credit
  <2> QED
    BY <1>0, <2>1, <2>2, QuietRepeat
<1> QED
  BY <1>1, <1>2, <1>3, <1>4, <1>5, <1>6, <1>7, <1>8, <1>9 DEF Next, WatcherStep, ChatStep

(* However polls, sends and fetches fail and whatever the worker publishes *)
(* out of order, the watcher tells the chat again what it was told last at *)
(* most twice for each message a user sends.                               *)
THEOREM RepeatsAreRare == Spec => []RepeatsBounded
<1>1. RepeatInv /\ [Next]_vars => RepeatInv'
  BY RepeatNext
<1>2. RepeatInv => RepeatsBounded
  <2> SUFFICES ASSUME RepeatInv PROVE RepeatsBounded
    OBVIOUS
  <2>1. repeats \in Nat /\ requests \in Nat
    BY DEF RepeatInv, PushTypeInv, TypeOK
  <2> QED
    BY <2>1, OwedCounted DEF RepeatInv, RepeatsBounded
<1> QED
  BY <1>1, <1>2, RepeatInit, PTL DEF Spec
=============================================================================
