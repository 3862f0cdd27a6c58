-------------------------- MODULE TelegramPoll_proofs --------------------------
(***************************************************************************)
(* Proofs about TelegramPoll: for any number of messages, any batch size   *)
(* and any number of failures, no message is lost, none overtakes another, *)
(* and one life of the process bounds how often a message acts.            *)
(***************************************************************************)
EXTENDS TelegramPoll, TLAPS

(* What the process has in memory of the messages.  While polling with an  *)
(* offset all messages before it are done with; in a batch all before the  *)
(* current one are, and the offset lies behind the batch.                  *)
BatchInv ==
    /\ ppc \in {"down", "poll"} => current = 0 /\ until = 0
    /\ ppc = "down" => offset = 0
    /\ ppc = "poll" /\ offset > 0 => offset <= sent + 1 /\ 1..(offset - 1) \subseteq handled
    /\ ppc \in {"handle", "again", "reply"} =>
           /\ current > 0 /\ until <= sent /\ offset = until + 1
           /\ 1..(current - 1) \subseteq handled
    /\ ppc = "again" => kind[current] = "stop"
    /\ \A m \in Messages : m > sent => kind[m] = "none"

(* How often this life of the process may still let a message act.         *)
Untouched(m) ==
    \/ ppc = "poll" /\ m >= offset
    \/ ppc = "handle" /\ m >= current
    \/ ppc \in {"again", "reply"} /\ m > current

Halfway(m) ==
    /\ m = current /\ kind[m] = "stop"
    /\ ppc = "again" \/ (ppc = "reply" /\ answer = "ok")

Chances(m) ==
    IF Untouched(m) THEN IF kind[m] = "stop" THEN 2 ELSE 1
    ELSE IF Halfway(m) THEN 1 ELSE 0

LifeInv == \A m \in Messages : effects[m] + Chances(m) <= Allowed(m)

PollInv == TypeOK /\ NothingLost /\ InOrder /\ BatchInv /\ LifeInv

(* The invariant holds at the start.                                       *)
LEMMA PollInit == Init => PollInv
  BY PollAssumption DEF Init, PollInv, TypeOK, NothingLost, InOrder, BatchInv, LifeInv, Chances,
     Untouched, Halfway, Allowed, Messages, Kinds

(* Chances are few, and nobody has any while the process is down.          *)
LEMMA ChancesType ==
    ASSUME NEW m \in Messages
    PROVE  /\ Chances(m) \in 0..2
           /\ Untouched(m) => Chances(m) = IF kind[m] = "stop" THEN 2 ELSE 1
           /\ ~Untouched(m) => Chances(m) \in 0..1
           /\ ~Untouched(m) /\ ~Halfway(m) => Chances(m) = 0
  BY DEF Chances

(* A message that does not act and gains no chance keeps its bound.        *)
LEMMA NoChanceGained ==
    ASSUME PollInv, UNCHANGED <<kind, lives>>, NEW m \in Messages,
           effects'[m] = effects[m],
           Untouched(m)' => Untouched(m),
           Halfway(m)' => Untouched(m) \/ Halfway(m)
    PROVE  effects'[m] + Chances(m)' <= Allowed(m)'
<1>1. Allowed(m)' = Allowed(m)
  BY DEF Allowed
<1>2. Chances(m) \in 0..2 /\ effects[m] \in Nat /\ effects[m] + Chances(m) <= Allowed(m)
  BY ChancesType DEF PollInv, LifeInv, TypeOK
<1>3. Allowed(m) \in Nat
  BY DEF Allowed, PollInv, TypeOK
<1>4. PICK c \in 0..2 : Chances(m)' = c /\ c <= Chances(m)
  BY DEF Chances
<1>5. effects[m] + c <= Allowed(m)
  BY <1>2, <1>3, <1>4
<1> QED
  BY <1>1, <1>4, <1>5

(* Being done with the current message keeps order and memory intact.      *)
LEMMA DoneKeeps ==
    ASSUME PollInv, ppc \in {"handle", "reply"}, Done,
           UNCHANGED <<telegramVars, effects, lives, faults>>
    PROVE  PollInv'
<1> USE PollAssumption DEF PollInv, telegramVars
<1>1. TypeOK'
  BY DEF Done, TypeOK, BatchInv, Messages
<1>2. NothingLost'
  BY DEF Done, NothingLost
<1>3. InOrder'
  BY DEF Done, InOrder, BatchInv, TypeOK, Messages
<1>4. BatchInv'
  <2>1. 1..current \subseteq handled' /\ offset' = offset /\ sent' = sent
    BY DEF Done, BatchInv, TypeOK
  <2>2. current \in Nat /\ until \in Nat /\ offset = until + 1 /\ until <= sent /\ sent \in Nat
    BY DEF BatchInv, TypeOK
  <2>3. CASE current = until
    BY <2>1, <2>2, <2>3 DEF Done, BatchInv
  <2>4. CASE current # until
    <3>1. ppc' = "handle" /\ current' = current + 1 /\ until' = until
      BY <2>4 DEF Done
    <3> QED
      BY <2>1, <2>2, <3>1 DEF BatchInv
  <2> QED
    BY <2>3, <2>4
<1>5. LifeInv'
  <2>1. ASSUME NEW m \in Messages
        PROVE  effects'[m] + Chances(m)' <= Allowed(m)'
    <3>1. m \in Nat /\ current \in Nat /\ offset \in Nat /\ current <= until /\ offset = until + 1
      BY DEF Messages, TypeOK, BatchInv
    <3>2. Untouched(m)' => m > current
      BY <3>1 DEF Done, Untouched
    <3>3. Untouched(m)' => Untouched(m)
      BY <3>1, <3>2 DEF Untouched
    <3>4. ~Halfway(m)'
      BY DEF Done, Halfway
    <3> QED
      BY <3>3, <3>4, NoChanceGained
  <2> QED
    BY <2>1 DEF LifeInv
<1> QED
  BY <1>1, <1>2, <1>3, <1>4, <1>5

(* The end of a process loses its memory and nothing else, even when the   *)
(* current message had its effect.                                         *)
LEMMA DieKeeps ==
    ASSUME PollInv, Die, UNCHANGED <<sent, kind, handled, lives>>, faults' \in Nat,
           confirmed' \in 0..sent, \A m \in 1..confirmed' : m \in handled,
           effects' \in [Messages -> Nat], \A m \in Messages : effects'[m] <= Allowed(m)
    PROVE  PollInv'
<1> USE PollAssumption DEF PollInv
<1>1. TypeOK' /\ NothingLost' /\ InOrder' /\ BatchInv'
  BY DEF Die, TypeOK, NothingLost, InOrder, BatchInv, Messages
<1>2. LifeInv'
  <2>1. ASSUME NEW m \in Messages
        PROVE  effects'[m] + Chances(m)' <= Allowed(m)'
    <3>1. Chances(m)' = 0
      BY DEF Die, Chances, Untouched, Halfway
    <3>2. Allowed(m)' = Allowed(m)
      BY DEF Allowed
    <3>3. effects'[m] \in Nat /\ effects'[m] <= Allowed(m)
      OBVIOUS
    <3> QED
      BY <3>1, <3>2, <3>3
  <2> QED
    BY <2>1 DEF LifeInv
<1> QED
  BY <1>1, <1>2

(* A process that dies has let no message act more than it may.            *)
LEMMA EffectsAllowed ==
    ASSUME PollInv, NEW m \in Messages
    PROVE  effects[m] \in Nat /\ effects[m] <= Allowed(m)
<1>1. effects[m] \in Nat /\ Chances(m) \in 0..2 /\ Allowed(m) \in Nat
  BY ChancesType DEF PollInv, TypeOK, Allowed
<1>2. effects[m] + Chances(m) <= Allowed(m)
  BY DEF PollInv, LifeInv
<1> QED
  BY <1>1, <1>2

(* A batch is not empty and ends with a message that was sent.             *)
LEMMA BatchBounds ==
    ASSUME NEW c \in Nat, NEW s \in Nat, NEW b \in Nat \ {0}, c < s,
           NEW u, u = IF s - c > b THEN c + b ELSE s
    PROVE  u \in Nat /\ c + 1 <= u /\ u <= s
<1>1. CASE s - c > b
  BY <1>1
<1>2. CASE ~(s - c > b)
  BY <1>2
<1> QED
  BY <1>1, <1>2

(* What Telegram forgets on a poll is done with.                           *)
LEMMA ConfirmKeeps ==
    ASSUME PollInv, ppc = "poll", Confirm
    PROVE  \E c \in 0..sent :
               confirmed' = c /\ offset <= c + 1 /\ \A m \in 1..c : m \in handled
<1> DEFINE c == IF offset > confirmed + 1 THEN offset - 1 ELSE confirmed
<1>1. confirmed' = c
  BY DEF Confirm
<1>2. c \in 0..sent /\ offset <= c + 1 /\ \A m \in 1..c : m \in handled
  BY DEF PollInv, TypeOK, NothingLost, BatchInv
<1> QED
  BY <1>1, <1>2

(* A batch starts with the first message that Telegram still has.          *)
LEMMA PollMessagesKeeps ==
    ASSUME PollInv, PollMessages
    PROVE  PollInv'
<1>1. PICK c \in 0..sent :
          confirmed' = c /\ offset <= c + 1 /\ \A m \in 1..c : m \in handled
  BY ConfirmKeeps DEF PollMessages
<1> DEFINE u == IF sent - c > Batch THEN c + Batch ELSE sent
<1>2. /\ sent \in Nat /\ sent <= MaxMessages /\ MaxMessages \in Nat /\ Batch \in Nat \ {0}
      /\ offset \in Nat /\ c \in Nat
  BY <1>1, PollAssumption DEF PollInv, TypeOK
<1>3. c < sent
  BY <1>1 DEF PollMessages
<1>4. u \in Nat /\ c + 1 <= u /\ u <= sent
  BY <1>2, <1>3, BatchBounds
<1>5. until' = u
  BY <1>1 DEF PollMessages
<1>6. current' = c + 1
  BY <1>1 DEF PollMessages
<1>7. offset' = u + 1
  BY <1>5 DEF PollMessages
<1>8. /\ ppc' = "handle" /\ ppc = "poll"
      /\ sent' = sent /\ kind' = kind /\ answer' = answer /\ handled' = handled
      /\ effects' = effects /\ lives' = lives /\ faults' = faults
  BY DEF PollMessages, historyVars
<1> HIDE DEF u
<1>9. TypeOK'
  <2>1. /\ c \in 0..sent /\ c + 1 \in 0..MaxMessages /\ u \in (c + 1)..MaxMessages
        /\ u + 1 \in 0..(MaxMessages + 1)
    BY <1>2, <1>3, <1>4
  <2> QED
    BY <1>1, <1>5, <1>6, <1>7, <1>8, <2>1 DEF PollInv, TypeOK
<1>10. NothingLost' /\ InOrder'
  BY <1>1, <1>8 DEF PollInv, NothingLost, InOrder
<1>11. BatchInv'
  <2>1. c + 1 > 0 /\ (c + 1) - 1 = c
    BY <1>2
  <2>2. 1..((c + 1) - 1) \subseteq handled
    BY <1>1, <2>1
  <2>3. \A m \in Messages : m > sent => kind[m] = "none"
    BY DEF PollInv, BatchInv
  <2> QED
    BY <1>4, <1>5, <1>6, <1>7, <1>8, <2>1, <2>2, <2>3 DEF BatchInv
<1>12. LifeInv'
  <2>1. ASSUME NEW m \in Messages
        PROVE  effects'[m] + Chances(m)' <= Allowed(m)'
    <3>1. m \in Nat /\ (m >= c + 1 => m >= offset)
      BY <1>1, <1>2 DEF Messages
    <3>2. (Untouched(m)' => Untouched(m)) /\ ~Halfway(m)'
      BY <1>6, <1>8, <3>1 DEF Untouched, Halfway
    <3> QED
      BY <1>8, <3>2, NoChanceGained
  <2> QED
    BY <2>1 DEF LifeInv
<1> QED
  BY <1>9, <1>10, <1>11, <1>12 DEF PollInv

(* A call changes the session at most once, for the current message.       *)
LEMMA CallCounts ==
    ASSUME PollInv, ppc \in {"handle", "again"}, Effect \/ effects' = effects
    PROVE  /\ current \in Messages
           /\ effects' \in [Messages -> Nat]
           /\ \A m \in Messages : m # current => effects'[m] = effects[m]
           /\ effects'[current] \in {effects[current], effects[current] + 1}
<1>1. current \in Messages /\ effects \in [Messages -> Nat]
  BY PollAssumption DEF PollInv, TypeOK, BatchInv, Messages
<1>2. CASE effects' = effects
  BY <1>1, <1>2
<1>3. CASE Effect
  BY <1>1, <1>3 DEF Effect
<1> QED
  BY <1>2, <1>3

(* The current message may still act when its call is made.                *)
LEMMA CallAllowed ==
    ASSUME PollInv, ppc \in {"handle", "again"}, Effect \/ effects' = effects
    PROVE  \A m \in Messages : effects'[m] <= Allowed(m)
<1>1. Halfway(current) \/ Untouched(current)
  BY DEF PollInv, BatchInv, TypeOK, Halfway, Untouched
<1>2. Chances(current) \in 1..2
  BY <1>1 DEF Chances
<1>3. effects[current] \in Nat /\ effects[current] + 1 <= Allowed(current)
  BY <1>2, CallCounts, EffectsAllowed DEF PollInv, LifeInv, Allowed, TypeOK
<1> SUFFICES ASSUME NEW m \in Messages
             PROVE  effects'[m] <= Allowed(m)
  OBVIOUS
<1>4. CASE m = current
  BY <1>3, <1>4, CallCounts, EffectsAllowed
<1>5. CASE m # current
  BY <1>5, CallCounts, EffectsAllowed
<1> QED
  BY <1>4, <1>5

(* After a call the chances left to its message are fewer by one.          *)
LEMMA CallKeeps ==
    ASSUME PollInv, Effect \/ effects' = effects,
           UNCHANGED <<telegramVars, handled, lives, offset, current, until>>, faults' \in Nat,
           answer' \in {"none", "ok", "job", "failed"},
           \/ ppc = "handle" /\ ppc' = "reply"
           \/ ppc = "handle" /\ kind[current] = "stop" /\ ppc' = "again"
           \/ ppc = "again" /\ ppc' = "reply" /\ answer' # "ok"
    PROVE  PollInv'
<1> USE DEF PollInv, telegramVars
<1>1. /\ current \in Messages
      /\ effects' \in [Messages -> Nat]
      /\ \A m \in Messages : m # current => effects'[m] = effects[m]
      /\ effects'[current] \in {effects[current], effects[current] + 1}
  BY CallCounts
<1>2. TypeOK' /\ NothingLost' /\ InOrder' /\ BatchInv'
  BY <1>1 DEF TypeOK, NothingLost, InOrder, BatchInv
<1>3. PICK c \in 1..2, d \in 0..1 : Chances(current) = c /\ Chances(current)' = d /\ d + 1 <= c
  <2>1. current \in Nat
    BY DEF TypeOK
  <2>2. CASE ppc = "again"
    BY <2>1, <2>2 DEF Chances, Halfway, Untouched, BatchInv
  <2>3. CASE ppc = "handle" /\ kind[current] = "stop"
    BY <2>1, <2>3 DEF Chances, Halfway, Untouched
  <2>4. CASE ppc = "handle" /\ kind[current] # "stop"
    BY <2>1, <2>4 DEF Chances, Halfway, Untouched
  <2> QED
    BY <2>2, <2>3, <2>4
<1>4. ASSUME NEW m \in Messages
      PROVE  effects'[m] + Chances(m)' <= Allowed(m)'
  <2>1. CASE m = current
    <3>1. effects[m] \in Nat /\ Allowed(m) \in Nat /\ Allowed(m)' = Allowed(m)
      BY DEF TypeOK, Allowed
    <3>2. PICK e \in {effects[m], effects[m] + 1} : effects'[m] = e
      BY <1>1, <2>1
    <3>3. effects[m] + c <= Allowed(m)
      BY <1>3, <2>1 DEF LifeInv
    <3>4. e + d <= Allowed(m)
      BY <1>3, <3>1, <3>2, <3>3
    <3> QED
      BY <1>3, <2>1, <3>1, <3>2, <3>4
  <2>2. CASE m # current
    <3>1. m \in Nat /\ current \in Nat
      BY <1>1 DEF Messages
    <3>2. (Untouched(m)' => Untouched(m)) /\ ~Halfway(m)'
      BY <2>2, <3>1 DEF Untouched, Halfway
    <3> QED
      BY <1>1, <2>2, <3>2, NoChanceGained
  <2> QED
    BY <2>1, <2>2
<1> QED
  BY <1>2, <1>4 DEF LifeInv

(* What leaves the messages' fates alone leaves their bounds alone.        *)
LEMMA NothingActs ==
    ASSUME PollInv, UNCHANGED <<kind, effects, lives>>,
           \A m \in Messages :
               /\ Untouched(m)' => Untouched(m)
               /\ Halfway(m)' => Untouched(m) \/ Halfway(m)
    PROVE  LifeInv'
  BY NoChanceGained DEF LifeInv

(* A failing reply takes the command's way out, and no chance is gained.   *)
LEMMA SendRaisesKeeps ==
    ASSUME PollInv, SendRaises
    PROVE  PollInv'
<1> USE PollAssumption DEF PollInv, telegramVars, SendRaises, Fault
<1>1. CASE Die
  BY <1>1, DieKeeps, EffectsAllowed DEF TypeOK, NothingLost
<1>2. CASE Reply("failed")
  <2>1. LifeInv'
    BY <1>2, NothingActs DEF Reply, Untouched, Halfway
  <2> QED
    BY <1>2, <2>1 DEF Reply, TypeOK, NothingLost, InOrder, BatchInv
<1>3. CASE answer = "ok" /\ kind[current] = "stop" /\ TryJob
  <2>1. LifeInv'
    BY <1>3, NothingActs DEF TryJob, Untouched, Halfway
  <2> QED
    BY <1>3, <2>1 DEF TryJob, TypeOK, NothingLost, InOrder, BatchInv
<1> QED
  BY <1>1, <1>2, <1>3

(* A message that users send may be a /stop, which may act more often.     *)
LEMMA UserSendsKeeps ==
    ASSUME PollInv, UserSends
    PROVE  PollInv'
<1> USE PollAssumption DEF PollInv, UserSends, processVars, historyVars
<1>1. PICK k \in Kinds : kind' = [kind EXCEPT ![sent'] = k]
  OBVIOUS
<1>2. sent \in Nat /\ sent' = sent + 1 /\ sent' \in Messages /\ sent' \in Nat
  BY DEF TypeOK, Messages
<1>3. TypeOK' /\ NothingLost' /\ InOrder'
  BY <1>1, <1>2 DEF TypeOK, NothingLost, InOrder
<1>4. BatchInv'
  BY <1>1, <1>2 DEF BatchInv, TypeOK, Messages
<1>5. ASSUME NEW m \in Messages
      PROVE  effects'[m] + Chances(m)' <= Allowed(m)'
  <2>1. effects[m] \in Nat /\ lives \in Nat /\ effects[m] + Chances(m) <= Allowed(m)
    BY DEF TypeOK, LifeInv
  <2>2. CASE kind'[m] = kind[m]
    BY <2>1, <2>2 DEF Chances, Allowed, Untouched, Halfway
  <2>3. CASE kind'[m] # kind[m]
    <3>1. m = sent + 1 /\ m # current /\ m \in Nat /\ kind[m] = "none"
      BY <1>1, <1>2, <2>3 DEF TypeOK, BatchInv, Messages
    <3> QED
      BY <2>1, <3>1 DEF Chances, Allowed, Untouched, Halfway
  <2> QED
    BY <2>2, <2>3
<1> QED
  BY <1>3, <1>4, <1>5 DEF LifeInv

(* A new life lets every message act once more, and a /stop twice.         *)
LEMMA StartKeeps ==
    ASSUME PollInv, Start
    PROVE  PollInv'
<1> USE PollAssumption DEF PollInv, Start, telegramVars
<1>1. TypeOK' /\ NothingLost' /\ InOrder' /\ BatchInv'
  BY DEF TypeOK, NothingLost, InOrder, BatchInv
<1>2. ASSUME NEW m \in Messages
      PROVE  effects'[m] + Chances(m)' <= Allowed(m)'
  <2>1. effects[m] \in Nat /\ effects[m] <= Allowed(m)
    BY EffectsAllowed
  <2>2. lives \in Nat
    BY DEF TypeOK
  <2>3. CASE kind[m] = "stop"
    BY <2>1, <2>2, <2>3 DEF Chances, Allowed, Untouched, Halfway
  <2>4. CASE kind[m] # "stop"
    BY <2>1, <2>2, <2>4 DEF Chances, Allowed, Untouched, Halfway
  <2> QED
    BY <2>3, <2>4
<1> QED
  BY <1>1, <1>2 DEF LifeInv

(* Every step keeps the invariant.                                         *)
LEMMA PollNext ==
    ASSUME PollInv, [Next]_vars
    PROVE  PollInv'
<1> USE PollAssumption DEF PollInv, telegramVars, processVars, historyVars
<1>1. CASE UserSends
  BY <1>1, UserSendsKeeps
<1>2. CASE Start
  BY <1>2, StartKeeps
<1>3. CASE PollMessages
  BY <1>3, PollMessagesKeeps
<1>4. CASE PollEmpty
  <2>1. /\ confirmed' \in 0..sent
        /\ \A m \in 1..confirmed' : m \in handled
    BY <1>4, ConfirmKeeps DEF PollEmpty
  <2>2. LifeInv'
    BY <1>4, NothingActs DEF PollEmpty, Untouched, Halfway
  <2> QED
    BY <1>4, <2>1, <2>2 DEF PollEmpty, TypeOK, NothingLost, InOrder, BatchInv
<1>5. CASE Ignore
  BY <1>5, DoneKeeps DEF Ignore
<1>6. CASE Query
  <2>1. LifeInv'
    <3>1. current \in Nat /\ \A m \in Messages : m \in Nat
      BY DEF TypeOK, Messages
    <3> QED
      BY <1>6, <3>1, NothingActs DEF Query, Reply, Untouched, Halfway
  <2> QED
    BY <1>6, <2>1 DEF Query, Reply, TypeOK, NothingLost, InOrder, BatchInv
<1>7. CASE CallSucceeds
  BY <1>7, CallKeeps DEF CallSucceeds, Reply, TypeOK
<1>8. CASE SendReply
  BY <1>8, DoneKeeps DEF SendReply
<1>9. CASE Killed
  BY <1>9, DieKeeps, EffectsAllowed DEF Killed, Fault, TypeOK, NothingLost
<1>10. CASE PollRaises
  <2>1. /\ confirmed' \in 0..sent
        /\ \A m \in 1..confirmed' : m \in handled
    BY <1>10, ConfirmKeeps DEF PollRaises, TypeOK, NothingLost
  <2> QED
    BY <1>10, <2>1, DieKeeps, EffectsAllowed DEF PollRaises, Fault, TypeOK
<1>11. CASE CallFails
  <2>1. CASE Reply("failed")
    BY <1>11, <2>1, CallKeeps DEF CallFails, Fault, Reply, TypeOK
  <2>2. CASE Die
    BY <1>11, <2>2, DieKeeps, CallCounts, CallAllowed DEF CallFails, Fault, TypeOK, NothingLost
  <2> QED
    BY <1>11, <2>1, <2>2 DEF CallFails
<1>12. CASE SendRaises
  BY <1>12, SendRaisesKeeps
<1>13. CASE StopSession
  BY <1>13, CallKeeps DEF StopSession, Reply, TryJob, TypeOK
<1>14. CASE StopSessionFails
  BY <1>14, CallKeeps DEF StopSessionFails, Fault, TryJob, TypeOK
<1>15. CASE StopJob
  BY <1>15, CallKeeps DEF StopJob, Reply, TypeOK
<1>16. CASE StopJobFails
  BY <1>16, CallKeeps DEF StopJobFails, Fault, Reply, TypeOK
<1>17. CASE UNCHANGED vars
  BY <1>17, NothingActs DEF vars, TypeOK, NothingLost, InOrder, BatchInv, Untouched, Halfway
<1> QED
  BY <1>1, <1>2, <1>3, <1>4, <1>5, <1>6, <1>7, <1>8, <1>9, <1>10, <1>11, <1>12, <1>13, <1>14,
     <1>15, <1>16, <1>17 DEF Next, ProcessStep, FaultStep

(* The invariant holds throughout.                                         *)
LEMMA PollHolds == Spec => []PollInv
<1>1. PollInv /\ [Next]_vars => PollInv'
  BY PollNext
<1> QED
  BY <1>1, PollInit, PTL DEF Spec

(* The queue, the batch in memory and the counts keep their types.         *)
THEOREM PollTypes == Spec => []TypeOK
<1>1. PollInv => TypeOK
  BY DEF PollInv
<1> QED
  BY <1>1, PollHolds, PTL

(* No message of a user is lost: what Telegram has been told to forget has *)
(* been handled, whenever the process dies and is started again.           *)
THEOREM MessagesSafe == Spec => []NothingLost
<1>1. PollInv => NothingLost
  BY DEF PollInv
<1> QED
  BY <1>1, PollHolds, PTL

(* No message is handled before an earlier one, whatever is fetched twice. *)
THEOREM MessagesInOrder == Spec => []InOrder
<1>1. PollInv => InOrder
  BY DEF PollInv
<1> QED
  BY <1>1, PollHolds, PTL

(* In one life of the process a message starts a session or adds a note at *)
(* most once, and a /stop acts at most twice.                              *)
THEOREM MessagesActOnce == Spec => []OncePerLife
<1>1. PollInv => OncePerLife
  BY EffectsAllowed DEF PollInv, OncePerLife
<1> QED
  BY <1>1, PollHolds, PTL
=============================================================================
