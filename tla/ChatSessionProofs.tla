-------------------------- MODULE ChatSessionProofs --------------------------
(***************************************************************************)
(* Proofs about the chat panel, for every number of sessions, questions,   *)
(* retries, switches and faults: where an answer is recorded, which row is *)
(* live, and, for a user who opens sessions between queries only, that the *)
(* screen, the store and the newest exchange agree.                        *)
(***************************************************************************)
EXTENDS ChatSession, SequenceTheorems, TLAPS

-----------------------------------------------------------------------------
(* The inductive invariant of every chat.                                   *)

Signal == [kind : {"token", "restart", "finished"}, ok : BOOLEAN,
           message : Message]

(* The report a query makes of its reply.                                   *)
Finished ==
  [kind |-> "finished", ok |-> reply # Nothing, message |-> reply]

(* The signals of one query: its report comes last, and once.               *)
SignalsInOrder ==
  /\ at # "none" =>
       /\ querying
       /\ \A i \in DOMAIN signals : signals[i].kind # "finished"
  /\ at = "none" /\ querying =>
       /\ signals # <<>> /\ Last(signals) = Finished
       /\ \A i \in 1 .. Len(signals) - 1 : signals[i].kind # "finished"
  /\ ~querying => at = "none" /\ signals = <<>>

(* What is recorded, remembered and being worked on belongs to the session  *)
(* its question was asked in.                                               *)
AskedHere(q, s) == q \in 1 .. questions /\ askedIn[q] = s

RowsInPlace ==
  \A s \in Sessions : \A i \in DOMAIN chat[s] : AskedHere(chat[s][i].about, s)

WorkInPlace ==
  /\ queries <= questions + MaxRetries
  /\ RowsInPlace
  /\ lastQuestion # 0 => session # 0 /\ AskedHere(lastQuestion, session)
  /\ querying => job.session \in Sessions /\ AskedHere(job.question, job.session)
  /\ querying => retrying = job.retry
  /\ reply # Nothing => ~reply.user /\ reply.about = job.question
  /\ at = "record" => reply # Nothing

(* The session on screen exists; one that does not holds no messages.       *)
SessionsExist ==
  /\ session # 0 => session \in sessions
  /\ \A s \in sessions : s <= created
  /\ \A s \in Sessions : s \notin sessions => chat[s] = <<>>

ChatInv ==
  /\ ChatTypeOK
  /\ SignalsInOrder
  /\ LiveRowIsLast
  /\ WorkInPlace
  /\ SessionsExist

-----------------------------------------------------------------------------
(* The inductive invariant of a user who switches between queries only.     *)

(* What the running query finds recorded when it ends, or fails.            *)
RecordSoFar ==
  querying =>
    /\ at \in {"load", "persist"} => chat[job.session] = before
    /\ at = "persist" => ~job.retry
    /\ at \notin {"none", "report"} \/ reply = Nothing =>
         \/ chat[job.session] = before
         \/ ~job.retry /\ chat[job.session] = Append(before, Asked(job.question))

(* The rows before the one the answer will be.                              *)
Base ==
  IF job.retry THEN SubSeq(before, 1, Len(before) - 1)
  ELSE Append(before, Asked(job.question))

(* What is recorded of the running query when no statement fails.           *)
Recorded ==
  IF at \in {"none", "report"} /\ reply # Nothing THEN Append(Base, reply)
  ELSE IF job.retry \/ at \in {"load", "persist"} THEN before
  ELSE Base

(* What is on screen of it.                                                 *)
OnScreen ==
  /\ live = 0 => ~job.retry /\ view = Base
  /\ live # 0 => /\ Len(view) = Len(Base) + 1
                 /\ \A i \in 1 .. Len(Base) : view[i] = Base[i]

Shown == IF session = 0 THEN <<>> ELSE chat[session]

(* The running query, the session it runs in and the screen.                *)
Running ==
  /\ session # 0 /\ job.session = session /\ job.question = lastQuestion
  /\ ~job.retry => ~lastWasSearch
  /\ job.retry => /\ EndsInAnswer(before) /\ lastAnswer = Last(before)
                  /\ Last(before).about = job.question
  /\ chat[session] = Recorded
  /\ OnScreen

SteadyInv ==
  /\ AnswersFollowQuestions
  /\ LastExchangeIsOnScreen
  /\ ~querying => view = Shown
  /\ querying => Running

-----------------------------------------------------------------------------
(* Lemmas about messages and sequences of them.                             *)

LEMMA NothingIsAMessage == Nothing \in Message
  BY ChatAssumption DEF Nothing, Message

LEMMA AskedIsAMessage ==
  ASSUME NEW q \in 0 .. MaxQuestions
  PROVE  /\ Asked(q) \in Message /\ Asked(q).user /\ Asked(q).about = q
  BY ChatAssumption DEF Asked, Message

LEMMA AnsweredIsAMessage ==
  ASSUME job.question \in 0 .. MaxQuestions,
         job.query \in 0 .. MaxQuestions + MaxRetries,
         NEW text \in {"partial", "answer", "refusal", "notice"},
         NEW tool \in Tools \union {""}
  PROVE  /\ Answered(text, tool) \in Message
         /\ Answered(text, tool) # Nothing
         /\ ~Answered(text, tool).user
         /\ Answered(text, tool).about = job.question
  BY DEF Answered, Message, Nothing

(* A row is written anew.                                                   *)
LEMMA RowReplaced ==
  ASSUME NEW T, NEW s \in Seq(T), NEW i \in 1 .. Len(s), NEW m \in T
  PROVE  /\ [s EXCEPT ![i] = m] \in Seq(T)
         /\ Len([s EXCEPT ![i] = m]) = Len(s)
         /\ [s EXCEPT ![i] = m][i] = m
         /\ \A j \in 1 .. Len(s) : j # i => [s EXCEPT ![i] = m][j] = s[j]
  BY ExceptSeq

(* The newest row is written anew.                                          *)
LEMMA NewestReplaced ==
  ASSUME NEW T, NEW s \in Seq(T), s # <<>>, NEW m \in T
  PROVE  LET t == SubSeq(s, 1, Len(s) - 1) \o <<m>>
         IN  /\ t \in Seq(T) /\ Len(t) = Len(s) /\ t[Len(s)] = m
             /\ t = Append(SubSeq(s, 1, Len(s) - 1), m)
             /\ \A j \in 1 .. Len(s) : j # Len(s) => t[j] = s[j]
<1> DEFINE n == Len(s) - 1
           u == SubSeq(s, 1, n)
<1>1. n \in Nat /\ n <= Len(s) /\ Len(s) \in Nat /\ n + 1 = Len(s)
  BY EmptySeq, LenProperties
<1>2. u \in Seq(T) /\ Len(u) = n /\ \A j \in 1 .. n : u[j] = s[j]
  BY <1>1, SubSeqProperties
<1> HIDE DEF u, n
<1>3. u \o <<m>> = Append(u, m)
  BY <1>2, AppendIsConcat
<1>4. /\ Append(u, m) \in Seq(T) /\ Len(Append(u, m)) = n + 1
      /\ Append(u, m)[n + 1] = m
      /\ \A j \in 1 .. n : Append(u, m)[j] = u[j]
  BY <1>2, AppendProperties
<1>5. u \o <<m>> \in Seq(T) /\ Len(u \o <<m>>) = Len(s)
      /\ (u \o <<m>>)[Len(s)] = m
      /\ \A j \in 1 .. Len(s) : j # Len(s) => (u \o <<m>>)[j] = s[j]
  BY <1>1, <1>2, <1>3, <1>4
<1>6. QED BY <1>3, <1>5 DEF u, n

(* Another text makes it no other message.                                  *)
LEMMA TextReplaced ==
  ASSUME NEW m \in Message, NEW text \in {"", "partial"},
         NEW tool \in {m.tool, ""}
  PROVE  LET t == [m EXCEPT !.text = text, !.tool = tool]
         IN  t \in Message /\ t.user = m.user /\ t.about = m.about
  BY DEF Message

-----------------------------------------------------------------------------
(* The types, by whose variables they are.                                  *)

StoreTypes ==
  /\ chat \in [Sessions -> Seq(Message)]
  /\ sessions \subseteq Sessions
  /\ created \in 0 .. MaxSessions

LastTypes ==
  /\ lastQuestion \in 0 .. MaxQuestions
  /\ lastAnswer \in Message
  /\ lastWasSearch \in BOOLEAN

UiTypes ==
  /\ session \in 0 .. MaxSessions
  /\ view \in Seq(Message)
  /\ live \in 0 .. Len(view)
  /\ LastTypes
  /\ retrying \in BOOLEAN
  /\ querying \in BOOLEAN

Places == {"none", "load", "persist", "route", "summarize", "retrieve",
           "generate", "fallback", "record", "report"}

Legs == {"none", "chat", "summary", "overview", "search", "deeper", "read"}

JobTypes ==
  /\ job \in [session : 0 .. MaxSessions, question : 0 .. MaxQuestions,
              retry : BOOLEAN, query : 0 .. MaxQuestions + MaxRetries]
  /\ usedDocuments \in BOOLEAN

WorkerTypes ==
  /\ at \in Places
  /\ leg \in Legs
  /\ streamed \in BOOLEAN
  /\ reply \in Message
  /\ JobTypes

GhostTypes ==
  /\ queries \in 0 .. MaxQuestions + MaxRetries
  /\ questions \in 0 .. MaxQuestions
  /\ switches \in 0 .. MaxSwitches
  /\ askedIn \in [Questions -> 0 .. MaxSessions]
  /\ before \in Seq(Message)

LEMMA TypesByOwner ==
  ChatTypeOK <=> /\ StoreTypes /\ UiTypes /\ WorkerTypes /\ GhostTypes
                 /\ signals \in Seq(Signal)
                 /\ faults \in 0 .. MaxFaults
                 /\ lost \in BOOLEAN
  BY DEF ChatTypeOK, StoreTypes, LastTypes, UiTypes, Places, Legs, JobTypes,
         WorkerTypes, GhostTypes, Signal

LEMMA NextTypesByOwner ==
  ChatTypeOK' <=> /\ StoreTypes' /\ UiTypes' /\ WorkerTypes' /\ GhostTypes'
                  /\ signals' \in Seq(Signal)
                  /\ faults' \in 0 .. MaxFaults
                  /\ lost' \in BOOLEAN
  BY DEF ChatTypeOK, StoreTypes, LastTypes, UiTypes, Places, Legs, JobTypes,
         WorkerTypes, GhostTypes, Signal

-----------------------------------------------------------------------------
(* The steps of the worker between the question and the answer, by what     *)
(* they have in common.                                                     *)

PipelineStep ==
  /\ at \in {"route", "summarize", "retrieve", "generate", "fallback"}
  /\ UNCHANGED <<chat, job, usedDocuments, lost>>
  /\ InWorker
  /\ faults' \in 0 .. MaxFaults
  /\ leg' \in Legs /\ streamed' \in BOOLEAN
  /\ signals' = signals \/ \E kind \in {"token", "restart"} : Emit(kind)
  /\ \/ /\ at' \in {"summarize", "retrieve", "generate", "fallback"}
        /\ reply' \in {reply, Answered("refusal", "search")}
     \/ /\ at' = "record"
        /\ \E text \in {"answer", "refusal", "notice"}, tool \in Tools :
             reply' = Answered(text, tool)
     \/ at' = "report" /\ reply' = Nothing

LEMMA PipelineSteps ==
  ASSUME ChatTypeOK,
         Route \/ Summarize \/ Retrieve \/ StreamToken \/ GenerationEnds
           \/ Fallback
  PROVE  PipelineStep
<1> USE DEF PipelineStep, Legs, Tools, Generate, Succeed, Fail
<1>1. leg \in Legs /\ streamed \in BOOLEAN /\ faults \in 0 .. MaxFaults
  BY DEF ChatTypeOK
<1>2. CASE Route
  BY <1>1, <1>2 DEF Route
<1>3. CASE Summarize
  BY <1>1, <1>3 DEF Summarize
<1>4. CASE Retrieve
  BY <1>1, <1>4 DEF Retrieve
<1>5. CASE StreamToken
  BY <1>1, <1>5 DEF StreamToken
<1>6. CASE GenerationEnds
  <2>1. /\ at = "generate" /\ UNCHANGED <<chat, job, usedDocuments, faults, lost>>
        /\ InWorker
    BY <1>6 DEF GenerationEnds
  <2>2. CASE ConverseEnds \/ SummaryEnds
    BY <1>1, <2>1, <2>2 DEF ConverseEnds, SummaryEnds, Decline
  <2>3. CASE SearchEnds \/ DeeperEnds \/ ReadEnds
    BY <1>1, <2>1, <2>3 DEF SearchEnds, DeeperEnds, ReadEnds, Decline
  <2>4. QED BY <1>6, <2>2, <2>3 DEF GenerationEnds
<1>7. CASE Fallback
  <2>1. faults' \in 0 .. MaxFaults
    BY <1>1, <1>7, ChatAssumption DEF Fallback, DbFault
  <2>2. QED BY <1>1, <1>7, <2>1 DEF Fallback
<1>8. QED BY <1>2, <1>3, <1>4, <1>5, <1>6, <1>7

-----------------------------------------------------------------------------
(* The steps of the worker keep the invariant.                              *)

(* A question keeps its session.                                            *)
LEMMA AskedHereKept ==
  ASSUME UNCHANGED <<questions, askedIn>>, NEW q, NEW s
  PROVE  AskedHere(q, s)' <=> AskedHere(q, s)
  BY DEF AskedHere

(* A session's rows are replaced by rows of its own.                        *)
LEMMA RowsOfASession ==
  ASSUME StoreTypes, RowsInPlace, UNCHANGED <<questions, askedIn>>,
         NEW s \in Sessions, NEW rows \in Seq(Message),
         \A i \in DOMAIN rows : AskedHere(rows[i].about, s),
         chat' = [chat EXCEPT ![s] = rows]
  PROVE  chat' \in [Sessions -> Seq(Message)] /\ RowsInPlace'
<1>1. chat \in [Sessions -> Seq(Message)]
  BY DEF StoreTypes
<1>2. /\ chat' \in [Sessions -> Seq(Message)] /\ chat'[s] = rows
      /\ \A t \in Sessions : t # s => chat'[t] = chat[t]
  BY <1>1
<1>3. ASSUME NEW t \in Sessions, NEW i \in DOMAIN chat'[t]
      PROVE  AskedHere(chat[t][i].about, t)'
  <2>1. CASE t = s
    BY <1>2, <1>3, <2>1 DEF AskedHere
  <2>2. CASE t # s
    BY <1>2, <1>3, <2>2 DEF RowsInPlace, AskedHere
  <2>3. QED BY <2>1, <2>2
<1>4. QED BY <1>2, <1>3 DEF RowsInPlace

(* A message is recorded in the session of the query, if it still exists.   *)
LEMMA MessageRecorded ==
  ASSUME ChatInv, NEW m \in Message, AppendMessage(m), InWorker, querying,
         m.about = job.question
  PROVE  /\ chat' \in [Sessions -> Seq(Message)] /\ RowsInPlace'
         /\ faults' \in 0 .. MaxFaults
         /\ \A s \in Sessions : s \notin sessions => chat'[s] = <<>>
<1>1. /\ StoreTypes /\ chat \in [Sessions -> Seq(Message)]
      /\ RowsInPlace /\ faults \in 0 .. MaxFaults
      /\ job.session \in Sessions /\ AskedHere(job.question, job.session)
      /\ \A s \in Sessions : s \notin sessions => chat[s] = <<>>
      /\ UNCHANGED <<questions, askedIn>>
  BY TypesByOwner
     DEF ChatInv, WorkInPlace, SessionsExist, StoreTypes, InWorker, ghostVars
<1>2. faults' \in 0 .. MaxFaults
  BY <1>1, ChatAssumption DEF AppendMessage, DbFault
<1>3. CASE chat' = chat
  BY <1>1, <1>2, <1>3 DEF RowsInPlace, AskedHere
<1>4. CASE job.session \in sessions
           /\ chat' = [chat EXCEPT ![job.session] = Append(@, m)]
  <2> DEFINE rows == Append(chat[job.session], m)
  <2>1. chat[job.session] \in Seq(Message)
    BY <1>1
  <2>2. /\ rows \in Seq(Message)
        /\ \A i \in DOMAIN rows :
             \/ rows[i] = m
             \/ /\ i \in DOMAIN chat[job.session]
                /\ rows[i] = chat[job.session][i]
    <3> DEFINE old == chat[job.session]
    <3>1. /\ rows \in Seq(Message) /\ Len(rows) = Len(old) + 1
          /\ rows[Len(old) + 1] = m
          /\ \A i \in 1 .. Len(old) : rows[i] = old[i]
      BY <2>1, AppendProperties
    <3>2. DOMAIN rows = 1 .. Len(old) + 1 /\ DOMAIN old = 1 .. Len(old)
          /\ Len(old) \in Nat
      BY <2>1, <3>1, LenProperties
    <3>3. QED BY <3>1, <3>2
  <2>3. \A i \in DOMAIN rows : AskedHere(rows[i].about, job.session)
    BY <1>1, <2>2 DEF RowsInPlace
  <2>4. chat' = [chat EXCEPT ![job.session] = rows]
    BY <1>4
  <2> HIDE DEF rows
  <2>5. chat' \in [Sessions -> Seq(Message)] /\ RowsInPlace'
    BY <1>1, <2>2, <2>3, <2>4, RowsOfASession
  <2>6. \A s \in Sessions : s \notin sessions => chat'[s] = <<>>
    BY <1>1, <1>4, <2>4
  <2>7. QED BY <1>2, <2>5, <2>6
<1>5. QED BY <1>3, <1>4 DEF AppendMessage

(* What the worker does not touch.                                          *)
LEMMA WorkerKeepsTheRest ==
  ASSUME ChatInv, InWorker
  PROVE  /\ UiTypes' /\ GhostTypes' /\ LiveRowIsLast'
         /\ UNCHANGED <<sessions, created, session, view, live, lastQuestion,
                        lastAnswer, lastWasSearch, retrying, querying, queries,
                        questions, switches, askedIn, before>>
<1>1. UNCHANGED <<sessions, created, session, view, live, lastQuestion,
                  lastAnswer, lastWasSearch, retrying, querying, queries,
                  questions, switches, askedIn, before>>
  BY DEF InWorker, uiVars, lastVars, ghostVars
<1>2. UiTypes' /\ GhostTypes'
  BY <1>1, TypesByOwner DEF ChatInv, UiTypes, LastTypes, GhostTypes
<1>3. LiveRowIsLast'
  BY <1>1 DEF ChatInv, LiveRowIsLast, Last
<1>4. QED BY <1>1, <1>2, <1>3

(* Until its report a query sends nothing but pieces and restarts.          *)
LEMMA SignalSent ==
  ASSUME ChatInv, InWorker, at # "none", at' # "none",
         signals' = signals \/ \E kind \in {"token", "restart"} : Emit(kind)
  PROVE  signals' \in Seq(Signal) /\ SignalsInOrder'
<1>1. /\ signals \in Seq(Signal) /\ querying /\ querying' = querying
      /\ \A i \in DOMAIN signals : signals[i].kind # "finished"
  BY TypesByOwner, WorkerKeepsTheRest DEF ChatInv, SignalsInOrder
<1>2. CASE signals' = signals
  BY <1>1, <1>2 DEF SignalsInOrder
<1>3. CASE \E kind \in {"token", "restart"} : Emit(kind)
  <2>1. PICK kind \in {"token", "restart"} : Emit(kind)
    BY <1>3
  <2> DEFINE new == [kind |-> kind, ok |-> FALSE,
                     message |-> Answered("partial", "")]
  <2>2. Answered("partial", "") \in Message
    BY AnsweredIsAMessage, TypesByOwner DEF ChatInv, WorkerTypes, JobTypes
  <2>3. new \in Signal /\ new.kind # "finished"
    BY <2>2 DEF Signal
  <2>4. signals' = Append(signals, new)
    BY <2>1 DEF Emit
  <2> HIDE DEF new
  <2>5. signals' \in Seq(Signal)
        /\ \A i \in DOMAIN signals' : signals'[i].kind # "finished"
    BY <1>1, <2>3, <2>4, AppendProperties
  <2>6. QED BY <1>1, <2>5 DEF SignalsInOrder
<1>4. QED BY <1>2, <1>3

(* What a step of the worker has to show for itself.                        *)
LEMMA WorkerStepDone ==
  ASSUME ChatInv, InWorker, at # "none", job' = job,
         chat' \in [Sessions -> Seq(Message)], RowsInPlace',
         \A s \in Sessions : s \notin sessions => chat'[s] = <<>>,
         WorkerTypes', faults' \in 0 .. MaxFaults, lost' \in BOOLEAN,
         signals' \in Seq(Signal), SignalsInOrder',
         reply' # Nothing => ~reply'.user /\ reply'.about = job.question,
         at' = "record" => reply' # Nothing
  PROVE  ChatInv'
<1>1. /\ UiTypes' /\ GhostTypes' /\ LiveRowIsLast'
      /\ UNCHANGED <<sessions, created, session, view, live, lastQuestion,
                     lastAnswer, lastWasSearch, retrying, querying, queries,
                     questions, switches, askedIn, before>>
  BY WorkerKeepsTheRest
<1>2. StoreTypes'
  BY <1>1, TypesByOwner DEF ChatInv, StoreTypes
<1>3. ChatTypeOK'
  BY <1>1, <1>2, NextTypesByOwner
<1>4. WorkInPlace'
  BY <1>1 DEF ChatInv, WorkInPlace, AskedHere, Nothing
<1>5. SessionsExist'
  BY <1>1 DEF ChatInv, SessionsExist
<1>6. QED BY <1>1, <1>3, <1>4, <1>5 DEF ChatInv

(* A step that records nothing.                                             *)
LEMMA NothingRecorded ==
  ASSUME ChatInv, InWorker, chat' = chat
  PROVE  /\ chat' \in [Sessions -> Seq(Message)] /\ RowsInPlace'
         /\ \A s \in Sessions : s \notin sessions => chat'[s] = <<>>
<1>1. UNCHANGED <<questions, askedIn>>
  BY WorkerKeepsTheRest
<1>2. chat \in [Sessions -> Seq(Message)]
  BY TypesByOwner DEF ChatInv, StoreTypes
<1>3. RowsInPlace'
  BY <1>1 DEF ChatInv, WorkInPlace, RowsInPlace, AskedHere
<1>4. QED BY <1>2, <1>3 DEF ChatInv, SessionsExist

LEMMA FaultCounted ==
  ASSUME ChatInv, DbFault
  PROVE  faults' \in 0 .. MaxFaults
  BY TypesByOwner, ChatAssumption DEF ChatInv, DbFault

LEMMA LoadHistoryKeeps == ChatInv /\ LoadHistory => ChatInv'
<1> SUFFICES ASSUME ChatInv, LoadHistory PROVE ChatInv'
  OBVIOUS
<1>1. /\ at = "load" /\ InWorker /\ at' \in {"retrieve", "persist", "report"}
      /\ UNCHANGED <<chat, signals, leg, streamed, job>>
      /\ reply' = reply \/ reply' = Nothing
  BY DEF LoadHistory, Fail
<1>2. /\ WorkerTypes /\ signals \in Seq(Signal) /\ faults \in 0 .. MaxFaults
      /\ lost \in BOOLEAN
  BY TypesByOwner DEF ChatInv
<1>3. faults' \in 0 .. MaxFaults
  BY <1>2, FaultCounted DEF LoadHistory
<1>4. lost' \in BOOLEAN
  BY <1>2 DEF LoadHistory
<1>5. usedDocuments' \in BOOLEAN
  <2>1. usedDocuments \in BOOLEAN
    BY <1>2 DEF WorkerTypes, JobTypes
  <2>2. LooksRetrieved(PreviousAnswer(chat[job.session])) \in BOOLEAN
    BY DEF LooksRetrieved
  <2>3. QED BY <2>1, <2>2 DEF LoadHistory
<1>6. WorkerTypes'
  BY <1>1, <1>2, <1>5, NothingIsAMessage DEF WorkerTypes, JobTypes, Places
<1>7. signals' \in Seq(Signal) /\ SignalsInOrder'
  BY <1>1, SignalSent
<1>8. reply' # Nothing => ~reply'.user /\ reply'.about = job.question
  BY <1>1 DEF ChatInv, WorkInPlace
<1>9. QED
  BY <1>1, <1>3, <1>4, <1>6, <1>7, <1>8, NothingRecorded, WorkerStepDone

LEMMA PersistQuestionKeeps == ChatInv /\ PersistQuestion => ChatInv'
<1> SUFFICES ASSUME ChatInv, PersistQuestion PROVE ChatInv'
  OBVIOUS
<1>1. /\ at = "persist" /\ InWorker /\ at' = "route"
      /\ AppendMessage(Asked(job.question))
      /\ UNCHANGED <<signals, leg, streamed, job, reply, usedDocuments, lost>>
  BY DEF PersistQuestion
<1>2. /\ WorkerTypes /\ signals \in Seq(Signal) /\ lost \in BOOLEAN /\ querying
      /\ job.question \in 0 .. MaxQuestions
  BY <1>1, TypesByOwner DEF ChatInv, SignalsInOrder, WorkerTypes, JobTypes
<1>3. Asked(job.question) \in Message /\ Asked(job.question).about = job.question
  BY <1>2, AskedIsAMessage
<1>4. /\ chat' \in [Sessions -> Seq(Message)] /\ RowsInPlace'
      /\ faults' \in 0 .. MaxFaults
      /\ \A s \in Sessions : s \notin sessions => chat'[s] = <<>>
  BY <1>1, <1>2, <1>3, MessageRecorded
<1>5. WorkerTypes'
  BY <1>1, <1>2 DEF WorkerTypes, JobTypes, Places
<1>6. signals' \in Seq(Signal) /\ SignalsInOrder'
  BY <1>1, SignalSent
<1>7. reply' # Nothing => ~reply'.user /\ reply'.about = job.question
  BY <1>1 DEF ChatInv, WorkInPlace
<1>8. QED BY <1>1, <1>2, <1>4, <1>5, <1>6, <1>7, WorkerStepDone

LEMMA PipelineKeeps == ChatInv /\ PipelineStep => ChatInv'
<1> SUFFICES ASSUME ChatInv, PipelineStep PROVE ChatInv'
  OBVIOUS
<1>1. /\ WorkerTypes /\ job.question \in 0 .. MaxQuestions
      /\ job.query \in 0 .. MaxQuestions + MaxRetries /\ lost \in BOOLEAN
  BY TypesByOwner DEF ChatInv, WorkerTypes, JobTypes
<1>2. /\ at # "none" /\ at' # "none" /\ at' \in Places /\ InWorker
      /\ UNCHANGED <<chat, job, usedDocuments, lost>>
      /\ faults' \in 0 .. MaxFaults /\ leg' \in Legs /\ streamed' \in BOOLEAN
      /\ signals' = signals \/ \E kind \in {"token", "restart"} : Emit(kind)
  BY DEF PipelineStep, Places
<1>3. /\ reply' \in Message
      /\ reply' # Nothing => ~reply'.user /\ reply'.about = job.question
      /\ at' = "record" => reply' # Nothing
  <2>1. CASE at' \in {"summarize", "retrieve", "generate", "fallback"}
             /\ reply' \in {reply, Answered("refusal", "search")}
    <3>1. CASE reply' = reply
      BY <1>1, <2>1, <3>1 DEF ChatInv, WorkInPlace, WorkerTypes
    <3>2. CASE reply' = Answered("refusal", "search")
      <4>1. "search" \in Tools \union {""}
        BY DEF Tools
      <4>2. QED BY <1>1, <2>1, <3>2, <4>1, AnsweredIsAMessage
    <3>3. QED BY <2>1, <3>1, <3>2
  <2>2. CASE \E text \in {"answer", "refusal", "notice"}, tool \in Tools :
               reply' = Answered(text, tool)
    <3>1. PICK text \in {"answer", "refusal", "notice"}, tool \in Tools :
                 reply' = Answered(text, tool)
      BY <2>2
    <3>2. /\ text \in {"partial", "answer", "refusal", "notice"}
          /\ tool \in Tools \union {""}
      OBVIOUS
    <3>3. QED BY <1>1, <3>1, <3>2, AnsweredIsAMessage
  <2>3. CASE at' = "report" /\ reply' = Nothing
    BY <2>3, NothingIsAMessage
  <2>4. QED BY <2>1, <2>2, <2>3 DEF PipelineStep
<1>4. WorkerTypes'
  BY <1>1, <1>2, <1>3 DEF WorkerTypes, JobTypes
<1>5. signals' \in Seq(Signal) /\ SignalsInOrder'
  BY <1>2, SignalSent
<1>6. QED BY <1>1, <1>2, <1>3, <1>4, <1>5, NothingRecorded, WorkerStepDone

(* The answer of a retry takes the place of the newest row.                 *)
LEMMA AnswerUpdated ==
  ASSUME ChatInv, UpdateLastAssistant, InWorker, querying, reply # Nothing
  PROVE  /\ chat' \in [Sessions -> Seq(Message)] /\ RowsInPlace'
         /\ \A s \in Sessions : s \notin sessions => chat'[s] = <<>>
         /\ reply' \in {reply, Nothing}
<1> DEFINE js == job.session
           old == chat[js]
           new == SubSeq(old, 1, Len(old) - 1) \o <<reply>>
<1>1. /\ js \in Sessions /\ AskedHere(reply.about, js) /\ reply \in Message
      /\ StoreTypes /\ RowsInPlace /\ old \in Seq(Message)
      /\ \A s \in Sessions : s \notin sessions => chat[s] = <<>>
      /\ UNCHANGED <<questions, askedIn>>
  BY TypesByOwner, WorkerKeepsTheRest
     DEF ChatInv, WorkInPlace, SessionsExist, WorkerTypes, StoreTypes
<1>2. CASE EndsInAnswer(old)
  <2>1. chat' = [chat EXCEPT ![js] = new] /\ reply' = reply /\ old # <<>>
    BY <1>2 DEF UpdateLastAssistant, EndsInAnswer
  <2>2. /\ new \in Seq(Message) /\ Len(new) = Len(old) /\ new[Len(old)] = reply
        /\ \A j \in 1 .. Len(old) : j # Len(old) => new[j] = old[j]
    <3> HIDE DEF old
    <3>1. QED BY <1>1, <2>1, NewestReplaced
  <2> HIDE DEF new
  <2>3. \A i \in DOMAIN new : AskedHere(new[i].about, js)
    <3>1. DOMAIN new = 1 .. Len(old) /\ DOMAIN old = 1 .. Len(old)
      BY <1>1, <2>2, LenProperties
    <3>2. QED BY <1>1, <2>2, <3>1 DEF RowsInPlace
  <2>4. chat' \in [Sessions -> Seq(Message)] /\ RowsInPlace'
    BY <1>1, <2>1, <2>2, <2>3, RowsOfASession
  <2>5. js \in sessions
    BY <1>1, <2>1
  <2>6. \A s \in Sessions : s \notin sessions => chat'[s] = <<>>
    BY <1>1, <2>1, <2>5 DEF StoreTypes
  <2>7. QED BY <2>1, <2>4, <2>6
<1>3. CASE ~EndsInAnswer(old)
  <2>1. chat' = chat /\ reply' = Nothing
    BY <1>3 DEF UpdateLastAssistant
  <2>2. QED BY <2>1, NothingRecorded
<1>4. QED BY <1>2, <1>3

LEMMA RecordAnswerKeeps == ChatInv /\ RecordAnswer => ChatInv'
<1> SUFFICES ASSUME ChatInv, RecordAnswer PROVE ChatInv'
  OBVIOUS
<1>1. /\ at = "record" /\ at' = "report" /\ InWorker
      /\ UNCHANGED <<signals, leg, streamed, job, usedDocuments, lost>>
  BY DEF RecordAnswer
<1>2. /\ WorkerTypes /\ lost \in BOOLEAN /\ querying /\ reply # Nothing
      /\ reply \in Message /\ ~reply.user /\ reply.about = job.question
      /\ faults \in 0 .. MaxFaults
  BY <1>1, TypesByOwner
     DEF ChatInv, SignalsInOrder, WorkInPlace, WorkerTypes
<1>3. /\ chat' \in [Sessions -> Seq(Message)] /\ RowsInPlace'
      /\ faults' \in 0 .. MaxFaults
      /\ \A s \in Sessions : s \notin sessions => chat'[s] = <<>>
      /\ reply' \in {reply, Nothing}
  <2>1. CASE UpdateLastAssistant /\ UNCHANGED faults
    BY <1>1, <1>2, <2>1, AnswerUpdated
  <2>2. CASE UNCHANGED chat /\ reply' = Nothing /\ DbFault
    BY <1>1, <2>2, NothingRecorded, FaultCounted
  <2>3. CASE AppendMessage(reply) /\ UNCHANGED reply
    BY <1>1, <1>2, <2>3, MessageRecorded
  <2>4. QED BY <2>1, <2>2, <2>3 DEF RecordAnswer
<1>4. WorkerTypes'
  BY <1>1, <1>2, <1>3, NothingIsAMessage DEF WorkerTypes, JobTypes, Places
<1>5. signals' \in Seq(Signal) /\ SignalsInOrder'
  BY <1>1, SignalSent
<1>6. reply' # Nothing => ~reply'.user /\ reply'.about = job.question
  BY <1>2, <1>3
<1>7. QED BY <1>1, <1>2, <1>3, <1>4, <1>5, <1>6, WorkerStepDone

LEMMA ReportKeeps == ChatInv /\ Report => ChatInv'
<1> SUFFICES ASSUME ChatInv, Report PROVE ChatInv'
  OBVIOUS
<1>1. /\ at = "report" /\ at' = "none" /\ InWorker
      /\ signals' = Append(signals, Finished)
      /\ UNCHANGED <<chat, leg, streamed, job, reply, usedDocuments, faults,
                     lost>>
  BY DEF Report, Finished
<1>2. /\ WorkerTypes /\ lost \in BOOLEAN /\ faults \in 0 .. MaxFaults
      /\ signals \in Seq(Signal) /\ querying /\ querying' = querying
      /\ \A i \in DOMAIN signals : signals[i].kind # "finished"
  BY <1>1, TypesByOwner, WorkerKeepsTheRest DEF ChatInv, SignalsInOrder
<1>3. Finished \in Signal /\ Finished' = Finished
  BY <1>1, <1>2 DEF Finished, Signal, WorkerTypes
<1>4. signals' \in Seq(Signal) /\ SignalsInOrder'
  <2>1. /\ signals' \in Seq(Signal) /\ Len(signals') = Len(signals) + 1
        /\ signals'[Len(signals) + 1] = Finished
        /\ \A i \in 1 .. Len(signals) : signals'[i] = signals[i]
        /\ Len(signals) \in Nat
    BY <1>1, <1>2, <1>3, AppendProperties, LenProperties
  <2>2. signals' # <<>> /\ Last(signals') = Finished
    BY <2>1 DEF Last
  <2>3. \A i \in 1 .. Len(signals') - 1 : signals'[i].kind # "finished"
    BY <1>2, <2>1
  <2>4. QED BY <1>1, <1>2, <1>3, <2>1, <2>2, <2>3 DEF SignalsInOrder, Last
<1>5. WorkerTypes'
  BY <1>1, <1>2 DEF WorkerTypes, JobTypes, Places
<1>6. reply' # Nothing => ~reply'.user /\ reply'.about = job.question
  BY <1>1 DEF ChatInv, WorkInPlace
<1>7. QED
  BY <1>1, <1>2, <1>4, <1>5, <1>6, NothingRecorded, WorkerStepDone

-----------------------------------------------------------------------------
(* The signals received keep the invariant.                                 *)

(* The first signal waiting and the others.                                 *)
LEMMA SignalsSplit ==
  ASSUME ChatInv, signals # <<>>
  PROVE  /\ signals \in Seq(Signal) /\ Len(signals) \in Nat /\ Len(signals) > 0
         /\ DOMAIN signals = 1 .. Len(signals)
         /\ Head(signals) = signals[1] /\ Head(signals) \in Signal
         /\ Tail(signals) \in Seq(Signal)
         /\ Len(Tail(signals)) = Len(signals) - 1
         /\ DOMAIN Tail(signals) = 1 .. Len(signals) - 1
         /\ \A i \in 1 .. Len(signals) - 1 : Tail(signals)[i] = signals[i + 1]
<1>1. signals \in Seq(Signal)
  BY TypesByOwner DEF ChatInv
<1>2. QED BY <1>1, HeadTailProperties, EmptySeq, LenProperties

(* A piece or a restart leaves the report to come.                          *)
LEMMA PieceReceived ==
  ASSUME ChatInv, NEW kind \in {"token", "restart"}, Receive(kind),
         querying' = querying
  PROVE  querying /\ signals' \in Seq(Signal) /\ SignalsInOrder'
<1>1. /\ signals # <<>> /\ Head(signals).kind = kind /\ signals' = Tail(signals)
      /\ UNCHANGED <<at, reply>>
  BY DEF Receive, workerVars
<1>2. querying /\ SignalsInOrder
  BY <1>1 DEF ChatInv, SignalsInOrder
<1>3. CASE at # "none"
  <2>1. \A i \in DOMAIN signals' : signals'[i].kind # "finished"
    BY <1>1, <1>2, <1>3, SignalsSplit DEF SignalsInOrder
  <2>2. QED BY <1>1, <1>2, <1>3, <2>1, SignalsSplit DEF SignalsInOrder
<1>4. CASE at = "none"
  <2>1. /\ Last(signals) = Finished /\ Finished.kind = "finished"
        /\ \A i \in 1 .. Len(signals) - 1 : signals[i].kind # "finished"
    BY <1>2, <1>4 DEF SignalsInOrder, Finished
  <2>2. Len(signals) # 1
    BY <1>1, <2>1, SignalsSplit DEF Last
  <2>3. /\ Len(signals') = Len(signals) - 1 /\ Len(signals') > 0
        /\ Len(signals) \in Nat
        /\ \A i \in 1 .. Len(signals') : signals'[i] = signals[i + 1]
    BY <1>1, <2>2, SignalsSplit
  <2>4. signals' # <<>> /\ Last(signals') = Finished
    BY <2>1, <2>3 DEF Last
  <2>5. \A i \in 1 .. Len(signals') - 1 : signals'[i].kind # "finished"
    BY <2>1, <2>3
  <2>6. Finished' = Finished
    BY <1>1 DEF Finished
  <2>7. QED
    BY <1>1, <1>2, <1>4, <2>4, <2>5, <2>6, SignalsSplit
       DEF SignalsInOrder, Last
<1>5. QED BY <1>3, <1>4

(* The report is the last signal of its query.                              *)
LEMMA ReportIsLast ==
  ASSUME ChatInv, Receive("finished")
  PROVE  /\ querying /\ at = "none" /\ Head(signals) = Finished
         /\ signals' = <<>> /\ signals' \in Seq(Signal)
<1>1. /\ signals # <<>> /\ Head(signals).kind = "finished"
      /\ signals' = Tail(signals)
  BY DEF Receive
<1>2. querying /\ at = "none"
  BY <1>1, SignalsSplit DEF ChatInv, SignalsInOrder
<1>3. /\ Last(signals) = Finished
      /\ \A i \in 1 .. Len(signals) - 1 : signals[i].kind # "finished"
  BY <1>2 DEF ChatInv, SignalsInOrder
<1>4. Len(signals) = 1
  BY <1>1, <1>3, SignalsSplit
<1>5. Head(signals) = Finished
  BY <1>1, <1>3, <1>4, SignalsSplit DEF Last
<1>6. Tail(signals) = <<>>
  <2>1. Tail(signals) \in Seq(Signal) /\ Len(Tail(signals)) = 0
    BY <1>1, <1>4, SignalsSplit
  <2>2. QED BY <2>1, EmptySeq
<1>7. <<>> \in Seq(Signal)
  BY EmptySeq
<1>8. QED BY <1>1, <1>2, <1>5, <1>6, <1>7

LEMMA ReportReceived ==
  ASSUME ChatInv, Receive("finished"), querying' = FALSE
  PROVE  SignalsInOrder'
<1>1. at' = at
  BY DEF Receive, workerVars
<1>2. QED BY <1>1, ReportIsLast DEF SignalsInOrder

(* What a signal received has to show for itself.                           *)
LEMMA SignalDone ==
  ASSUME ChatInv, NEW kind, Receive(kind), UiTypes', LiveRowIsLast',
         signals' \in Seq(Signal), SignalsInOrder',
         lastQuestion' = lastQuestion,
         querying' => querying /\ retrying' = retrying
  PROVE  ChatInv'
<1>1. UNCHANGED <<chat, sessions, created, session, at, leg, streamed, job,
                  reply, usedDocuments, queries, questions, switches, askedIn,
                  before, faults, lost>>
  BY DEF Receive, storeVars, workerVars, ghostVars
<1>2. /\ StoreTypes /\ WorkerTypes /\ GhostTypes
      /\ faults \in 0 .. MaxFaults /\ lost \in BOOLEAN
  BY TypesByOwner DEF ChatInv
<1>3. /\ StoreTypes' /\ WorkerTypes' /\ GhostTypes'
      /\ faults' \in 0 .. MaxFaults /\ lost' \in BOOLEAN
  BY <1>1, <1>2 DEF StoreTypes, WorkerTypes, JobTypes, GhostTypes
<1>4. ChatTypeOK'
  BY <1>3, NextTypesByOwner
<1>5. WorkInPlace'
  BY <1>1 DEF ChatInv, WorkInPlace, RowsInPlace, AskedHere, Nothing
<1>6. SessionsExist'
  BY <1>1 DEF ChatInv, SessionsExist
<1>7. QED BY <1>4, <1>5, <1>6 DEF ChatInv

(* The view with its last row written anew.                                 *)
LEMMA LiveRowWritten ==
  ASSUME view \in Seq(Message), NEW i \in 1 .. Len(view), i = Len(view),
         NEW m \in Message, view' = [view EXCEPT ![i] = m]
  PROVE  /\ view' \in Seq(Message) /\ Len(view') = Len(view)
         /\ Last(view') = m
         /\ \A j \in 1 .. Len(view) : j # i => view'[j] = view[j]
  BY RowReplaced DEF Last

(* A row is added to the view.                                              *)
LEMMA RowAdded ==
  ASSUME view \in Seq(Message), NEW m \in Message, view' = Append(view, m)
  PROVE  /\ view' \in Seq(Message) /\ Len(view') = Len(view) + 1
         /\ Last(view') = m /\ Len(view) \in Nat
         /\ \A j \in 1 .. Len(view) : view'[j] = view[j]
  BY AppendProperties, LenProperties DEF Last

LEMMA OnQueryTokenKeeps == ChatInv /\ OnQueryToken => ChatInv'
<1> SUFFICES ASSUME ChatInv, OnQueryToken PROVE ChatInv'
  OBVIOUS
<1>1. /\ Receive("token") /\ signals # <<>> /\ session' = session
      /\ UNCHANGED <<lastQuestion, lastAnswer, lastWasSearch, retrying,
                     querying>>
  BY DEF OnQueryToken, Receive, lastVars
<1>2. querying /\ signals' \in Seq(Signal) /\ SignalsInOrder'
  BY <1>1, PieceReceived
<1>3. UiTypes /\ LiveRowIsLast /\ view \in Seq(Message) /\ Len(view) \in Nat
  BY TypesByOwner, LenProperties DEF ChatInv, UiTypes
<1> DEFINE partial == [Nothing EXCEPT !.about = Head(signals).message.about,
                                      !.text = "partial"]
<1>4. partial \in Message /\ ~partial.user
  <2>1. Head(signals).message.about \in 0 .. MaxQuestions
    <3>1. Head(signals) \in Signal
      BY <1>1, SignalsSplit
    <3>2. Head(signals).message \in Message
      BY <3>1 DEF Signal
    <3>3. QED BY <3>2 DEF Message
  <2>2. PICK about \in 0 .. MaxQuestions : Head(signals).message.about = about
    BY <2>1
  <2>3. partial = [Nothing EXCEPT !.about = about, !.text = "partial"]
    BY <2>2
  <2> HIDE DEF partial
  <2>4. partial = [user |-> FALSE, about |-> about, text |-> "partial",
                   query |-> 0, tool |-> ""]
    BY <2>3 DEF Nothing
  <2>5. 0 \in 0 .. MaxQuestions + MaxRetries
    BY ChatAssumption
  <2>6. QED BY <2>4, <2>5 DEF Message
<1> HIDE DEF partial
<1>5. view' \in Seq(Message) /\ live' \in 0 .. Len(view') /\ LiveRowIsLast'
  <2>1. CASE live = 0
    <3>1. view' = Append(view, partial) /\ live' = Len(view) + 1
      BY <2>1 DEF OnQueryToken, partial
    <3>2. QED BY <1>1, <1>2, <1>3, <1>4, <3>1, RowAdded DEF LiveRowIsLast, Last
  <2>2. CASE live # 0
    <3> DEFINE m == [view[live] EXCEPT !.text = "partial"]
    <3>1. live \in 1 .. Len(view) /\ live = Len(view) /\ ~view[live].user
          /\ view[live] \in Message
      BY <1>3, <2>2 DEF LiveRowIsLast, UiTypes, Last
    <3>2. m \in Message /\ ~m.user
      BY <3>1 DEF Message
    <3>3. view' = [view EXCEPT ![live] = m] /\ live' = live
      BY <2>2 DEF OnQueryToken
    <3> HIDE DEF m
    <3>4. QED
      BY <1>1, <1>2, <1>3, <3>1, <3>2, <3>3, LiveRowWritten
         DEF LiveRowIsLast, Last
  <2>3. QED BY <2>1, <2>2
<1>6. UiTypes'
  BY <1>1, <1>3, <1>5 DEF UiTypes, LastTypes
<1>7. QED BY <1>1, <1>2, <1>5, <1>6, SignalDone

LEMMA OnQueryStageKeeps == ChatInv /\ OnQueryStage => ChatInv'
<1> SUFFICES ASSUME ChatInv, OnQueryStage PROVE ChatInv'
  OBVIOUS
<1>1. /\ Receive("restart") /\ session' = session
      /\ UNCHANGED <<live, lastQuestion, lastAnswer, lastWasSearch, retrying,
                     querying>>
  BY DEF OnQueryStage, Receive, lastVars
<1>2. querying /\ signals' \in Seq(Signal) /\ SignalsInOrder'
  BY <1>1, PieceReceived
<1>3. UiTypes /\ LiveRowIsLast /\ view \in Seq(Message) /\ Len(view) \in Nat
  BY TypesByOwner, LenProperties DEF ChatInv, UiTypes
<1>4. view' \in Seq(Message) /\ live' \in 0 .. Len(view') /\ LiveRowIsLast'
  <2>1. CASE live = 0
    BY <1>1, <1>2, <1>3, <2>1 DEF OnQueryStage, LiveRowIsLast, UiTypes
  <2>2. CASE live # 0
    <3> DEFINE m == [view[live] EXCEPT !.text = ""]
    <3>1. live \in 1 .. Len(view) /\ live = Len(view) /\ ~view[live].user
          /\ view[live] \in Message
      BY <1>3, <2>2 DEF LiveRowIsLast, UiTypes, Last
    <3>2. m \in Message /\ ~m.user
      BY <3>1 DEF Message
    <3>3. view' = [view EXCEPT ![live] = m]
      BY <2>2 DEF OnQueryStage
    <3> HIDE DEF m
    <3>4. QED
      BY <1>1, <1>2, <1>3, <3>1, <3>2, <3>3, LiveRowWritten
         DEF LiveRowIsLast, Last
  <2>3. QED BY <2>1, <2>2
<1>5. UiTypes'
  BY <1>1, <1>3, <1>4 DEF UiTypes, LastTypes
<1>6. QED BY <1>1, <1>2, <1>4, <1>5, SignalDone

(* The answer becomes the last row, whether there is a live one or not.     *)
LEMMA AnswerShown ==
  ASSUME ChatInv, NEW m \in Message, FinishLive(m)
  PROVE  view' \in Seq(Message) /\ live' = 0
<1>1. view \in Seq(Message) /\ live \in 0 .. Len(view) /\ Len(view) \in Nat
  BY TypesByOwner, LenProperties DEF ChatInv, UiTypes
<1>2. CASE live = 0
  BY <1>1, <1>2, RowAdded DEF FinishLive
<1>3. CASE live # 0
  <2>1. live \in 1 .. Len(view) /\ view' = [view EXCEPT ![live] = m]
    BY <1>1, <1>3 DEF FinishLive
  <2>2. view' \in Seq(Message)
    BY <1>1, <2>1, RowReplaced
  <2>3. QED BY <2>2 DEF FinishLive
<1>4. QED BY <1>2, <1>3

LEMMA OnQuerySucceededKeeps == ChatInv /\ OnQuerySucceeded => ChatInv'
<1> SUFFICES ASSUME ChatInv, OnQuerySucceeded PROVE ChatInv'
  OBVIOUS
<1>1. /\ Receive("finished") /\ session' = session /\ lastQuestion' = lastQuestion
      /\ querying' = FALSE /\ retrying' = FALSE
      /\ FinishLive(Head(signals).message)
      /\ lastAnswer' = Head(signals).message /\ lastWasSearch' \in BOOLEAN
  BY DEF OnQuerySucceeded, Receive
<1>2. signals' \in Seq(Signal) /\ SignalsInOrder' /\ Head(signals) = Finished
  BY <1>1, ReportIsLast, ReportReceived
<1>3. Head(signals).message \in Message
  BY <1>2, TypesByOwner DEF ChatInv, WorkerTypes, Finished
<1>4. view' \in Seq(Message) /\ live' = 0
  BY <1>1, <1>3, AnswerShown
<1>5. UiTypes'
  <2>1. session \in 0 .. MaxSessions /\ lastQuestion \in 0 .. MaxQuestions
    BY TypesByOwner DEF ChatInv, UiTypes, LastTypes
  <2>2. live' \in 0 .. Len(view')
    BY <1>4, LenProperties
  <2>3. QED BY <1>1, <1>3, <1>4, <2>1, <2>2 DEF UiTypes, LastTypes
<1>6. LiveRowIsLast'
  BY <1>4 DEF LiveRowIsLast
<1>7. QED BY <1>1, <1>2, <1>5, <1>6, SignalDone

LEMMA OnRetryFailedKeeps == ChatInv /\ OnRetryFailed => ChatInv'
<1> SUFFICES ASSUME ChatInv, OnRetryFailed PROVE ChatInv'
  OBVIOUS
<1>1. /\ Receive("finished") /\ session' = session
      /\ querying' = FALSE /\ retrying' = FALSE /\ live' = 0
      /\ UNCHANGED <<lastQuestion, lastAnswer, lastWasSearch>>
  BY DEF OnRetryFailed, Receive, lastVars
<1>2. signals' \in Seq(Signal) /\ SignalsInOrder'
  BY <1>1, ReportIsLast, ReportReceived
<1>3. UiTypes /\ view \in Seq(Message) /\ lastAnswer \in Message
      /\ live \in 0 .. Len(view)
  BY TypesByOwner DEF ChatInv, UiTypes, LastTypes
<1>4. view' \in Seq(Message)
  <2>1. CASE live = 0
    BY <1>3, <2>1 DEF OnRetryFailed
  <2>2. CASE live # 0
    <3>1. live \in 1 .. Len(view) /\ view' = [view EXCEPT ![live] = lastAnswer]
      BY <1>3, <2>2, LenProperties DEF OnRetryFailed
    <3>2. QED BY <1>3, <3>1, RowReplaced
  <2>3. QED BY <2>1, <2>2
<1>5. UiTypes'
  <2>1. live' \in 0 .. Len(view')
    BY <1>1, <1>4, LenProperties
  <2>2. QED BY <1>1, <1>3, <1>4, <2>1 DEF UiTypes, LastTypes
<1>6. LiveRowIsLast'
  BY <1>1 DEF LiveRowIsLast
<1>7. QED BY <1>1, <1>2, <1>5, <1>6, SignalDone

LEMMA OnQuestionFailedKeeps == ChatInv /\ OnQuestionFailed => ChatInv'
<1> SUFFICES ASSUME ChatInv, OnQuestionFailed PROVE ChatInv'
  OBVIOUS
<1>1. /\ Receive("finished") /\ session' = session
      /\ querying' = FALSE /\ live' = 0
      /\ UNCHANGED <<lastQuestion, lastAnswer, lastWasSearch, retrying>>
  BY DEF OnQuestionFailed, Receive, lastVars
<1>2. signals' \in Seq(Signal) /\ SignalsInOrder'
  BY <1>1, ReportIsLast, ReportReceived
<1>3. UiTypes /\ view \in Seq(Message) /\ live \in 0 .. Len(view)
  BY TypesByOwner DEF ChatInv, UiTypes
<1>4. view' \in Seq(Message)
  <2>1. CASE live = 0
    BY <1>3, <2>1 DEF OnQuestionFailed
  <2>2. CASE live # 0
    <3>1. live \in 1 .. Len(view) /\ Len(view) \in Nat
      BY <1>3, <2>2, LenProperties
    <3>2. /\ SubSeq(view, 1, live - 1) \in Seq(Message)
          /\ SubSeq(view, live + 1, Len(view)) \in Seq(Message)
      BY <1>3, <3>1
    <3>3. view' = SubSeq(view, 1, live - 1) \o SubSeq(view, live + 1, Len(view))
      BY <2>2 DEF OnQuestionFailed
    <3>4. QED BY <3>2, <3>3, ConcatProperties
  <2>3. QED BY <2>1, <2>2
<1>5. UiTypes'
  <2>1. live' \in 0 .. Len(view')
    BY <1>1, <1>4, LenProperties
  <2>2. QED BY <1>1, <1>3, <1>4, <2>1 DEF UiTypes, LastTypes
<1>6. LiveRowIsLast'
  BY <1>1 DEF LiveRowIsLast
<1>7. QED BY <1>1, <1>2, <1>5, <1>6, SignalDone

-----------------------------------------------------------------------------
(* What the user does keeps the invariant.                                  *)

(* A query starts in a session, for a question that was asked in it.        *)
LEMMA QueryStarts ==
  ASSUME ChatInv, ~querying, NEW s \in Sessions, NEW q \in Questions,
         NEW retry \in BOOLEAN, StartWorker(s, q, retry), signals' = signals,
         queries < MaxQuestions + MaxRetries
  PROVE  /\ WorkerTypes' /\ SignalsInOrder' /\ signals' \in Seq(Signal)
         /\ queries' \in 0 .. MaxQuestions + MaxRetries
         /\ before' \in Seq(Message) /\ lost' = FALSE /\ querying' = TRUE
         /\ queries' = queries + 1 /\ at' = "load" /\ reply' = Nothing
         /\ job' = [session |-> s, question |-> q, retry |-> retry,
                    query |-> queries + 1]
         /\ before' = chat[s]
<1>1. /\ StoreTypes /\ queries \in 0 .. MaxQuestions + MaxRetries
      /\ signals \in Seq(Signal) /\ at = "none" /\ signals = <<>>
  BY TypesByOwner DEF ChatInv, GhostTypes, SignalsInOrder
<1>2. queries' \in 0 .. MaxQuestions + MaxRetries /\ queries' = queries + 1
  BY <1>1, ChatAssumption DEF StartWorker
<1>3. before' \in Seq(Message)
  BY <1>1 DEF StartWorker, StoreTypes
<1>4. SignalsInOrder' /\ signals' \in Seq(Signal)
  BY <1>1 DEF StartWorker, SignalsInOrder
<1>5. WorkerTypes'
  <2>1. s \in 0 .. MaxSessions /\ q \in 0 .. MaxQuestions
    BY ChatAssumption DEF Sessions, Questions
  <2>2. queries + 1 \in 0 .. MaxQuestions + MaxRetries
    BY <1>2
  <2>3. job' = [session |-> s, question |-> q, retry |-> retry,
                query |-> queries + 1]
    BY DEF StartWorker
  <2>4. JobTypes'
    <3>1. job' \in [session : 0 .. MaxSessions, question : 0 .. MaxQuestions,
                    retry : BOOLEAN, query : 0 .. MaxQuestions + MaxRetries]
      BY <2>1, <2>2, <2>3
    <3>2. usedDocuments' = FALSE
      BY DEF StartWorker
    <3>3. QED BY <3>1, <3>2 DEF JobTypes
  <2>5. QED
    BY <2>4, NothingIsAMessage DEF StartWorker, WorkerTypes, Places, Legs
<1>6. QED BY <1>2, <1>3, <1>4, <1>5 DEF StartWorker

LEMMA SendChatMessageKeeps == ChatInv /\ SendChatMessage => ChatInv'
<1> SUFFICES ASSUME ChatInv, SendChatMessage PROVE ChatInv'
  OBVIOUS
<1>1. /\ StoreTypes /\ UiTypes /\ GhostTypes /\ ~querying /\ live = 0
      /\ questions < MaxQuestions /\ questions \in Nat
      /\ faults \in 0 .. MaxFaults /\ SessionsExist /\ WorkInPlace
  BY TypesByOwner
     DEF ChatInv, SendChatMessage, LiveRowIsLast, GhostTypes
<1>2. PICK q \in Questions : q = questions + 1
  BY <1>1, ChatAssumption DEF Questions
<1>3. /\ queries < MaxQuestions + MaxRetries
      /\ q \in 0 .. MaxQuestions /\ q = questions'
  BY <1>1, <1>2, ChatAssumption
     DEF WorkInPlace, GhostTypes, Questions, SendChatMessage
<1>4. /\ session' \in Sessions /\ session' \in sessions'
      /\ sessions' \subseteq Sessions /\ sessions \subseteq sessions'
      /\ created' \in 0 .. MaxSessions
      /\ \A s \in sessions' : s <= created'
  <2>1. /\ session \in 0 .. MaxSessions /\ sessions \subseteq Sessions
        /\ created \in 0 .. MaxSessions
        /\ session # 0 => session \in sessions
        /\ \A s \in sessions : s <= created
    BY <1>1 DEF UiTypes, StoreTypes, SessionsExist
  <2>2. CASE session # 0 /\ UNCHANGED <<session, sessions, created>>
    BY <2>1, <2>2
  <2>3. CASE /\ session = 0 /\ created < MaxSessions
             /\ created' = created + 1
             /\ session' = created + 1
             /\ sessions' = sessions \union {created + 1}
    <3>1. created + 1 \in Sessions /\ created + 1 \in 0 .. MaxSessions
      BY <2>1, <2>3, ChatAssumption DEF Sessions
    <3>2. \A s \in sessions' : s <= created'
      BY <2>1, <2>3 DEF Sessions
    <3>3. QED BY <2>1, <2>3, <3>1, <3>2
  <2>4. QED BY <2>2, <2>3 DEF SendChatMessage
<1>5. PICK s \in Sessions : session' = s
  BY <1>4
<1>6. /\ StartWorker(s, q, FALSE) /\ signals' = signals
      /\ chat' = chat /\ live' = live /\ faults' = faults
      /\ lastAnswer' = lastAnswer /\ switches' = switches
      /\ view' = Append(view, Asked(q)) /\ lastQuestion' = q
      /\ lastWasSearch' = FALSE /\ retrying' = FALSE
      /\ askedIn' = [askedIn EXCEPT ![q] = s]
  BY <1>2, <1>5 DEF SendChatMessage, StartWorker
<1>7. /\ WorkerTypes' /\ SignalsInOrder' /\ signals' \in Seq(Signal)
      /\ queries' \in 0 .. MaxQuestions + MaxRetries /\ queries' = queries + 1
      /\ before' \in Seq(Message) /\ lost' = FALSE /\ querying' = TRUE
      /\ at' = "load" /\ reply' = Nothing
      /\ job' = [session |-> s, question |-> q, retry |-> FALSE,
                 query |-> queries + 1]
  BY <1>1, <1>3, <1>6, QueryStarts, Zenon
<1>8. askedIn' \in [Questions -> 0 .. MaxSessions] /\ askedIn'[q] = s
      /\ \A p \in 1 .. questions : askedIn'[p] = askedIn[p]
  <2>1. askedIn \in [Questions -> 0 .. MaxSessions] /\ s \in 0 .. MaxSessions
    BY <1>1, ChatAssumption DEF GhostTypes, Sessions
  <2>2. 1 .. questions \subseteq Questions /\ q \notin 1 .. questions
    BY <1>1, <1>2, ChatAssumption DEF Questions
  <2>3. QED BY <1>2, <1>6, <2>1, <2>2
<1>9. GhostTypes'
  BY <1>1, <1>3, <1>6, <1>7, <1>8 DEF GhostTypes
<1>10. view' \in Seq(Message) /\ live' \in 0 .. Len(view') /\ LiveRowIsLast'
  <2>1. view' \in Seq(Message)
    BY <1>1, <1>3, <1>6, AskedIsAMessage, RowAdded DEF UiTypes
  <2>2. QED BY <1>1, <1>6, <2>1, LenProperties DEF LiveRowIsLast
<1>11. UiTypes'
  <2>1. session' \in 0 .. MaxSessions
    BY <1>5, ChatAssumption DEF Sessions
  <2>2. LastTypes'
    BY <1>1, <1>3, <1>6 DEF UiTypes, LastTypes
  <2>3. QED BY <1>6, <1>7, <1>10, <2>1, <2>2 DEF UiTypes
<1>12. StoreTypes'
  BY <1>1, <1>4, <1>6 DEF StoreTypes
<1>13. ChatTypeOK'
  BY <1>1, <1>6, <1>7, <1>9, <1>11, <1>12, NextTypesByOwner
<1>14. RowsInPlace'
  <2>1. ASSUME NEW t \in Sessions, NEW i \in DOMAIN chat[t]
        PROVE  AskedHere(chat[t][i].about, t)'
    <3>1. AskedHere(chat[t][i].about, t)
      BY <1>1 DEF WorkInPlace, RowsInPlace
    <3>2. chat[t][i].about \in 1 .. questions /\ askedIn[chat[t][i].about] = t
      BY <3>1 DEF AskedHere
    <3>3. 1 .. questions \subseteq 1 .. questions'
      BY <1>1, <1>2, <1>3
    <3>4. QED BY <1>6, <1>8, <3>2, <3>3 DEF AskedHere
  <2>2. QED BY <1>6, <2>1 DEF RowsInPlace
<1>15. AskedHere(q, s)'
  BY <1>1, <1>2, <1>3, <1>8 DEF AskedHere
<1>16. WorkInPlace'
  <2>1. queries' <= questions' + MaxRetries
    <3>1. queries <= questions + MaxRetries /\ queries \in Nat
      BY <1>1 DEF WorkInPlace, GhostTypes
    <3>2. queries' = queries + 1 /\ questions' = questions + 1
      BY <1>2, <1>3, <1>7
    <3>3. QED BY <1>1, <3>1, <3>2, ChatAssumption
  <2>2. lastQuestion' # 0 => session' # 0 /\ AskedHere(lastQuestion, session)'
    BY <1>5, <1>6, <1>15 DEF AskedHere, Sessions
  <2>3. AskedHere(job.question, job.session)'
    BY <1>7, <1>15 DEF AskedHere
  <2>4. QED BY <1>6, <1>7, <1>14, <2>1, <2>2, <2>3 DEF WorkInPlace
<1>17. SessionsExist'
  BY <1>1, <1>4, <1>6 DEF SessionsExist
<1>18. QED BY <1>7, <1>10, <1>13, <1>16, <1>17 DEF ChatInv

LEMMA RetryLastAnswerKeeps == ChatInv /\ RetryLastAnswer => ChatInv'
<1> SUFFICES ASSUME ChatInv, RetryLastAnswer PROVE ChatInv'
  OBVIOUS
<1>1. /\ StoreTypes /\ UiTypes /\ GhostTypes /\ ~querying /\ live = 0
      /\ session # 0 /\ lastQuestion # 0
      /\ faults \in 0 .. MaxFaults /\ SessionsExist /\ WorkInPlace
      /\ view \in Seq(Message) /\ EndsInAnswer(view)
      /\ queries < questions + MaxRetries
  BY TypesByOwner
     DEF ChatInv, RetryLastAnswer, CanRetryLastAnswer, LiveRowIsLast, UiTypes
<1>2. session \in Sessions /\ lastQuestion \in Questions
      /\ AskedHere(lastQuestion, session)
  BY <1>1, ChatAssumption
     DEF UiTypes, LastTypes, Sessions, Questions, WorkInPlace
<1>3. queries < MaxQuestions + MaxRetries
  BY <1>1, ChatAssumption DEF GhostTypes
<1>4. /\ StartWorker(session, lastQuestion, TRUE)
      /\ UNCHANGED <<chat, sessions, created, session, lastQuestion, lastAnswer,
                     lastWasSearch, signals, questions, switches, askedIn,
                     faults>>
      /\ retrying' = TRUE
  BY DEF RetryLastAnswer, storeVars, lastVars
<1>5. /\ WorkerTypes' /\ SignalsInOrder' /\ signals' \in Seq(Signal)
      /\ queries' \in 0 .. MaxQuestions + MaxRetries /\ queries' = queries + 1
      /\ before' \in Seq(Message) /\ lost' = FALSE /\ querying' = TRUE
      /\ at' = "load" /\ reply' = Nothing
      /\ job'.session = session /\ job'.question = lastQuestion
      /\ job'.retry = TRUE
  <2>1. PICK s \in Sessions, q \in Questions : s = session /\ q = lastQuestion
    BY <1>2
  <2>2. StartWorker(s, q, TRUE) /\ signals' = signals
    BY <1>4, <2>1
  <2>3. /\ WorkerTypes' /\ SignalsInOrder' /\ signals' \in Seq(Signal)
        /\ queries' \in 0 .. MaxQuestions + MaxRetries
        /\ queries' = queries + 1
        /\ before' \in Seq(Message) /\ lost' = FALSE /\ querying' = TRUE
        /\ at' = "load" /\ reply' = Nothing
        /\ job' = [session |-> s, question |-> q, retry |-> TRUE,
                   query |-> queries + 1]
    BY <1>1, <1>3, <2>2, QueryStarts, Zenon
  <2>4. QED BY <2>1, <2>3
<1>6. view' \in Seq(Message) /\ live' \in 0 .. Len(view') /\ LiveRowIsLast'
  <2> DEFINE n == Len(view)
             m == [view[n] EXCEPT !.text = "", !.tool = ""]
  <2>1. n \in 1 .. Len(view) /\ view[n] \in Message /\ ~view[n].user
    <3>1. view # <<>> /\ Len(view) \in Nat /\ Len(view) # 0
      BY <1>1, EmptySeq, LenProperties DEF EndsInAnswer
    <3>2. QED BY <1>1, <3>1 DEF EndsInAnswer, Last
  <2>2. m \in Message /\ ~m.user
    <3> HIDE DEF n
    <3>1. QED BY <2>1, TextReplaced
  <2>3. view' = [view EXCEPT ![n] = m] /\ live' = n
    BY <1>1 DEF RetryLastAnswer
  <2> HIDE DEF m, n
  <2>4. n = Len(view)
    BY DEF n
  <2>5. QED
    BY <1>1, <1>5, <2>1, <2>2, <2>3, <2>4, LiveRowWritten
       DEF LiveRowIsLast, Last
<1>7. UiTypes' /\ StoreTypes' /\ GhostTypes'
  BY <1>1, <1>4, <1>5, <1>6 DEF UiTypes, LastTypes, StoreTypes, GhostTypes
<1>8. ChatTypeOK'
  BY <1>1, <1>4, <1>5, <1>7, NextTypesByOwner
<1>9. WorkInPlace'
  <2>1. queries' <= questions' + MaxRetries
    BY <1>1, <1>4, <1>5, ChatAssumption DEF GhostTypes
  <2>2. RowsInPlace'
    BY <1>1, <1>4 DEF WorkInPlace, RowsInPlace, AskedHere
  <2>3. AskedHere(lastQuestion, session)' /\ AskedHere(job.question, job.session)'
    BY <1>2, <1>4, <1>5 DEF AskedHere
  <2>4. QED BY <1>1, <1>2, <1>4, <1>5, <2>1, <2>2, <2>3 DEF WorkInPlace
<1>10. SessionsExist'
  BY <1>1, <1>4 DEF SessionsExist
<1>11. QED BY <1>5, <1>6, <1>8, <1>9, <1>10 DEF ChatInv

(* What opening, beginning and deleting a session has to show for itself.   *)
LEMMA SwitchDone ==
  ASSUME ChatInv, Switch, StoreTypes', LastTypes', session' \in 0 .. MaxSessions,
         view' \in Seq(Message), live' \in 0 .. Len(view'), LiveRowIsLast',
         RowsInPlace', SessionsExist', faults' \in 0 .. MaxFaults,
         lastQuestion' # 0 =>
           session' # 0 /\ AskedHere(lastQuestion, session)'
  PROVE  ChatInv'
<1>1. /\ UNCHANGED <<retrying, querying, signals, at, leg, streamed, job, reply,
                     usedDocuments, queries, questions, askedIn, before, lost>>
      /\ switches < MaxSwitches /\ switches' = switches + 1
  BY DEF Switch, workerVars
<1>2. /\ UiTypes /\ WorkerTypes /\ GhostTypes /\ signals \in Seq(Signal)
      /\ lost \in BOOLEAN
  BY TypesByOwner DEF ChatInv
<1>3. switches' \in 0 .. MaxSwitches
  BY <1>1, <1>2, ChatAssumption DEF GhostTypes
<1>4. UiTypes' /\ WorkerTypes' /\ GhostTypes'
  BY <1>1, <1>2, <1>3 DEF UiTypes, WorkerTypes, JobTypes, GhostTypes
<1>5. ChatTypeOK'
  BY <1>1, <1>2, <1>4, NextTypesByOwner
<1>6. SignalsInOrder'
  BY <1>1 DEF ChatInv, SignalsInOrder, Finished, Last
<1>7. WorkInPlace'
  BY <1>1 DEF ChatInv, WorkInPlace, AskedHere, Nothing
<1>8. QED BY <1>5, <1>6, <1>7 DEF ChatInv

LEMMA ExchangeCleared ==
  ASSUME ClearLastExchange
  PROVE  LastTypes' /\ lastQuestion' = 0
<1>1. lastQuestion' = 0 /\ lastAnswer' = Nothing /\ lastWasSearch' = FALSE
  BY DEF ClearLastExchange
<1>2. 0 \in 0 .. MaxQuestions
  BY ChatAssumption
<1>3. lastAnswer' \in Message
  BY <1>1, NothingIsAMessage
<1>4. QED BY <1>1, <1>2, <1>3 DEF LastTypes

(* The exchange adopted is of the session opened.                           *)
LEMMA ExchangeAdopted ==
  ASSUME NEW rows \in Seq(Message), AdoptLastExchange(rows)
  PROVE  /\ LastTypes'
         /\ lastQuestion' # 0 =>
              \E i \in DOMAIN rows : lastQuestion' = rows[i].about
<1> DEFINE asked == {i \in DOMAIN rows : rows[i].user}
<1>1. CASE EndsInAnswer(rows) /\ asked # {}
  <2>1. /\ \E i \in asked : lastQuestion' = rows[i].about
        /\ lastAnswer' = Last(rows)
        /\ lastWasSearch' = (Last(rows).tool = "search")
    BY <1>1 DEF AdoptLastExchange
  <2>2. PICK i \in asked : lastQuestion' = rows[i].about
    BY <2>1
  <2>3. Len(rows) \in DOMAIN rows
    BY <1>1, EmptySeq, LenProperties DEF EndsInAnswer
  <2>4. rows[i] \in Message /\ Last(rows) \in Message
    BY <2>3, ElementOfSeq, LenProperties DEF Last
  <2>5. lastQuestion' \in 0 .. MaxQuestions
    BY <2>2, <2>4 DEF Message
  <2>6. QED BY <2>1, <2>2, <2>4, <2>5 DEF LastTypes
<1>2. CASE ~(EndsInAnswer(rows) /\ asked # {})
  <2>1. ClearLastExchange
    BY <1>2 DEF AdoptLastExchange
  <2>2. QED BY <2>1, ExchangeCleared
<1>3. QED BY <1>1, <1>2

LEMMA SelectChatSessionKeeps ==
  ASSUME ChatInv, NEW s \in Sessions, SelectChatSession(s)
  PROVE  ChatInv'
<1>1. /\ Switch /\ s \in sessions /\ session' = s /\ live' = 0
      /\ AdoptLastExchange(view')
      /\ UNCHANGED <<chat, sessions, created, questions, askedIn, querying>>
  BY DEF SelectChatSession, Switch, storeVars
<1>2. StoreTypes /\ WorkInPlace /\ SessionsExist /\ chat[s] \in Seq(Message)
      /\ faults \in 0 .. MaxFaults
  BY TypesByOwner DEF ChatInv, StoreTypes
<1>3. PICK rows \in Seq(Message) : view' = rows /\ rows \in {chat[s], <<>>}
  <2>1. <<>> \in Seq(Message)
    BY EmptySeq
  <2>2. QED BY <1>2, <2>1 DEF SelectChatSession
<1>4. faults' \in 0 .. MaxFaults
  BY <1>2, FaultCounted DEF SelectChatSession
<1>5. AdoptLastExchange(rows)
  BY <1>1, <1>3
<1>6. /\ LastTypes'
      /\ lastQuestion' # 0 =>
           \E i \in DOMAIN rows : lastQuestion' = rows[i].about
  BY <1>5, ExchangeAdopted
<1>7. lastQuestion' # 0 => session' # 0 /\ AskedHere(lastQuestion, session)'
  <2> SUFFICES ASSUME lastQuestion' # 0
               PROVE  session' # 0 /\ AskedHere(lastQuestion, session)'
    OBVIOUS
  <2>1. PICK i \in DOMAIN rows : lastQuestion' = rows[i].about
    BY <1>6
  <2>2. rows = chat[s]
    BY <1>3
  <2>3. AskedHere(chat[s][i].about, s)
    BY <1>2, <2>1, <2>2 DEF WorkInPlace, RowsInPlace
  <2>4. lastQuestion' \in 1 .. questions /\ askedIn[lastQuestion'] = s
    BY <2>1, <2>2, <2>3 DEF AskedHere
  <2>5. s # 0
    BY DEF Sessions
  <2>6. QED BY <1>1, <2>4, <2>5 DEF AskedHere
<1>8. StoreTypes' /\ RowsInPlace' /\ SessionsExist'
  BY <1>1, <1>2
     DEF StoreTypes, WorkInPlace, RowsInPlace, AskedHere, SessionsExist
<1>9. session' \in 0 .. MaxSessions /\ view' \in Seq(Message)
      /\ live' \in 0 .. Len(view')
  BY <1>1, <1>3, LenProperties, ChatAssumption DEF Sessions
<1>10. LiveRowIsLast'
  BY <1>1 DEF LiveRowIsLast
<1>11. QED BY <1>1, <1>4, <1>6, <1>7, <1>8, <1>9, <1>10, SwitchDone

(* An empty screen.                                                         *)
LEMMA NewChatShown ==
  ASSUME ShowNewChat
  PROVE  /\ session' = 0 /\ session' \in 0 .. MaxSessions
         /\ view' \in Seq(Message) /\ live' \in 0 .. Len(view')
         /\ LastTypes' /\ LiveRowIsLast' /\ lastQuestion' = 0
<1>1. session' = 0 /\ view' = <<>> /\ live' = 0 /\ ClearLastExchange
  BY DEF ShowNewChat
<1>2. LastTypes' /\ lastQuestion' = 0 /\ session' \in 0 .. MaxSessions
  BY <1>1, ExchangeCleared, ChatAssumption
<1>3. view' \in Seq(Message) /\ live' \in 0 .. Len(view')
  BY <1>1, EmptySeq
<1>4. LiveRowIsLast'
  BY <1>1 DEF LiveRowIsLast
<1>5. QED BY <1>1, <1>2, <1>3, <1>4

LEMMA StartNewChatKeeps == ChatInv /\ StartNewChat => ChatInv'
<1> SUFFICES ASSUME ChatInv, StartNewChat PROVE ChatInv'
  OBVIOUS
<1>1. /\ Switch /\ ShowNewChat
      /\ UNCHANGED <<chat, sessions, created, questions, askedIn, faults>>
  BY DEF StartNewChat, Switch, storeVars
<1>2. StoreTypes /\ WorkInPlace /\ SessionsExist /\ faults \in 0 .. MaxFaults
  BY TypesByOwner DEF ChatInv
<1>3. StoreTypes' /\ RowsInPlace'
  BY <1>1, <1>2 DEF StoreTypes, WorkInPlace, RowsInPlace, AskedHere
<1>4. SessionsExist'
  BY <1>1, <1>2, NewChatShown DEF SessionsExist
<1>5. QED BY <1>1, <1>2, <1>3, <1>4, NewChatShown, SwitchDone

LEMMA DeleteChatSessionKeeps ==
  ASSUME ChatInv, NEW s \in Sessions, DeleteChatSession(s)
  PROVE  ChatInv'
<1>1. /\ Switch /\ s \in sessions /\ sessions' = sessions \ {s}
      /\ chat' = [chat EXCEPT ![s] = <<>>]
      /\ UNCHANGED <<created, faults, questions, askedIn, querying>>
      /\ IF s = session THEN ShowNewChat
         ELSE UNCHANGED <<session, view, live, lastQuestion, lastAnswer,
                          lastWasSearch>>
  BY DEF DeleteChatSession, Switch, lastVars
<1>2. /\ StoreTypes /\ UiTypes /\ WorkInPlace /\ SessionsExist /\ LiveRowIsLast
      /\ faults \in 0 .. MaxFaults
  BY TypesByOwner DEF ChatInv
<1>3. chat' \in [Sessions -> Seq(Message)] /\ RowsInPlace'
  <2>1. <<>> \in Seq(Message) /\ DOMAIN <<>> = {}
    BY EmptySeq
  <2>2. \A i \in DOMAIN <<>> : AskedHere(<<>>[i].about, s)
    BY <2>1
  <2>3. RowsInPlace
    BY <1>2 DEF WorkInPlace
  <2>4. QED BY <1>1, <1>2, <2>1, <2>2, <2>3, RowsOfASession
<1>4. StoreTypes'
  BY <1>1, <1>2, <1>3 DEF StoreTypes
<1>5. /\ session' \in 0 .. MaxSessions /\ view' \in Seq(Message)
      /\ live' \in 0 .. Len(view') /\ LastTypes' /\ LiveRowIsLast'
      /\ lastQuestion' # 0 => session' # 0 /\ AskedHere(lastQuestion, session)'
      /\ session' # 0 => session' \in sessions'
  <2>1. CASE s = session
    BY <1>1, <2>1, NewChatShown
  <2>2. CASE s # session
    <3>1. UNCHANGED <<session, view, live, lastQuestion, lastAnswer,
                      lastWasSearch, questions, askedIn, querying>>
      BY <1>1, <2>2
    <3>2. /\ session' \in 0 .. MaxSessions /\ view' \in Seq(Message)
          /\ live' \in 0 .. Len(view') /\ LastTypes'
      BY <1>2, <3>1 DEF UiTypes, LastTypes
    <3>3. LiveRowIsLast'
      BY <1>2, <3>1 DEF LiveRowIsLast, Last
    <3>4. lastQuestion' # 0 => session' # 0 /\ AskedHere(lastQuestion, session)'
      BY <1>2, <3>1 DEF WorkInPlace, AskedHere
    <3>5. session' # 0 => session' \in sessions'
      BY <1>1, <1>2, <2>2, <3>1 DEF SessionsExist
    <3>6. QED BY <3>2, <3>3, <3>4, <3>5
  <2>3. QED BY <2>1, <2>2
<1>6. SessionsExist'
  <2>1. \A t \in Sessions : t \notin sessions' => chat'[t] = <<>>
    BY <1>1, <1>2 DEF StoreTypes, SessionsExist
  <2>2. \A t \in sessions' : t <= created'
    BY <1>1, <1>2 DEF SessionsExist
  <2>3. QED BY <1>5, <2>1, <2>2 DEF SessionsExist
<1>7. faults' \in 0 .. MaxFaults
  BY <1>1, <1>2
<1>8. QED BY <1>1, <1>3, <1>4, <1>5, <1>6, <1>7, SwitchDone

-----------------------------------------------------------------------------
(* The invariant holds of every chat.                                       *)

LEMMA StutterKeeps == ChatInv /\ UNCHANGED chatVars => ChatInv'
<1> SUFFICES ASSUME ChatInv, UNCHANGED chatVars PROVE ChatInv'
  OBVIOUS
<1> USE DEF chatVars, storeVars, uiVars, lastVars, workerVars, ghostVars
<1>1. ChatTypeOK'
  BY DEF ChatInv, ChatTypeOK
<1>2. SignalsInOrder' /\ LiveRowIsLast'
  BY DEF ChatInv, SignalsInOrder, LiveRowIsLast, Finished, Last
<1>3. WorkInPlace' /\ SessionsExist'
  BY DEF ChatInv, WorkInPlace, RowsInPlace, AskedHere, SessionsExist, Nothing
<1>4. QED BY <1>1, <1>2, <1>3 DEF ChatInv

LEMMA ChatInitInv == ChatInit => ChatInv
<1> SUFFICES ASSUME ChatInit PROVE ChatInv
  OBVIOUS
<1> USE DEF ChatInit
<1>1. <<>> \in Seq(Message) /\ <<>> \in Seq(Signal) /\ Len(<<>>) = 0
      /\ DOMAIN <<>> = {}
  BY EmptySeq
<1>2. StoreTypes
  BY <1>1, ChatAssumption DEF StoreTypes
<1>3. UiTypes
  <2>1. LastTypes
    <3>1. 0 \in 0 .. MaxQuestions
      BY ChatAssumption
    <3>2. lastAnswer \in Message
      BY NothingIsAMessage
    <3>3. QED BY <3>1, <3>2 DEF LastTypes
  <2>2. 0 \in 0 .. MaxSessions /\ 0 \in 0 .. Len(<<>>)
    BY <1>1, ChatAssumption
  <2>3. QED BY <1>1, <2>1, <2>2 DEF UiTypes
<1>4. WorkerTypes
  <2>1. /\ 0 \in 0 .. MaxSessions /\ 0 \in 0 .. MaxQuestions
        /\ 0 \in 0 .. MaxQuestions + MaxRetries
    BY ChatAssumption
  <2>2. JobTypes
    BY <2>1 DEF JobTypes, NoJob
  <2>3. reply \in Message
    BY NothingIsAMessage
  <2>4. QED BY <2>2, <2>3 DEF WorkerTypes, Places, Legs
<1>5. GhostTypes
  BY <1>1, ChatAssumption DEF GhostTypes
<1>6. ChatTypeOK
  <2>1. signals \in Seq(Signal) /\ lost \in BOOLEAN
    BY <1>1
  <2>2. faults \in 0 .. MaxFaults
    BY ChatAssumption
  <2> HIDE DEF ChatInit
  <2>3. QED BY <1>2, <1>3, <1>4, <1>5, <2>1, <2>2, TypesByOwner
<1>7. SignalsInOrder /\ LiveRowIsLast
  BY DEF SignalsInOrder, LiveRowIsLast
<1>8. WorkInPlace
  <2>1. RowsInPlace
    BY <1>1 DEF RowsInPlace
  <2>2. QED BY <2>1, ChatAssumption DEF WorkInPlace
<1>9. SessionsExist
  BY DEF SessionsExist
<1>10. QED BY <1>6, <1>7, <1>8, <1>9 DEF ChatInv

LEMMA ChatNextInv == ChatInv /\ [ChatNext]_chatVars => ChatInv'
<1> SUFFICES ASSUME ChatInv, [ChatNext]_chatVars PROVE ChatInv'
  OBVIOUS
<1>1. CASE SendChatMessage
  BY <1>1, SendChatMessageKeeps
<1>2. CASE RetryLastAnswer
  BY <1>2, RetryLastAnswerKeeps
<1>3. CASE \E s \in Sessions : SelectChatSession(s) \/ DeleteChatSession(s)
  BY <1>3, SelectChatSessionKeeps, DeleteChatSessionKeeps
<1>4. CASE StartNewChat
  BY <1>4, StartNewChatKeeps
<1>5. CASE UiReceives
  BY <1>5, OnQueryTokenKeeps, OnQueryStageKeeps, OnQuerySucceededKeeps,
     OnRetryFailedKeeps, OnQuestionFailedKeeps DEF UiReceives
<1>6. CASE WorkerThread
  <2>1. CASE LoadHistory \/ PersistQuestion \/ RecordAnswer \/ Report
    BY <2>1, LoadHistoryKeeps, PersistQuestionKeeps, RecordAnswerKeeps,
       ReportKeeps
  <2>2. CASE Route \/ Summarize \/ Retrieve \/ StreamToken \/ GenerationEnds
               \/ Fallback
    <3>1. PipelineStep
      BY <2>2, PipelineSteps DEF ChatInv
    <3>2. QED BY <3>1, PipelineKeeps
  <2>3. QED BY <1>6, <2>1, <2>2 DEF WorkerThread
<1>7. CASE Idle \/ UNCHANGED chatVars
  BY <1>7, StutterKeeps DEF Idle
<1>8. QED BY <1>1, <1>2, <1>3, <1>4, <1>5, <1>6, <1>7 DEF ChatNext

(***************************************************************************)
(* ChatInv holds in every state of every chat, with any number of          *)
(* sessions, questions, retries and failing statements.                    *)
(***************************************************************************)
THEOREM ChatIsInvariant == ChatSpec => []ChatInv
<1>1. ChatInit => ChatInv
  BY ChatInitInv
<1>2. ChatInv /\ [ChatNext]_chatVars => ChatInv'
  BY ChatNextInv
<1>3. QED BY <1>1, <1>2, PTL DEF ChatSpec

(* Every variable of the chat has its type, whatever the user does.         *)
THEOREM ChatTypeCorrect == ChatSpec => []ChatTypeOK
<1>1. ChatInv => ChatTypeOK
  BY DEF ChatInv
<1>2. QED BY <1>1, ChatIsInvariant, PTL

(***************************************************************************)
(* m_liveIndex is the last row while set, and unset when no query runs,    *)
(* whatever is sent, opened or deleted while the worker streams.           *)
(***************************************************************************)
THEOREM TheLiveRowIsAlwaysLast == ChatSpec => []LiveRowIsLast
<1>1. ChatInv => LiveRowIsLast
  BY DEF ChatInv
<1>2. QED BY <1>1, ChatIsInvariant, PTL

(***************************************************************************)
(* A query records its question and its answer in the session the question *)
(* was asked in, whatever session is on screen when it does.               *)
(***************************************************************************)
THEOREM RowsAlwaysStayInTheirSession == ChatSpec => []RowsStayInTheirSession
<1>1. ChatInv => RowsStayInTheirSession
  BY DEF ChatInv, WorkInPlace, RowsInPlace, AskedHere, RowsStayInTheirSession
<1>2. QED BY <1>1, ChatIsInvariant, PTL

(***************************************************************************)
(* No step of the worker or of the user changes a recorded row but the     *)
(* newest answer of its session.                                           *)
(***************************************************************************)
LEMMA ChatOnlyGrows ==
  ASSUME ChatInv, ChatNext, NEW s \in sessions', NEW i \in DOMAIN chat[s]
  PROVE  \/ i \in DOMAIN chat'[s] /\ chat'[s][i] = chat[s][i]
         \/ i = Len(chat[s]) /\ ~chat[s][i].user
<1> DEFINE kept == i \in DOMAIN chat'[s] /\ chat'[s][i] = chat[s][i]
<1>1. chat \in [Sessions -> Seq(Message)] /\ sessions \subseteq Sessions
  BY TypesByOwner DEF ChatInv, StoreTypes
<1>2. s \in Sessions
  BY TypesByOwner, NextTypesByOwner, ChatNextInv DEF ChatInv, StoreTypes
<1>3. chat[s] \in Seq(Message) /\ i \in 1 .. Len(chat[s])
      /\ Len(chat[s]) \in Nat
  BY <1>1, <1>2, LenProperties
<1>4. CASE chat' = chat
  BY <1>4
<1>5. CASE \E m \in Message : chat' = [chat EXCEPT ![job.session] = Append(@, m)]
  <2>1. PICK m \in Message : chat' = [chat EXCEPT ![job.session] = Append(@, m)]
    BY <1>5
  <2>2. CASE s = job.session
    <3>1. chat'[s] = Append(chat[s], m)
      BY <1>1, <1>2, <2>1, <2>2
    <3>2. QED BY <1>3, <3>1, AppendProperties
  <2>3. CASE s # job.session
    BY <1>1, <1>2, <2>1, <2>3
  <2>4. QED BY <2>2, <2>3
<1>6. CASE /\ EndsInAnswer(chat[job.session]) /\ reply \in Message
           /\ chat' = [chat EXCEPT ![job.session] =
                         SubSeq(@, 1, Len(@) - 1) \o <<reply>>]
  <2>1. CASE s = job.session
    <3> DEFINE t == SubSeq(chat[s], 1, Len(chat[s]) - 1) \o <<reply>>
    <3>1. chat'[s] = t /\ chat[s] # <<>> /\ ~Last(chat[s]).user
      BY <1>1, <1>2, <1>6, <2>1 DEF EndsInAnswer
    <3>2. /\ Len(t) = Len(chat[s]) /\ t \in Seq(Message)
          /\ \A j \in 1 .. Len(chat[s]) : j # Len(chat[s]) => t[j] = chat[s][j]
      BY <1>3, <1>6, <3>1, NewestReplaced
    <3> HIDE DEF t
    <3>3. DOMAIN t = 1 .. Len(chat[s])
      BY <3>2, LenProperties
    <3>4. QED BY <1>3, <3>1, <3>2, <3>3 DEF Last
  <2>2. CASE s # job.session
    BY <1>1, <1>2, <1>6, <2>2
  <2>3. QED BY <2>1, <2>2
<1>7. CASE \E t \in Sessions : DeleteChatSession(t)
  BY <1>1, <1>2, <1>7 DEF DeleteChatSession
<1>8. CASE PersistQuestion
  <2>1. job.question \in 0 .. MaxQuestions
    BY TypesByOwner DEF ChatInv, WorkerTypes, JobTypes
  <2>2. Asked(job.question) \in Message
    BY <2>1, AskedIsAMessage
  <2>3. QED BY <1>4, <1>5, <1>8, <2>2 DEF PersistQuestion, AppendMessage
<1>9. CASE RecordAnswer
  <2>1. reply \in Message
    BY TypesByOwner DEF ChatInv, WorkerTypes
  <2>2. CASE UpdateLastAssistant
    BY <1>4, <1>6, <2>1, <2>2 DEF UpdateLastAssistant
  <2>3. CASE AppendMessage(reply)
    BY <1>4, <1>5, <2>1, <2>3 DEF AppendMessage
  <2>4. QED BY <1>4, <1>9, <2>2, <2>3 DEF RecordAnswer
<1>10. CASE Route \/ Summarize \/ Retrieve \/ StreamToken \/ GenerationEnds
              \/ Fallback
  <2>1. chat' = chat
    BY <1>10, PipelineSteps DEF ChatInv, PipelineStep
  <2>2. QED BY <1>4, <2>1
<1>11. CASE LoadHistory \/ Report
  BY <1>4, <1>11 DEF LoadHistory, Report
<1>12. CASE UiReceives
  BY <1>4, <1>12
     DEF UiReceives, OnQueryToken, OnQueryStage, OnQuerySucceeded,
         OnRetryFailed, OnQuestionFailed, Receive, storeVars
<1>13. CASE \/ SendChatMessage \/ RetryLastAnswer \/ StartNewChat \/ Idle
            \/ \E t \in Sessions : SelectChatSession(t)
  BY <1>4, <1>13
     DEF SendChatMessage, RetryLastAnswer, StartNewChat, Idle,
         SelectChatSession, storeVars, chatVars
<1>14. QED
  BY <1>7, <1>8, <1>9, <1>10, <1>11, <1>12, <1>13 DEF ChatNext, WorkerThread

(***************************************************************************)
(* The recorded history is only added to: between any two states of a      *)
(* chat, every row but the newest answer of its session stays.             *)
(***************************************************************************)
THEOREM HistoryIsOnlyAddedTo == ChatSpec => OnlyTheNewestAnswerChanges
<1>1. ChatInv /\ [ChatNext]_chatVars =>
        [\A s \in sessions' : \A i \in DOMAIN chat[s] :
           \/ i \in DOMAIN chat'[s] /\ chat'[s][i] = chat[s][i]
           \/ i = Len(chat[s]) /\ ~chat[s][i].user]_chatVars
  BY ChatOnlyGrows
<1>2. QED
  BY <1>1, ChatIsInvariant, PTL DEF ChatSpec, OnlyTheNewestAnswerChanges

-----------------------------------------------------------------------------
(* A user who switches between queries only: what a failed query leaves.    *)

(* The query just started has found its session as it is.                   *)
LEMMA StartedRecord ==
  ASSUME NEW s, NEW q, NEW retry, StartWorker(s, q, retry), chat' = chat
  PROVE  RecordSoFar'
<1>1. /\ at' = "load" /\ before' = chat[s] /\ job'.session = s
  BY DEF StartWorker
<1>2. QED BY <1>1 DEF RecordSoFar

(* A step that records nothing leaves what was recorded.                    *)
LEMMA RecordUntouched ==
  ASSUME RecordSoFar, querying' => querying,
         UNCHANGED <<chat, job, before>>,
         \/ at' = at /\ reply' = reply
         \/ at \notin {"none", "report"} /\ at' \notin {"load", "persist"}
         \/ at = "load" /\ at' = "persist" /\ ~job.retry
         \/ at = "report" /\ at' = "none" /\ reply' = reply
  PROVE  RecordSoFar'
  BY DEF RecordSoFar, Asked

LEMMA WorkerKeepsTheRecord ==
  ASSUME ChatInv, RecordSoFar, WorkerThread
  PROVE  RecordSoFar'
<1>1. InWorker
  <2>1. CASE Route \/ Summarize \/ Retrieve \/ StreamToken \/ GenerationEnds
               \/ Fallback
    BY <2>1, PipelineSteps DEF ChatInv, PipelineStep
  <2>2. CASE LoadHistory \/ PersistQuestion \/ RecordAnswer \/ Report
    BY <2>2 DEF LoadHistory, PersistQuestion, RecordAnswer, Report
  <2>3. QED BY <2>1, <2>2 DEF WorkerThread
<1>2. /\ UNCHANGED <<sessions, querying, before>>
      /\ querying => job.session \in Sessions
      /\ chat \in [Sessions -> Seq(Message)] /\ job.retry \in BOOLEAN
  BY <1>1, WorkerKeepsTheRest, TypesByOwner
     DEF ChatInv, WorkInPlace, StoreTypes, WorkerTypes, JobTypes
<1>3. CASE LoadHistory
  <2>1. /\ at = "load" /\ UNCHANGED <<chat, job>>
        /\ \/ at' = "retrieve"
           \/ at' = "persist" /\ ~job.retry
           \/ at' = "report"
    BY <1>3 DEF LoadHistory, Fail
  <2>2. QED BY <1>2, <2>1, RecordUntouched
<1>4. CASE PersistQuestion
  <2>1. /\ at = "persist" /\ at' = "route" /\ UNCHANGED <<job, reply>>
        /\ AppendMessage(Asked(job.question))
    BY <1>4 DEF PersistQuestion
  <2>2. CASE chat' = chat
    BY <1>2, <2>1, <2>2, RecordUntouched
  <2>3. CASE chat' = [chat EXCEPT ![job.session] =
                        Append(@, Asked(job.question))]
    <3> SUFFICES ASSUME querying PROVE RecordSoFar'
      BY <1>2 DEF RecordSoFar
    <3>1. chat'[job.session] = Append(chat[job.session], Asked(job.question))
      BY <1>2, <2>3
    <3>2. ~job.retry /\ chat[job.session] = before
      BY <2>1 DEF RecordSoFar
    <3>3. Asked(job.question)' = Asked(job.question)
      BY <2>1
    <3>4. QED BY <1>2, <2>1, <3>1, <3>2, <3>3 DEF RecordSoFar
  <2>4. QED BY <2>1, <2>2, <2>3 DEF AppendMessage
<1>5. CASE Route \/ Summarize \/ Retrieve \/ StreamToken \/ GenerationEnds
             \/ Fallback
  <2>1. PipelineStep
    BY <1>5, PipelineSteps DEF ChatInv
  <2>2. /\ at \notin {"none", "report"} /\ at' \notin {"load", "persist"}
        /\ UNCHANGED <<chat, job>>
    BY <2>1 DEF PipelineStep
  <2>3. QED BY <1>2, <2>2, RecordUntouched
<1>6. CASE RecordAnswer
  <2>1. /\ at = "record" /\ at' = "report" /\ job' = job /\ reply # Nothing
    BY <1>6 DEF RecordAnswer, ChatInv, WorkInPlace
  <2>2. CASE reply' = Nothing
    <3>1. chat' = chat
      BY <1>6, <2>1, <2>2 DEF RecordAnswer, UpdateLastAssistant
    <3>2. QED BY <1>2, <2>1, <3>1, RecordUntouched
  <2>3. CASE reply' # Nothing
    BY <2>1, <2>3 DEF RecordSoFar, Nothing
  <2>4. QED BY <2>2, <2>3
<1>7. CASE Report
  BY <1>2, <1>7, RecordUntouched DEF Report
<1>8. QED BY <1>3, <1>4, <1>5, <1>6, <1>7 DEF WorkerThread

LEMMA RecordSoFarKept ==
  ASSUME Patient, ChatInv, RecordSoFar, [ChatNext]_chatVars
  PROVE  RecordSoFar'
<1>1. CASE SendChatMessage
  <2>1. PICK s : session' = s
    OBVIOUS
  <2>2. StartWorker(s, questions + 1, FALSE) /\ chat' = chat
    BY <1>1, <2>1 DEF SendChatMessage, StartWorker
  <2>3. PICK q : q = questions + 1
    OBVIOUS
  <2>4. StartWorker(s, q, FALSE)
    BY <2>2, <2>3
  <2>5. QED BY <2>2, <2>4, StartedRecord
<1>2. CASE RetryLastAnswer
  <2>1. PICK s, q : s = session /\ q = lastQuestion
    OBVIOUS
  <2>2. StartWorker(s, q, TRUE) /\ chat' = chat
    BY <1>2, <2>1 DEF RetryLastAnswer, storeVars
  <2>3. QED BY <2>2, StartedRecord
<1>3. CASE Switch
  BY <1>3 DEF Switch, RecordSoFar
<1>4. CASE UiReceives
  <2>1. UNCHANGED <<chat, job, before, at, reply>>
    BY <1>4
       DEF UiReceives, OnQueryToken, OnQueryStage, OnQuerySucceeded,
           OnRetryFailed, OnQuestionFailed, Receive, storeVars, workerVars,
           ghostVars
  <2>2. querying' => querying
    BY <1>4
       DEF UiReceives, OnQueryToken, OnQueryStage, OnQuerySucceeded,
           OnRetryFailed, OnQuestionFailed
  <2>3. QED BY <2>1, <2>2, RecordUntouched
<1>5. CASE WorkerThread
  BY <1>5, WorkerKeepsTheRecord
<1>6. CASE Idle \/ UNCHANGED chatVars
  BY <1>6, RecordUntouched
     DEF Idle, chatVars, storeVars, uiVars, workerVars, ghostVars
<1>7. QED
  BY <1>1, <1>2, <1>3, <1>4, <1>5, <1>6
     DEF ChatNext, SelectChatSession, DeleteChatSession, StartNewChat

LEMMA RecordIsInvariant ==
  ASSUME Patient
  PROVE  ChatSpec => []RecordSoFar
<1>1. ChatInit => RecordSoFar
  BY DEF ChatInit, RecordSoFar
<1>2. ChatInv /\ RecordSoFar /\ [ChatNext]_chatVars => RecordSoFar'
  BY RecordSoFarKept
<1>3. QED BY <1>1, <1>2, ChatIsInvariant, PTL DEF ChatSpec

(* What is recorded when the report of a failed query arrives.              *)
LEMMA FailureLeaves ==
  ASSUME ChatInv, RecordSoFar, Receive("finished"), ~Head(signals).ok
  PROVE  /\ retrying => chat[job.session] = before
         /\ chat[job.session] \in {before, Append(before, Asked(job.question))}
<1>1. querying /\ Head(signals) = Finished
  BY ReportIsLast
<1>2. reply = Nothing
  <2>1. ~Finished.ok
    BY <1>1
  <2>2. Finished.ok <=> reply # Nothing
    BY DEF Finished
  <2>3. QED BY <2>1, <2>2
<1>3. retrying = job.retry
  BY <1>1 DEF ChatInv, WorkInPlace
<1>4. QED BY <1>1, <1>2, <1>3 DEF RecordSoFar

(***************************************************************************)
(* For a user who switches between queries only, whatever statements fail: *)
(* a retry that fails leaves the session as it was, and a question that    *)
(* fails leaves at most itself there.                                      *)
(***************************************************************************)
THEOREM FailuresKeepTheRecord ==
  ASSUME Patient
  PROVE  ChatSpec => FailedQueryKeepsTheRecord
<1>1. ChatInv /\ RecordSoFar =>
        [/\ OnRetryFailed => chat[job.session] = before
         /\ OnQuestionFailed =>
              chat[job.session] \in {before, Append(before, Asked(job.question))}
        ]_chatVars
  BY FailureLeaves DEF OnRetryFailed, OnQuestionFailed
<1>2. QED
  BY <1>1, ChatIsInvariant, RecordIsInvariant, PTL
     DEF FailedQueryKeepsTheRecord

-----------------------------------------------------------------------------
(* Lemmas about the rows of a session and of the screen.                    *)

(* In these rows an answer follows its question.                            *)
Follows(rows) ==
  \A i \in DOMAIN rows :
    ~rows[i].user =>
      i > 1 /\ rows[i - 1].user /\ rows[i - 1].about = rows[i].about

LEMMA QuestionFollows ==
  ASSUME NEW rows \in Seq(Message), NEW m \in Message, Follows(rows),
         \/ m.user
         \/ rows # <<>> /\ Last(rows).user /\ Last(rows).about = m.about
  PROVE  Follows(Append(rows, m))
<1> DEFINE new == Append(rows, m)
<1>1. /\ new \in Seq(Message) /\ Len(new) = Len(rows) + 1
      /\ new[Len(rows) + 1] = m /\ Len(rows) \in Nat
      /\ \A i \in 1 .. Len(rows) : new[i] = rows[i]
      /\ DOMAIN rows = 1 .. Len(rows)
  BY AppendProperties, LenProperties
<1> HIDE DEF new
<1>2. ASSUME NEW i \in DOMAIN new, ~new[i].user
      PROVE  i > 1 /\ new[i - 1].user /\ new[i - 1].about = new[i].about
  <2>1. i \in 1 .. Len(rows) + 1
    BY <1>1, <1>2, LenProperties
  <2>2. CASE i = Len(rows) + 1
    <3>1. ~m.user
      BY <1>1, <1>2, <2>2
    <3>2. rows # <<>> /\ Last(rows).user /\ Last(rows).about = m.about
      BY <3>1
    <3>3. Len(rows) \in 1 .. Len(rows) /\ i - 1 = Len(rows) /\ i > 1
      BY <1>1, <2>2, <3>2, EmptySeq
    <3>4. QED BY <1>1, <2>2, <3>2, <3>3 DEF Last
  <2>3. CASE i # Len(rows) + 1
    <3>1. i \in DOMAIN rows /\ new[i] = rows[i] /\ ~rows[i].user
      BY <1>1, <1>2, <2>1, <2>3
    <3>2. i > 1 /\ rows[i - 1].user /\ rows[i - 1].about = rows[i].about
      BY <3>1 DEF Follows
    <3>3. new[i - 1] = rows[i - 1]
      BY <1>1, <3>1, <3>2
    <3>4. QED BY <3>1, <3>2, <3>3
  <2>4. QED BY <2>2, <2>3
<1>3. QED BY <1>2 DEF Follows, new

(* The rows before the newest.                                              *)
LEMMA NewestOff ==
  ASSUME NEW rows \in Seq(Message), EndsInAnswer(rows)
  PROVE  LET base == SubSeq(rows, 1, Len(rows) - 1)
         IN  /\ base \in Seq(Message) /\ Len(base) = Len(rows) - 1
             /\ Len(rows) \in Nat /\ Len(rows) > 0
             /\ \A i \in 1 .. Len(base) : base[i] = rows[i]
             /\ Last(rows) \in Message
             /\ Follows(rows) => /\ base # <<>> /\ Last(base).user
                                 /\ Last(base).about = Last(rows).about
                                 /\ Follows(base)
<1> DEFINE base == SubSeq(rows, 1, Len(rows) - 1)
<1>1. Len(rows) \in Nat /\ Len(rows) > 0 /\ DOMAIN rows = 1 .. Len(rows)
  BY EmptySeq, LenProperties DEF EndsInAnswer
<1>2. /\ base \in Seq(Message) /\ Len(base) = Len(rows) - 1
      /\ \A i \in 1 .. Len(rows) - 1 : base[i] = rows[i]
  <2> DEFINE n == Len(rows) - 1
  <2>1. n \in Nat /\ n <= Len(rows)
    BY <1>1
  <2> HIDE DEF n
  <2>2. /\ SubSeq(rows, 1, n) \in Seq(Message) /\ Len(SubSeq(rows, 1, n)) = n
        /\ \A i \in 1 .. n : SubSeq(rows, 1, n)[i] = rows[i]
    BY <1>1, <2>1, SubSeqProperties
  <2>3. QED BY <2>2 DEF n
<1> HIDE DEF base
<1>3. Last(rows) \in Message
  BY <1>1 DEF Last
<1>4. ASSUME Follows(rows)
      PROVE  /\ base # <<>> /\ Last(base).user
             /\ Last(base).about = Last(rows).about /\ Follows(base)
  <2>1. /\ Len(rows) > 1 /\ rows[Len(rows) - 1].user
        /\ rows[Len(rows) - 1].about = rows[Len(rows)].about
    <3>1. Len(rows) \in DOMAIN rows
      BY <1>1
    <3>2. ~rows[Len(rows)].user
      BY DEF EndsInAnswer, Last
    <3>3. QED BY <1>4, <3>1, <3>2 DEF Follows
  <2>2. base # <<>> /\ Last(base) = rows[Len(rows) - 1]
    BY <1>1, <1>2, <2>1, EmptySeq DEF Last
  <2>3. Follows(base)
    <3>1. ASSUME NEW i \in DOMAIN base, ~base[i].user
          PROVE  i > 1 /\ base[i - 1].user /\ base[i - 1].about = base[i].about
      <4>1. i \in 1 .. Len(rows) - 1 /\ i \in DOMAIN rows
        BY <1>1, <1>2, LenProperties
      <4>2. base[i] = rows[i] /\ ~rows[i].user
        BY <1>2, <3>1, <4>1
      <4>3. i > 1 /\ rows[i - 1].user /\ rows[i - 1].about = rows[i].about
        BY <1>4, <4>1, <4>2 DEF Follows
      <4>4. base[i - 1] = rows[i - 1]
        BY <1>1, <1>2, <4>1, <4>3
      <4>5. QED BY <4>2, <4>3, <4>4
    <3>2. QED BY <3>1 DEF Follows
  <2>4. QED BY <2>1, <2>2, <2>3 DEF Last
<1>5. QED BY <1>1, <1>2, <1>3, <1>4 DEF base

(* Rows that begin like others and have one more, which is replaced or      *)
(* taken away.                                                              *)
LEMMA LastRow ==
  ASSUME NEW base \in Seq(Message), NEW rows \in Seq(Message),
         Len(rows) = Len(base) + 1,
         \A i \in 1 .. Len(base) : rows[i] = base[i], NEW m \in Message
  PROVE  /\ [rows EXCEPT ![Len(rows)] = m] = Append(base, m)
         /\ SubSeq(rows, 1, Len(rows) - 1)
              \o SubSeq(rows, Len(rows) + 1, Len(rows)) = base
<1>1. Len(base) \in Nat /\ Len(rows) \in 1 .. Len(rows)
  BY LenProperties
<1>2. [rows EXCEPT ![Len(rows)] = m] = Append(base, m)
  <2> DEFINE new == [rows EXCEPT ![Len(rows)] = m]
  <2>1. /\ new \in Seq(Message) /\ Len(new) = Len(rows) /\ new[Len(rows)] = m
        /\ \A j \in 1 .. Len(rows) : j # Len(rows) => new[j] = rows[j]
    BY <1>1, RowReplaced
  <2>2. /\ Append(base, m) \in Seq(Message)
        /\ Len(Append(base, m)) = Len(base) + 1
        /\ \A i \in 1 .. Len(base) : Append(base, m)[i] = base[i]
        /\ Append(base, m)[Len(base) + 1] = m
    BY AppendProperties
  <2> HIDE DEF new
  <2>3. \A i \in 1 .. Len(new) : new[i] = Append(base, m)[i]
    BY <1>1, <2>1, <2>2
  <2>4. new = Append(base, m)
    BY <2>1, <2>2, <2>3, SeqEqual
  <2>5. QED BY <2>4 DEF new
<1>3. SubSeq(rows, 1, Len(rows) - 1) = base
  <2>1. Len(rows) - 1 = Len(base)
    BY <1>1
  <2>2. /\ SubSeq(rows, 1, Len(base)) \in Seq(Message)
        /\ Len(SubSeq(rows, 1, Len(base))) = Len(base)
        /\ \A i \in 1 .. Len(base) : SubSeq(rows, 1, Len(base))[i] = rows[i]
    BY <1>1, SubSeqProperties
  <2>3. SubSeq(rows, 1, Len(base)) = base
    BY <2>2, SeqEqual
  <2>4. QED BY <2>1, <2>3
<1>4. SubSeq(rows, Len(rows) + 1, Len(rows)) = <<>>
  BY <1>1, SubSeqEmpty
<1>5. base \o <<>> = base
  BY ConcatEmptySeq
<1>6. QED BY <1>2, <1>3, <1>4, <1>5

(* The newest row put back.                                                 *)
LEMMA NewestPutBack ==
  ASSUME NEW rows \in Seq(Message), EndsInAnswer(rows)
  PROVE  Append(SubSeq(rows, 1, Len(rows) - 1), Last(rows)) = rows
<1> DEFINE base == SubSeq(rows, 1, Len(rows) - 1)
<1>1. /\ base \in Seq(Message) /\ Len(base) = Len(rows) - 1
      /\ Len(rows) \in Nat /\ Len(rows) > 0 /\ Last(rows) \in Message
      /\ \A i \in 1 .. Len(base) : base[i] = rows[i]
  BY NewestOff
<1> HIDE DEF base
<1>2. /\ Append(base, Last(rows)) \in Seq(Message)
      /\ Len(Append(base, Last(rows))) = Len(base) + 1
      /\ \A i \in 1 .. Len(base) : Append(base, Last(rows))[i] = base[i]
      /\ Append(base, Last(rows))[Len(base) + 1] = Last(rows)
  BY <1>1, AppendProperties
<1>3. \A i \in 1 .. Len(rows) : Append(base, Last(rows))[i] = rows[i]
  BY <1>1, <1>2 DEF Last
<1>4. Append(base, Last(rows)) = rows
  BY <1>1, <1>2, <1>3, SeqEqual
<1>5. QED BY <1>4 DEF base

-----------------------------------------------------------------------------
(* A user who switches between queries only, and statements that do not     *)
(* fail: what the user does.                                                *)

NoFaults == Patient /\ MaxFaults = 0

ShownAndRecorded == NoFaults /\ ChatInv /\ RecordSoFar /\ SteadyInv

LEMMA NothingFails ==
  ASSUME NoFaults, ChatInv
  PROVE  ~DbFault
  BY TypesByOwner DEF ChatInv, NoFaults, DbFault

LEMMA AnswersFollowRows ==
  AnswersFollowQuestions <=> \A s \in Sessions : Follows(chat[s])
  BY DEF AnswersFollowQuestions, Follows

LEMMA NextAnswersFollowRows ==
  AnswersFollowQuestions' <=> \A s \in Sessions : Follows(chat'[s])
  BY DEF AnswersFollowQuestions, Follows

LEMMA SendChatMessageShows ==
  ASSUME ShownAndRecorded, SendChatMessage
  PROVE  SteadyInv'
<1>1. /\ ~querying /\ view = Shown /\ live = 0 /\ SessionsExist /\ StoreTypes
      /\ AnswersFollowQuestions /\ chat' = chat /\ live' = live
  BY TypesByOwner
     DEF ShownAndRecorded, SteadyInv, ChatInv, LiveRowIsLast, SendChatMessage
<1>2. /\ querying' = TRUE /\ at' = "load" /\ before' = chat[session']
      /\ job'.session = session' /\ job'.question = questions + 1
      /\ job'.retry = FALSE /\ lastQuestion' = questions + 1
      /\ lastWasSearch' = FALSE
      /\ view' = Append(view, Asked(questions + 1))
  BY DEF SendChatMessage, StartWorker
<1>3. session' # 0 /\ chat[session'] = Shown
  <2>1. CASE session # 0 /\ session' = session
    BY <2>1 DEF Shown
  <2>2. CASE session = 0 /\ created < MaxSessions /\ session' = created + 1
    <3>1. created \in 0 .. MaxSessions /\ \A s \in sessions : s <= created
      BY <1>1 DEF StoreTypes, SessionsExist
    <3>2. session' \in Sessions /\ session' \notin sessions /\ session' # 0
      BY <2>2, <3>1, ChatAssumption DEF Sessions
    <3>3. QED BY <1>1, <2>2, <3>2 DEF SessionsExist, Shown
  <2>3. QED BY <2>1, <2>2 DEF SendChatMessage
<1>4. Asked(questions + 1) = Asked(job'.question)
  BY <1>2
<1>5. Base' = view'
  BY <1>1, <1>2, <1>3, <1>4 DEF Base, Asked
<1>6. Recorded' = before'
  BY <1>2 DEF Recorded
<1>7. Running'
  BY <1>1, <1>2, <1>3, <1>5, <1>6 DEF Running, OnScreen
<1>8. AnswersFollowQuestions' /\ LastExchangeIsOnScreen'
  BY <1>1, <1>2
     DEF AnswersFollowQuestions, LastExchangeIsOnScreen, CanRetryLastAnswer
<1>9. QED BY <1>2, <1>7, <1>8 DEF SteadyInv

LEMMA RetryLastAnswerShows ==
  ASSUME ShownAndRecorded, RetryLastAnswer
  PROVE  SteadyInv'
<1>1. /\ ~querying /\ view = Shown /\ live = 0 /\ session # 0
      /\ AnswersFollowQuestions /\ view \in Seq(Message)
      /\ EndsInAnswer(view) /\ Last(view).about = lastQuestion
      /\ lastAnswer = Last(view)
  BY TypesByOwner
     DEF ShownAndRecorded, SteadyInv, ChatInv, LiveRowIsLast, RetryLastAnswer,
         CanRetryLastAnswer, LastExchangeIsOnScreen, UiTypes
<1>2. /\ querying' = TRUE /\ at' = "load" /\ before' = chat[session]
      /\ job'.session = session /\ job'.question = lastQuestion
      /\ job'.retry = TRUE /\ chat' = chat /\ session' = session
      /\ lastQuestion' = lastQuestion /\ lastAnswer' = lastAnswer
      /\ live' = Len(view)
      /\ view' = [view EXCEPT ![Len(view)].text = "", ![Len(view)].tool = ""]
  BY <1>1 DEF RetryLastAnswer, StartWorker, storeVars, lastVars
<1>3. before' = view /\ chat[session] = view
  BY <1>1, <1>2 DEF Shown
<1> DEFINE base == SubSeq(view, 1, Len(view) - 1)
<1>4. Base' = base
  BY <1>2, <1>3 DEF Base
<1>5. /\ Len(base) = Len(view) - 1 /\ Len(view) \in Nat /\ Len(view) > 0
      /\ \A i \in 1 .. Len(base) : base[i] = view[i]
      /\ Last(view) \in Message /\ base \in Seq(Message)
  BY <1>1, NewestOff
<1> HIDE DEF base
<1>6. OnScreen'
  <2> DEFINE n == Len(view)
             m == [view[n] EXCEPT !.text = "", !.tool = ""]
  <2>1. m \in Message
    <3>1. view[n] \in Message
      BY <1>5 DEF Last
    <3> HIDE DEF n
    <3>2. QED BY <3>1, TextReplaced
  <2>2. view' = [view EXCEPT ![n] = m]
    BY <1>2
  <2> HIDE DEF m
  <2>3. /\ Len(view') = Len(view)
        /\ \A j \in 1 .. Len(view) : j # Len(view) => view'[j] = view[j]
    BY <1>1, <1>5, <2>1, <2>2, RowReplaced
  <2>4. Len(Base') = Len(base) /\ \A i \in 1 .. Len(base) : Base'[i] = base[i]
    BY <1>4
  <2>5. live' # 0 /\ Len(view') = Len(Base') + 1
    <3>1. live' # 0
      <4>1. live' = Len(view)
        BY <1>2
      <4>2. Len(view) \in Nat /\ Len(view) > 0
        BY <1>5
      <4>3. QED BY <4>1, <4>2
    <3>2. Len(view') = Len(base) + 1
      BY <1>5, <2>3
    <3>3. QED BY <2>4, <3>1, <3>2
  <2>6. \A i \in 1 .. Len(Base') : view'[i] = Base'[i]
    BY <1>5, <2>3, <2>4
  <2>7. QED BY <2>5, <2>6 DEF OnScreen
<1>7. Recorded' = before'
  BY <1>2 DEF Recorded
<1>8. EndsInAnswer(before') /\ lastAnswer' = Last(before')
      /\ Last(before').about = job'.question
  BY <1>1, <1>2, <1>3
<1>9. Running'
  BY <1>1, <1>2, <1>3, <1>6, <1>7, <1>8 DEF Running, EndsInAnswer, Last
<1>10. AnswersFollowQuestions' /\ LastExchangeIsOnScreen'
  BY <1>1, <1>2
     DEF AnswersFollowQuestions, LastExchangeIsOnScreen, CanRetryLastAnswer
<1>11. QED BY <1>2, <1>9, <1>10 DEF SteadyInv

(* The exchange adopted is the newest one of these rows.                    *)
LEMMA NewestExchangeAdopted ==
  ASSUME NEW rows \in Seq(Message), Follows(rows), AdoptLastExchange(rows)
  PROVE  lastWasSearch' =>
           /\ EndsInAnswer(rows) /\ Last(rows).about = lastQuestion'
           /\ lastAnswer' = Last(rows)
<1> DEFINE asked == {i \in DOMAIN rows : rows[i].user}
<1>1. CASE EndsInAnswer(rows) /\ asked # {}
  <2>1. /\ lastAnswer' = Last(rows)
        /\ \E i \in asked : (\A j \in asked : j <= i)
                            /\ lastQuestion' = rows[i].about
    BY <1>1 DEF AdoptLastExchange
  <2>2. PICK i \in asked : (\A j \in asked : j <= i)
                           /\ lastQuestion' = rows[i].about
    BY <2>1
  <2>3. /\ Len(rows) \in Nat /\ Len(rows) > 0 /\ DOMAIN rows = 1 .. Len(rows)
        /\ ~rows[Len(rows)].user
    BY <1>1, EmptySeq, LenProperties DEF EndsInAnswer, Last
  <2>4. /\ Len(rows) > 1 /\ rows[Len(rows) - 1].user
        /\ rows[Len(rows) - 1].about = rows[Len(rows)].about
    <3>1. Len(rows) \in DOMAIN rows
      BY <2>3
    <3>2. QED BY <2>3, <3>1 DEF Follows
  <2>5. i = Len(rows) - 1
    <3>1. Len(rows) - 1 \in asked
      BY <2>3, <2>4
    <3>2. Len(rows) - 1 <= i /\ i \in 1 .. Len(rows) /\ i # Len(rows)
      BY <2>2, <2>3, <3>1
    <3>3. QED BY <2>3, <3>2
  <2>6. QED BY <1>1, <2>1, <2>2, <2>4, <2>5 DEF Last
<1>2. CASE ~(EndsInAnswer(rows) /\ asked # {})
  BY <1>2 DEF AdoptLastExchange, ClearLastExchange
<1>3. QED BY <1>1, <1>2

LEMMA SelectChatSessionShows ==
  ASSUME ShownAndRecorded, NEW s \in Sessions, SelectChatSession(s)
  PROVE  SteadyInv'
<1>1. /\ ~querying /\ querying' = querying /\ session' = s
      /\ AdoptLastExchange(view') /\ chat' = chat
      /\ AnswersFollowQuestions /\ StoreTypes /\ s # 0
  BY TypesByOwner
     DEF SelectChatSession, Switch, storeVars, ShownAndRecorded, NoFaults,
         SteadyInv, ChatInv, Sessions
<1>2. view' = chat[s]
  BY NothingFails DEF SelectChatSession, ShownAndRecorded
<1>3. PICK rows \in Seq(Message) : rows = chat[s]
  BY <1>1 DEF StoreTypes
<1>4. Follows(rows) /\ AdoptLastExchange(rows)
  BY <1>1, <1>2, <1>3, AnswersFollowRows
<1>5. lastWasSearch' =>
        /\ EndsInAnswer(rows) /\ Last(rows).about = lastQuestion'
        /\ lastAnswer' = Last(rows)
  BY <1>4, NewestExchangeAdopted
<1>6. LastExchangeIsOnScreen'
  BY <1>2, <1>3, <1>5
     DEF LastExchangeIsOnScreen, CanRetryLastAnswer, EndsInAnswer, Last
<1>7. AnswersFollowQuestions' /\ view' = Shown'
  BY <1>1, <1>2 DEF AnswersFollowQuestions, Shown
<1>8. QED BY <1>1, <1>6, <1>7 DEF SteadyInv

LEMMA NewChatShows ==
  ASSUME ShowNewChat, querying' = FALSE, AnswersFollowQuestions'
  PROVE  SteadyInv'
<1>1. session' = 0 /\ view' = <<>>
  BY DEF ShowNewChat
<1>2. LastExchangeIsOnScreen' /\ view' = Shown'
  BY <1>1 DEF LastExchangeIsOnScreen, CanRetryLastAnswer, Shown
<1>3. QED BY <1>2 DEF SteadyInv

LEMMA SwitchShows ==
  ASSUME ShownAndRecorded,
         StartNewChat \/ \E s \in Sessions : DeleteChatSession(s)
  PROVE  SteadyInv'
<1>1. /\ ~querying /\ querying' = FALSE /\ AnswersFollowQuestions
      /\ view = Shown /\ LastExchangeIsOnScreen /\ StoreTypes
  <2>1. Switch
    BY DEF StartNewChat, DeleteChatSession
  <2>2. ~querying /\ querying' = querying /\ querying \in BOOLEAN
    BY <2>1, TypesByOwner
       DEF Switch, ShownAndRecorded, NoFaults, ChatInv, UiTypes
  <2>3. QED BY <2>2, TypesByOwner DEF ShownAndRecorded, SteadyInv, ChatInv
<1>2. CASE StartNewChat
  <2>1. ShowNewChat /\ chat' = chat
    BY <1>2 DEF StartNewChat, storeVars
  <2>2. AnswersFollowQuestions'
    BY <1>1, <2>1 DEF AnswersFollowQuestions
  <2>3. QED BY <1>1, <2>1, <2>2, NewChatShows
<1>3. ASSUME NEW s \in Sessions, DeleteChatSession(s)
      PROVE  SteadyInv'
  <2>1. /\ chat' = [chat EXCEPT ![s] = <<>>]
        /\ IF s = session THEN ShowNewChat
           ELSE UNCHANGED <<session, view, lastQuestion, lastAnswer,
                            lastWasSearch>>
    BY <1>3 DEF DeleteChatSession, lastVars
  <2>2. AnswersFollowQuestions'
    <3>1. Follows(<<>>)
      BY DEF Follows
    <3>2. \A t \in Sessions : chat'[t] \in {chat[t], <<>>}
      BY <1>1, <2>1 DEF StoreTypes
    <3>3. QED
      BY <1>1, <3>1, <3>2, AnswersFollowRows, NextAnswersFollowRows
  <2>3. CASE s = session
    BY <1>1, <2>1, <2>2, <2>3, NewChatShows
  <2>4. CASE s # session
    <3>1. /\ UNCHANGED <<session, view, lastQuestion, lastAnswer, lastWasSearch>>
          /\ session \in 0 .. MaxSessions
      BY <2>1, <2>4, TypesByOwner DEF ShownAndRecorded, ChatInv, UiTypes
    <3>2. session # 0 => chat'[session] = chat[session]
      BY <1>1, <2>1, <2>4, <3>1, ChatAssumption DEF StoreTypes, Sessions
    <3>3. view' = Shown'
      BY <1>1, <3>1, <3>2 DEF Shown
    <3>4. LastExchangeIsOnScreen'
      BY <1>1, <3>1
         DEF LastExchangeIsOnScreen, CanRetryLastAnswer, EndsInAnswer, Last
    <3>5. QED BY <1>1, <2>2, <3>3, <3>4 DEF SteadyInv
  <2>5. QED BY <2>3, <2>4
<1>4. QED BY <1>2, <1>3

-----------------------------------------------------------------------------
(* The signals received, for the same user.                                 *)

(* What a signal leaves alone.                                              *)
LEMMA ReceivedKeeps ==
  ASSUME NEW kind, Receive(kind)
  PROVE  UNCHANGED <<chat, session, at, job, reply, before, askedIn>>
  BY DEF Receive, storeVars, workerVars, ghostVars

(* The rows before the answer are messages; a first question ends them.     *)
LEMMA BaseIsRows ==
  ASSUME ChatInv, querying, Running
  PROVE  /\ Base \in Seq(Message) /\ Asked(job.question) \in Message
         /\ before \in Seq(Message) /\ view \in Seq(Message)
         /\ Len(view) \in Nat /\ Len(Base) \in Nat
<1>1. /\ before \in Seq(Message) /\ view \in Seq(Message)
      /\ job.question \in 0 .. MaxQuestions
  BY TypesByOwner DEF ChatInv, GhostTypes, UiTypes, WorkerTypes, JobTypes
<1>2. Asked(job.question) \in Message
  BY <1>1, AskedIsAMessage
<1>3. Base \in Seq(Message)
  <2>1. CASE job.retry
    <3>1. EndsInAnswer(before)
      BY <2>1 DEF Running
    <3>2. QED BY <1>1, <2>1, <3>1, NewestOff DEF Base
  <2>2. CASE ~job.retry
    BY <1>1, <1>2, <2>2, AppendProperties DEF Base
  <2>3. QED BY <2>1, <2>2
<1>4. QED BY <1>1, <1>2, <1>3, LenProperties

(* A piece or a restart changes what the live row says, and no other.       *)
LEMMA PieceShows ==
  ASSUME ShownAndRecorded, OnQueryToken \/ OnQueryStage
  PROVE  SteadyInv'
<1>1. /\ \E kind \in {"token", "restart"} : Receive(kind)
      /\ UNCHANGED <<chat, session, at, job, reply, before, lastQuestion,
                     lastAnswer, lastWasSearch, retrying, querying>>
  BY ReceivedKeeps DEF OnQueryToken, OnQueryStage, lastVars
<1>2. querying /\ ChatInv /\ Running /\ AnswersFollowQuestions
  BY <1>1, PieceReceived DEF ShownAndRecorded, SteadyInv
<1>3. Base \in Seq(Message) /\ view \in Seq(Message) /\ Len(Base) \in Nat
      /\ Len(view) \in Nat
  BY <1>2, BaseIsRows
<1>4. Base' = Base /\ Recorded' = Recorded
  BY <1>1 DEF Base, Recorded, Asked
<1>5. OnScreen'
  <2>1. CASE live = 0 /\ OnQueryStage
    BY <1>1, <1>2, <1>4, <2>1 DEF OnQueryStage, Running, OnScreen
  <2>2. CASE live = 0 /\ OnQueryToken
    <3>1. PICK m : view' = Append(view, m) /\ live' = Len(view) + 1
      BY <2>2 DEF OnQueryToken
    <3>2. view = Base
      BY <1>2, <2>2 DEF Running, OnScreen
    <3>3. Len(view') = Len(Base) + 1 /\ \A i \in 1 .. Len(Base) : view'[i] = Base[i]
      BY <1>3, <3>1, <3>2
    <3>4. live' # 0
      BY <1>3, <3>1
    <3>5. QED BY <1>4, <3>3, <3>4 DEF OnScreen
  <2>3. CASE live # 0
    <3>1. /\ Len(view) = Len(Base) + 1 /\ live = Len(view)
          /\ \A i \in 1 .. Len(Base) : view[i] = Base[i]
      BY <1>2, <2>3 DEF Running, OnScreen, ChatInv, LiveRowIsLast
    <3>2. PICK m : view' = [view EXCEPT ![live] = m] /\ live' = live
      BY <2>3 DEF OnQueryToken, OnQueryStage
    <3>3. Len(view') = Len(view)
          /\ \A i \in 1 .. Len(view) : i # live => view'[i] = view[i]
      BY <1>3, <3>2
    <3>4. \A i \in 1 .. Len(Base) : view'[i] = Base[i]
      BY <1>3, <3>1, <3>3
    <3>5. QED BY <1>4, <2>3, <3>1, <3>2, <3>3, <3>4 DEF OnScreen
  <2>4. QED BY <2>1, <2>2, <2>3
<1>6. Running'
  BY <1>1, <1>2, <1>4, <1>5 DEF Running, EndsInAnswer, Last
<1>7. AnswersFollowQuestions' /\ LastExchangeIsOnScreen'
  BY <1>1, <1>2
     DEF AnswersFollowQuestions, LastExchangeIsOnScreen, CanRetryLastAnswer
<1>8. QED BY <1>1, <1>2, <1>6, <1>7 DEF SteadyInv

(* What the report of a query finds.                                        *)
LEMMA ReportFinds ==
  ASSUME ShownAndRecorded, Receive("finished")
  PROVE  /\ Running /\ at = "none" /\ Head(signals) = Finished
         /\ ChatInv /\ querying /\ retrying = job.retry
         /\ UNCHANGED <<chat, session>>
         /\ Head(signals).ok <=> reply # Nothing
         /\ session \in Sessions /\ chat[session] \in Seq(Message)
         /\ AnswersFollowQuestions
<1>1. querying /\ at = "none" /\ Head(signals) = Finished /\ ChatInv
  BY ReportIsLast DEF ShownAndRecorded
<1>2. Running /\ retrying = job.retry /\ session \in 0 .. MaxSessions
      /\ chat \in [Sessions -> Seq(Message)] /\ AnswersFollowQuestions
  BY <1>1, TypesByOwner
     DEF ShownAndRecorded, SteadyInv, ChatInv, WorkInPlace, UiTypes, StoreTypes
<1>3. Finished.ok <=> reply # Nothing
  BY DEF Finished
<1>4. session \in Sessions
  BY <1>2, ChatAssumption DEF Running, Sessions
<1>5. QED BY <1>1, <1>2, <1>3, <1>4, ReceivedKeeps

(* The answer is shown where it is recorded.                                *)
LEMMA AnswerCompletes ==
  ASSUME ChatInv, querying, Running, NEW m \in Message, FinishLive(m)
  PROVE  view' = Append(Base, m)
<1>1. Base \in Seq(Message) /\ view \in Seq(Message)
  BY BaseIsRows
<1>2. CASE live = 0
  BY <1>2 DEF FinishLive, Running, OnScreen
<1>3. CASE live # 0
  <2>1. /\ Len(view) = Len(Base) + 1 /\ live = Len(view)
        /\ \A i \in 1 .. Len(Base) : view[i] = Base[i]
    BY <1>3 DEF Running, OnScreen, ChatInv, LiveRowIsLast
  <2>2. view' = [view EXCEPT ![Len(view)] = m]
    BY <1>3, <2>1 DEF FinishLive
  <2>3. QED BY <1>1, <2>1, <2>2, LastRow
<1>4. QED BY <1>2, <1>3

LEMMA OnQuerySucceededShows ==
  ASSUME ShownAndRecorded, OnQuerySucceeded
  PROVE  SteadyInv'
<1>1. /\ Receive("finished") /\ Head(signals).ok /\ querying' = FALSE
      /\ lastAnswer' = Head(signals).message
      /\ FinishLive(Head(signals).message) /\ lastQuestion' = lastQuestion
  BY DEF OnQuerySucceeded
<1>2. /\ Running /\ at = "none" /\ Head(signals) = Finished
      /\ ChatInv /\ querying /\ chat' = chat /\ session' = session
      /\ reply # Nothing /\ AnswersFollowQuestions
  BY <1>1, ReportFinds
<1>3. Head(signals).message = reply
  BY <1>2 DEF Finished
<1>4. reply \in Message /\ ~reply.user /\ reply.about = job.question
  BY <1>2, TypesByOwner DEF ChatInv, WorkInPlace, WorkerTypes
<1>5. view' = Append(Base, reply)
  BY <1>1, <1>2, <1>3, <1>4, AnswerCompletes
<1>6. chat[session] = Append(Base, reply) /\ session # 0
  BY <1>2 DEF Running, Recorded
<1>7. view' = Shown'
  BY <1>2, <1>5, <1>6 DEF Shown
<1>8. Last(view') = reply /\ view' # <<>>
  <2>1. Base \in Seq(Message)
    BY <1>2, BaseIsRows
  <2>2. QED BY <1>4, <1>5, <2>1, AppendProperties DEF Last
<1>9. LastExchangeIsOnScreen'
  <2>1. lastAnswer' = reply /\ reply.about = lastQuestion'
    BY <1>1, <1>2, <1>3, <1>4 DEF Running
  <2>2. EndsInAnswer(view')
    BY <1>4, <1>8 DEF EndsInAnswer
  <2>3. QED
    BY <1>8, <2>1, <2>2 DEF LastExchangeIsOnScreen, EndsInAnswer, Last
<1>10. AnswersFollowQuestions'
  BY <1>2 DEF AnswersFollowQuestions
<1>11. QED BY <1>1, <1>7, <1>9, <1>10 DEF SteadyInv

LEMMA OnRetryFailedShows ==
  ASSUME ShownAndRecorded, OnRetryFailed
  PROVE  SteadyInv'
<1>1. /\ Receive("finished") /\ ~Head(signals).ok /\ retrying
      /\ querying' = FALSE
      /\ UNCHANGED <<lastQuestion, lastAnswer, lastWasSearch>>
  BY DEF OnRetryFailed, lastVars
<1>2. /\ Running /\ at = "none" /\ ChatInv /\ querying /\ job.retry
      /\ chat' = chat /\ session' = session /\ reply = Nothing
      /\ AnswersFollowQuestions
  BY <1>1, ReportFinds
<1>3. /\ before \in Seq(Message) /\ view \in Seq(Message)
      /\ EndsInAnswer(before) /\ lastAnswer = Last(before)
      /\ Last(before).about = lastQuestion
      /\ chat[session] = before /\ session # 0
  BY <1>2, BaseIsRows DEF Running, Recorded
<1>4. /\ live # 0 /\ Len(view) = Len(Base) + 1 /\ live = Len(view)
      /\ \A i \in 1 .. Len(Base) : view[i] = Base[i]
  BY <1>2 DEF Running, OnScreen, ChatInv, LiveRowIsLast
<1>5. view' = [view EXCEPT ![Len(view)] = lastAnswer]
  BY <1>4 DEF OnRetryFailed
<1>6. Base = SubSeq(before, 1, Len(before) - 1)
  BY <1>2 DEF Base
<1>7. Base \in Seq(Message) /\ lastAnswer \in Message
  BY <1>3, <1>6, NewestOff
<1>8. view' = Append(Base, lastAnswer)
  <2>1. /\ view \in Seq(Message) /\ Len(view) = Len(Base) + 1
        /\ \A i \in 1 .. Len(Base) : view[i] = Base[i]
    BY <1>3, <1>4
  <2>2. [view EXCEPT ![Len(view)] = lastAnswer] = Append(Base, lastAnswer)
    BY <1>7, <2>1, LastRow
  <2>3. QED BY <1>5, <2>2
<1>9. view' = before
  <2>1. Append(SubSeq(before, 1, Len(before) - 1), Last(before)) = before
    BY <1>3, NewestPutBack
  <2>2. QED BY <1>3, <1>6, <1>8, <2>1
<1>10. view' = Shown'
  BY <1>2, <1>3, <1>9 DEF Shown
<1>11. LastExchangeIsOnScreen'
  BY <1>1, <1>3, <1>9 DEF LastExchangeIsOnScreen, EndsInAnswer, Last
<1>12. AnswersFollowQuestions'
  BY <1>2 DEF AnswersFollowQuestions
<1>13. QED BY <1>1, <1>10, <1>11, <1>12 DEF SteadyInv

LEMMA OnQuestionFailedShows ==
  ASSUME ShownAndRecorded, OnQuestionFailed
  PROVE  SteadyInv'
<1>1. /\ Receive("finished") /\ ~Head(signals).ok /\ ~retrying
      /\ querying' = FALSE
      /\ UNCHANGED <<lastQuestion, lastAnswer, lastWasSearch>>
  BY DEF OnQuestionFailed, lastVars
<1>2. /\ Running /\ at = "none" /\ ChatInv /\ querying /\ ~job.retry
      /\ chat' = chat /\ session' = session /\ reply = Nothing
      /\ AnswersFollowQuestions
  BY <1>1, ReportFinds
<1>3. chat[session] = Base /\ session # 0 /\ ~lastWasSearch
  BY <1>2 DEF Running, Recorded
<1>4. view' = Base
  <2>1. CASE live = 0
    BY <1>2, <2>1 DEF OnQuestionFailed, Running, OnScreen
  <2>2. CASE live # 0
    <3>1. /\ Len(view) = Len(Base) + 1 /\ live = Len(view)
          /\ \A i \in 1 .. Len(Base) : view[i] = Base[i]
      BY <1>2, <2>2 DEF Running, OnScreen, ChatInv, LiveRowIsLast
    <3>2. view' = SubSeq(view, 1, Len(view) - 1)
                    \o SubSeq(view, Len(view) + 1, Len(view))
      BY <2>2, <3>1 DEF OnQuestionFailed
    <3>3. Base \in Seq(Message) /\ view \in Seq(Message)
      BY <1>2, BaseIsRows
    <3>4. QED BY <3>1, <3>2, <3>3, LastRow, NothingIsAMessage
  <2>3. QED BY <2>1, <2>2
<1>5. view' = Shown'
  BY <1>2, <1>3, <1>4 DEF Shown
<1>6. LastExchangeIsOnScreen'
  BY <1>1, <1>3 DEF LastExchangeIsOnScreen, CanRetryLastAnswer
<1>7. AnswersFollowQuestions'
  BY <1>2 DEF AnswersFollowQuestions
<1>8. QED BY <1>1, <1>5, <1>6, <1>7 DEF SteadyInv

-----------------------------------------------------------------------------
(* The worker, for the same user.                                           *)

(* A step of the worker leaves the screen alone.                            *)
LEMMA WorkerShows ==
  ASSUME ShownAndRecorded, InWorker, querying, job' = job,
         AnswersFollowQuestions', chat'[session] = Recorded'
  PROVE  SteadyInv'
<1>1. UNCHANGED <<session, view, live, lastQuestion, lastAnswer,
                  lastWasSearch, retrying, querying, before>>
  BY WorkerKeepsTheRest DEF ShownAndRecorded
<1>2. Running
  BY DEF ShownAndRecorded, SteadyInv
<1>3. Base' = Base
  BY <1>1 DEF Base, Asked
<1>4. Running'
  BY <1>1, <1>2, <1>3 DEF Running, OnScreen, EndsInAnswer, Last
<1>5. LastExchangeIsOnScreen'
  BY <1>1 DEF LastExchangeIsOnScreen, CanRetryLastAnswer
<1>6. QED BY <1>1, <1>4, <1>5 DEF SteadyInv

(* A step that records nothing, and where nothing was to be recorded.       *)
LEMMA NothingNewShows ==
  ASSUME ShownAndRecorded, InWorker, querying, job' = job, chat' = chat,
         Recorded' = Recorded
  PROVE  SteadyInv'
<1>1. AnswersFollowQuestions' /\ session' = session
  BY WorkerKeepsTheRest
     DEF ShownAndRecorded, SteadyInv, AnswersFollowQuestions
<1>2. chat'[session] = Recorded'
  BY DEF ShownAndRecorded, SteadyInv, Running
<1>3. QED BY <1>1, <1>2, WorkerShows

(* The worker's steps belong to a running query.                            *)
LEMMA WorkerRuns ==
  ASSUME ShownAndRecorded, at # "none"
  PROVE  /\ querying /\ ChatInv /\ Running /\ RecordSoFar
         /\ AnswersFollowQuestions
         /\ session \in Sessions /\ session \in sessions
         /\ chat \in [Sessions -> Seq(Message)]
         /\ job.session = session /\ chat[session] = Recorded
<1>1. querying /\ ChatInv /\ RecordSoFar
  BY DEF ShownAndRecorded, ChatInv, SignalsInOrder
<1>2. Running /\ AnswersFollowQuestions
  BY <1>1 DEF ShownAndRecorded, SteadyInv
<1>3. session # 0 /\ job.session = session /\ chat[session] = Recorded
  BY <1>2 DEF Running
<1>4. session \in Sessions /\ session \in sessions
      /\ chat \in [Sessions -> Seq(Message)]
  BY <1>1, <1>3, TypesByOwner, ChatAssumption
     DEF ChatInv, SessionsExist, UiTypes, StoreTypes, Sessions
<1>5. QED BY <1>1, <1>2, <1>3, <1>4

LEMMA LoadHistoryShows ==
  ASSUME ShownAndRecorded, LoadHistory
  PROVE  SteadyInv'
<1>1. /\ at = "load" /\ InWorker /\ job' = job /\ chat' = chat
      /\ at' = IF job.retry THEN "retrieve" ELSE "persist"
  BY NothingFails DEF LoadHistory, ShownAndRecorded
<1>2. querying /\ before' = before
  BY <1>1, WorkerRuns, WorkerKeepsTheRest
<1>3. Recorded' = Recorded
  BY <1>1, <1>2 DEF Recorded, Base, Asked
<1>4. QED BY <1>1, <1>2, <1>3, NothingNewShows

(* The rows of one session are replaced by rows where answers follow.       *)
LEMMA FollowingKept ==
  ASSUME AnswersFollowQuestions, chat \in [Sessions -> Seq(Message)],
         NEW s \in Sessions, NEW rows, Follows(rows),
         chat' = [chat EXCEPT ![s] = rows]
  PROVE  AnswersFollowQuestions' /\ chat'[s] = rows
<1>1. \A t \in Sessions : chat'[t] \in {chat[t], rows}
  OBVIOUS
<1>2. QED BY <1>1, AnswersFollowRows, NextAnswersFollowRows

LEMMA PersistQuestionShows ==
  ASSUME ShownAndRecorded, PersistQuestion
  PROVE  SteadyInv'
<1>1. /\ at = "persist" /\ InWorker /\ at' = "route"
      /\ job' = job /\ reply' = reply /\ AppendMessage(Asked(job.question))
  BY DEF PersistQuestion
<1>2. /\ querying /\ ChatInv /\ Running /\ RecordSoFar
      /\ AnswersFollowQuestions
      /\ session \in Sessions /\ session \in sessions
      /\ chat \in [Sessions -> Seq(Message)]
      /\ job.session = session /\ chat[session] = Recorded
  BY <1>1, WorkerRuns
<1>3. ~job.retry /\ chat[session] = before
  BY <1>1, <1>2 DEF RecordSoFar
<1>4. before' = before
  BY <1>1, <1>2, WorkerKeepsTheRest
<1> DEFINE rows == Append(chat[session], Asked(job.question))
<1>5. chat' = [chat EXCEPT ![session] = rows]
  BY <1>1, <1>2, NothingFails DEF AppendMessage, ShownAndRecorded
<1>6. Follows(rows)
  <2>1. Follows(chat[session]) /\ chat[session] \in Seq(Message)
    BY <1>2, AnswersFollowRows
  <2>2. Asked(job.question) \in Message /\ Asked(job.question).user
    BY <1>2, BaseIsRows DEF Asked
  <2>3. QED BY <2>1, <2>2, QuestionFollows
<1>7. rows = Base
  BY <1>3 DEF Base
<1> HIDE DEF rows
<1>8. AnswersFollowQuestions' /\ chat'[session] = rows
  BY <1>2, <1>5, <1>6, FollowingKept
<1>9. Recorded' = Base
  BY <1>1, <1>3, <1>4 DEF Recorded, Base, Asked
<1>10. QED BY <1>1, <1>2, <1>7, <1>8, <1>9, WorkerShows

LEMMA PipelineShows ==
  ASSUME ShownAndRecorded, PipelineStep
  PROVE  SteadyInv'
<1>1. /\ at \in {"route", "summarize", "retrieve", "generate", "fallback"}
      /\ InWorker /\ job' = job /\ chat' = chat
      /\ \/ at' \in {"summarize", "retrieve", "generate", "fallback", "record"}
         \/ at' = "report" /\ reply' = Nothing
  BY DEF PipelineStep
<1>2. querying /\ before' = before
  BY <1>1, WorkerRuns, WorkerKeepsTheRest
<1>3. Base' = Base
  BY <1>1, <1>2 DEF Base, Asked
<1>4. Recorded = (IF job.retry THEN before ELSE Base)
  BY <1>1 DEF Recorded
<1>5. Recorded' = (IF job.retry THEN before ELSE Base)
  BY <1>1, <1>2, <1>3 DEF Recorded, Nothing
<1>6. QED BY <1>1, <1>2, <1>4, <1>5, NothingNewShows

(* The rows before the answer end in the question it answers.               *)
LEMMA BaseEndsInTheQuestion ==
  ASSUME ShownAndRecorded, at = "record"
  PROVE  /\ Base \in Seq(Message) /\ Follows(Base) /\ Base # <<>>
         /\ Last(Base).user /\ Last(Base).about = job.question
<1>1. /\ querying /\ ChatInv /\ Running /\ AnswersFollowQuestions
      /\ session \in Sessions /\ chat[session] = Recorded
  BY WorkerRuns
<1>2. /\ Base \in Seq(Message) /\ Asked(job.question) \in Message
      /\ before \in Seq(Message)
  BY <1>1, BaseIsRows
<1>3. Follows(chat[session])
  BY <1>1, AnswersFollowRows
<1>4. CASE job.retry
  <2>1. /\ chat[session] = before /\ EndsInAnswer(before)
        /\ Last(before).about = job.question
        /\ Base = SubSeq(before, 1, Len(before) - 1)
    BY <1>1, <1>4 DEF Recorded, Running, Base
  <2>2. QED BY <1>2, <1>3, <2>1, NewestOff
<1>5. CASE ~job.retry
  <2>1. chat[session] = Base /\ Base = Append(before, Asked(job.question))
    BY <1>1, <1>5 DEF Recorded, Base
  <2>2. Base # <<>> /\ Last(Base) = Asked(job.question)
    BY <1>2, <2>1, AppendProperties DEF Last
  <2>3. Asked(job.question).user /\ Asked(job.question).about = job.question
    BY DEF Asked
  <2>4. QED BY <1>2, <1>3, <2>1, <2>2, <2>3
<1>6. QED BY <1>4, <1>5

LEMMA RecordAnswerShows ==
  ASSUME ShownAndRecorded, RecordAnswer
  PROVE  SteadyInv'
<1>1. at = "record" /\ at' = "report" /\ InWorker /\ job' = job
  BY DEF RecordAnswer
<1>2. /\ querying /\ ChatInv /\ Running /\ AnswersFollowQuestions
      /\ session \in Sessions /\ session \in sessions
      /\ chat \in [Sessions -> Seq(Message)]
      /\ job.session = session /\ chat[session] = Recorded
  BY <1>1, WorkerRuns
<1>3. /\ before' = before /\ reply # Nothing /\ reply \in Message
      /\ ~reply.user /\ reply.about = job.question
  BY <1>1, <1>2, WorkerKeepsTheRest, TypesByOwner
     DEF ChatInv, WorkInPlace, WorkerTypes
<1>4. /\ Base \in Seq(Message) /\ Follows(Base) /\ Base # <<>>
      /\ Last(Base).user /\ Last(Base).about = job.question
  BY <1>1, BaseEndsInTheQuestion
<1> DEFINE rows == Append(Base, reply)
<1>5. Follows(rows)
  BY <1>3, <1>4, QuestionFollows
<1>6. chat' = [chat EXCEPT ![session] = rows] /\ reply' = reply
  <2>1. CASE job.retry
    <3>1. /\ chat[session] = before /\ EndsInAnswer(before)
          /\ Base = SubSeq(before, 1, Len(before) - 1)
      BY <1>1, <1>2, <2>1 DEF Recorded, Running, Base
    <3>2. UpdateLastAssistant
      BY <2>1, NothingFails DEF RecordAnswer, ShownAndRecorded
    <3>3. /\ chat' = [chat EXCEPT ![session] = Base \o <<reply>>]
          /\ reply' = reply
      BY <1>2, <3>1, <3>2 DEF UpdateLastAssistant
    <3>4. Base \o <<reply>> = rows
      BY <1>3, <1>4, AppendIsConcat
    <3>5. QED BY <3>3, <3>4
  <2>2. CASE ~job.retry
    <3>1. chat[session] = Base
      BY <1>1, <1>2, <2>2 DEF Recorded
    <3>2. AppendMessage(reply) /\ reply' = reply
      BY <2>2 DEF RecordAnswer
    <3>3. chat' = [chat EXCEPT ![session] = Append(@, reply)]
      BY <1>2, <3>2, NothingFails DEF AppendMessage, ShownAndRecorded
    <3>4. QED BY <3>1, <3>2, <3>3
  <2>3. QED BY <2>1, <2>2
<1> HIDE DEF rows
<1>7. AnswersFollowQuestions' /\ chat'[session] = rows
  BY <1>2, <1>5, <1>6, FollowingKept
<1>8. Base' = Base
  BY <1>1, <1>3 DEF Base, Asked
<1>9. Recorded' = rows
  BY <1>1, <1>3, <1>6, <1>8 DEF Recorded, Nothing, rows
<1>10. QED BY <1>1, <1>2, <1>7, <1>9, WorkerShows

LEMMA ReportShows ==
  ASSUME ShownAndRecorded, Report
  PROVE  SteadyInv'
<1>1. /\ at = "report" /\ at' = "none" /\ InWorker
      /\ UNCHANGED <<job, chat, reply>>
  BY DEF Report
<1>2. querying /\ before' = before
  BY <1>1, WorkerRuns, WorkerKeepsTheRest
<1>3. Base' = Base
  BY <1>1, <1>2 DEF Base, Asked
<1>4. Recorded' = Recorded
  BY <1>1, <1>2, <1>3 DEF Recorded, Nothing
<1>5. QED BY <1>1, <1>2, <1>4, NothingNewShows

LEMMA StutterShows ==
  ASSUME SteadyInv, UNCHANGED chatVars
  PROVE  SteadyInv'
<1> USE DEF chatVars, storeVars, uiVars, lastVars, workerVars, ghostVars
<1>1. AnswersFollowQuestions' /\ LastExchangeIsOnScreen'
  BY DEF SteadyInv, AnswersFollowQuestions, LastExchangeIsOnScreen,
         CanRetryLastAnswer, EndsInAnswer, Last
<1>2. Base' = Base /\ Recorded' = Recorded /\ Shown' = Shown
  BY DEF Base, Recorded, Asked, Nothing, Shown
<1>3. querying => Running'
  BY <1>2 DEF SteadyInv, Running, OnScreen, EndsInAnswer, Last
<1>4. QED BY <1>1, <1>2, <1>3 DEF SteadyInv

LEMMA SteadyInvKept ==
  ASSUME ShownAndRecorded, [ChatNext]_chatVars
  PROVE  SteadyInv'
<1>1. CASE SendChatMessage \/ RetryLastAnswer
  BY <1>1, SendChatMessageShows, RetryLastAnswerShows
<1>2. CASE StartNewChat
           \/ \E s \in Sessions : SelectChatSession(s) \/ DeleteChatSession(s)
  BY <1>2, SelectChatSessionShows, SwitchShows
<1>3. CASE UiReceives
  BY <1>3, PieceShows, OnQuerySucceededShows, OnRetryFailedShows,
     OnQuestionFailedShows DEF UiReceives
<1>4. CASE WorkerThread
  <2>1. CASE LoadHistory \/ PersistQuestion \/ RecordAnswer \/ Report
    BY <2>1, LoadHistoryShows, PersistQuestionShows, RecordAnswerShows,
       ReportShows
  <2>2. CASE Route \/ Summarize \/ Retrieve \/ StreamToken \/ GenerationEnds
               \/ Fallback
    <3>1. PipelineStep
      BY <2>2, PipelineSteps DEF ShownAndRecorded, ChatInv
    <3>2. QED BY <3>1, PipelineShows
  <2>3. QED BY <1>4, <2>1, <2>2 DEF WorkerThread
<1>5. CASE Idle \/ UNCHANGED chatVars
  BY <1>5, StutterShows DEF Idle, ShownAndRecorded
<1>6. QED BY <1>1, <1>2, <1>3, <1>4, <1>5 DEF ChatNext

(***************************************************************************)
(* SteadyInv holds of a user who opens, begins and deletes sessions only   *)
(* while no query runs, as long as no statement fails.                     *)
(***************************************************************************)
THEOREM SteadyIsInvariant ==
  ASSUME NoFaults
  PROVE  ChatSpec => []SteadyInv
<1>1. ChatInit => SteadyInv
  <2> SUFFICES ASSUME ChatInit PROVE SteadyInv
    OBVIOUS
  <2>1. AnswersFollowQuestions
    <3>1. DOMAIN <<>> = {}
      OBVIOUS
    <3>2. QED BY <3>1 DEF ChatInit, AnswersFollowQuestions
  <2>2. LastExchangeIsOnScreen /\ view = Shown /\ ~querying
    BY DEF ChatInit, LastExchangeIsOnScreen, CanRetryLastAnswer, Shown
  <2>3. QED BY <2>1, <2>2 DEF SteadyInv
<1>2. ChatInv /\ RecordSoFar /\ SteadyInv /\ [ChatNext]_chatVars => SteadyInv'
  BY SteadyInvKept DEF ShownAndRecorded
<1>3. ChatSpec => []RecordSoFar
  BY RecordIsInvariant DEF NoFaults
<1>4. QED BY <1>1, <1>2, <1>3, ChatIsInvariant, PTL DEF ChatSpec

(***************************************************************************)
(* Between queries the screen and the stored session agree: after answers, *)
(* refusals, retries and queries that failed in the model alike.           *)
(***************************************************************************)
THEOREM TheViewMatchesTheStore ==
  ASSUME NoFaults
  PROVE  ChatSpec => []ViewMatchesStore
<1>1. SteadyInv => ViewMatchesStore
  BY DEF SteadyInv, ViewMatchesStore, Shown
<1>2. QED BY <1>1, SteadyIsInvariant, PTL

(* In the stored sessions every answer follows the question it answers.     *)
THEOREM EveryAnswerFollowsItsQuestion ==
  ASSUME NoFaults
  PROVE  ChatSpec => []AnswersFollowQuestions
<1>1. SteadyInv => AnswersFollowQuestions
  BY DEF SteadyInv
<1>2. QED BY <1>1, SteadyIsInvariant, PTL

(***************************************************************************)
(* What "Try harder" would ask again is the question of the answer on      *)
(* screen, and what it would put back is that answer.                      *)
(***************************************************************************)
THEOREM TheLastExchangeIsOnScreen ==
  ASSUME NoFaults
  PROVE  ChatSpec => []LastExchangeIsOnScreen
<1>1. SteadyInv => LastExchangeIsOnScreen
  BY DEF SteadyInv
<1>2. QED BY <1>1, SteadyIsInvariant, PTL
=============================================================================
