----------------------------- MODULE ChatSession -----------------------------
(***************************************************************************)
(* A question from the chat panel to the recorded answer:                  *)
(*  - the UI thread (AppController and ChatMessageListModel): sends a      *)
(*    question, retries the newest answer, opens, starts and deletes chat  *)
(*    sessions, and receives the worker's signals;                         *)
(*  - the QueryWorker thread: reads the history, records the question,     *)
(*    routes it, runs a pipeline, records the answer, and reports;         *)
(*  - the queue of signals from the worker to the UI thread, in order;     *)
(*  - the chat tables of one document group.                               *)
(*                                                                         *)
(* Questions are numbered.  A message is the question it is about, the     *)
(* kind of its text and the query that wrote it.  The language model is a  *)
(* choice: it refuses, answers, or fails.                                  *)
(***************************************************************************)
EXTENDS Naturals, Sequences

CONSTANTS
  MaxSessions,   (* bound: chat sessions created                            *)
  MaxQuestions,  (* bound: questions the user sends                         *)
  MaxRetries,    (* bound: uses of "Try harder"                             *)
  MaxSwitches,   (* bound: sessions opened, begun or deleted by the user    *)
  MaxFaults,     (* bound: database statements that fail                    *)
  Patient        (* the user opens, begins and deletes sessions only while  *)
                 (* no query runs; the program does not ask for it          *)

ASSUME ChatAssumption ==
  /\ MaxSessions \in Nat /\ MaxQuestions \in Nat /\ MaxRetries \in Nat
  /\ MaxSwitches \in Nat /\ MaxFaults \in Nat
  /\ Patient \in BOOLEAN

Sessions  == 1 .. MaxSessions
Questions == 1 .. MaxQuestions

VARIABLES
  chat,          (* public.chat_messages: the messages of each session      *)
  sessions,      (* public.chat_sessions                                    *)
  created,       (* sessions created so far (their ids)                     *)
  session,       (* m_activeChatSessionId, 0 for none                       *)
  view,          (* ChatMessageListModel::m_messages                        *)
  live,          (* m_liveIndex, 0 for none                                 *)
  lastQuestion,  (* m_lastQuestion, 0 for none                              *)
  lastAnswer,    (* m_lastAnswer and its provenance                         *)
  lastWasSearch, (* m_lastAnswerWasSearch                                   *)
  retrying,      (* m_retryingLiveAnswer                                    *)
  querying,      (* m_activeQueryWorker # nullptr                           *)
  signals,       (* signals of the worker the UI thread has not received    *)
  at,            (* where QueryWorker::run is                               *)
  leg,           (* what the model is generating, or generated last         *)
  streamed,      (* whether this generation has emitted its token           *)
  job,           (* the worker's session, question, kind and number         *)
  reply,         (* the answer it is about to record or report              *)
  usedDocuments, (* previousAnswerUsedDocuments                             *)
  queries,       (* queries started                                         *)
  questions,     (* questions sent                                          *)
  switches,      (* sessions opened, begun or deleted                       *)
  faults,        (* statements that failed                                  *)
  askedIn,       (* history: the session a question was asked in            *)
  before,        (* history: that session when the query was started        *)
  lost           (* history: the query did not find its session's history   *)

storeVars  == <<chat, sessions, created>>
lastVars   == <<lastQuestion, lastAnswer, lastWasSearch>>
uiVars     == <<session, view, live, lastVars, retrying, querying>>
workerVars == <<at, leg, streamed, job, reply, usedDocuments>>
ghostVars  == <<queries, questions, switches, askedIn, before>>
chatVars   == <<storeVars, uiVars, signals, workerVars, ghostVars, faults, lost>>

Tools == {"search", "read", "summary", "chat"}

Message ==
  [user : BOOLEAN, about : 0 .. MaxQuestions,
   text : {"", "question", "partial", "answer", "refusal", "notice"},
   query : 0 .. MaxQuestions + MaxRetries, tool : Tools \union {""}]

Asked(q) ==
  [user |-> TRUE, about |-> q, text |-> "question", query |-> 0, tool |-> ""]

Answered(text, tool) ==
  [user |-> FALSE, about |-> job.question, text |-> text,
   query |-> job.query, tool |-> tool]

Nothing ==
  [user |-> FALSE, about |-> 0, text |-> "", query |-> 0, tool |-> ""]

NoJob == [session |-> 0, question |-> 0, retry |-> FALSE, query |-> 0]

Last(s) == s[Len(s)]

EndsInAnswer(s) == s # <<>> /\ ~Last(s).user

ChatInit ==
  /\ chat = [s \in Sessions |-> <<>>]
  /\ sessions = {} /\ created = 0
  /\ session = 0 /\ view = <<>> /\ live = 0
  /\ lastQuestion = 0 /\ lastAnswer = Nothing /\ lastWasSearch = FALSE
  /\ retrying = FALSE /\ querying = FALSE
  /\ signals = <<>>
  /\ at = "none" /\ leg = "none" /\ streamed = FALSE
  /\ job = NoJob /\ reply = Nothing /\ usedDocuments = FALSE
  /\ queries = 0 /\ questions = 0 /\ switches = 0 /\ faults = 0
  /\ askedIn = [q \in Questions |-> 0]
  /\ before = <<>>
  /\ lost = FALSE

DbFault == faults < MaxFaults /\ faults' = faults + 1

-----------------------------------------------------------------------------
(* The UI thread: what the user does.                                      *)

(* A QueryWorker is created for this session and question and started.      *)
StartWorker(s, q, retry) ==
  /\ querying' = TRUE
  /\ queries' = queries + 1
  /\ job' = [session |-> s, question |-> q, retry |-> retry,
             query |-> queries + 1]
  /\ at' = "load"
  /\ leg' = "none"
  /\ streamed' = FALSE
  /\ reply' = Nothing
  /\ usedDocuments' = FALSE
  /\ lost' = FALSE
  /\ before' = chat[s]

(* The first message of a new chat creates its session.                     *)
SendChatMessage ==
  /\ ~querying
  /\ questions < MaxQuestions
  /\ questions' = questions + 1
  /\ \/ session # 0 /\ UNCHANGED <<session, sessions, created>>
     \/ /\ session = 0 /\ created < MaxSessions
        /\ created' = created + 1
        /\ session' = created + 1
        /\ sessions' = sessions \union {created + 1}
  /\ view' = Append(view, Asked(questions + 1))
  /\ lastQuestion' = questions + 1
  /\ lastWasSearch' = FALSE
  /\ retrying' = FALSE
  /\ StartWorker(session', questions + 1, FALSE)
  /\ askedIn' = [askedIn EXCEPT ![questions + 1] = session']
  /\ UNCHANGED <<chat, live, lastAnswer, signals, switches, faults>>

CanRetryLastAnswer ==
  ~querying /\ lastQuestion # 0 /\ lastWasSearch /\ session # 0

(* The newest answer becomes the live row, blank, and is asked for again.   *)
RetryLastAnswer ==
  /\ CanRetryLastAnswer
  /\ queries < questions + MaxRetries
  /\ live # 0 \/ EndsInAnswer(view)
  /\ IF live # 0 THEN UNCHANGED <<view, live>>
     ELSE /\ live' = Len(view)
          /\ view' = [view EXCEPT ![Len(view)].text = "",
                                  ![Len(view)].tool = ""]
  /\ retrying' = TRUE
  /\ StartWorker(session, lastQuestion, TRUE)
  /\ UNCHANGED <<storeVars, session, lastVars, signals, questions, switches,
                 askedIn, faults>>

Switch ==
  /\ switches < MaxSwitches
  /\ Patient => ~querying
  /\ switches' = switches + 1
  /\ UNCHANGED <<retrying, querying, signals, workerVars, queries, questions,
                 askedIn, before, lost>>

(* Mutant: the exchange of the session before stays.                        *)
KeepLastExchange == UNCHANGED lastVars

ClearLastExchange ==
  /\ lastQuestion' = 0
  /\ lastAnswer' = Nothing
  /\ lastWasSearch' = FALSE

(* The newest exchange of a session that has just been opened.              *)
AdoptLastExchange(rows) ==
  LET asked == {i \in DOMAIN rows : rows[i].user}
  IN  IF EndsInAnswer(rows) /\ asked # {}
      THEN /\ \E i \in asked : /\ \A j \in asked : j <= i
                               /\ lastQuestion' = rows[i].about
           /\ lastAnswer' = Last(rows)
           /\ lastWasSearch' = (Last(rows).tool = "search")
      ELSE ClearLastExchange

(* Possible while a query runs; rows that cannot be read show as none.      *)
SelectChatSession(s) ==
  /\ Switch
  /\ s \in sessions
  /\ session' = s
  /\ live' = 0
  /\ \/ view' = chat[s] /\ UNCHANGED faults
     \/ view' = <<>> /\ DbFault
  /\ AdoptLastExchange(view')
  /\ UNCHANGED storeVars

(* Mutant: the live row is not forgotten.                                   *)
ShowNewChatStillLive ==
  /\ session' = 0
  /\ view' = <<>>
  /\ ClearLastExchange
  /\ UNCHANGED live

ShowNewChat ==
  /\ session' = 0
  /\ view' = <<>>
  /\ live' = 0
  /\ ClearLastExchange

StartNewChat ==
  /\ Switch
  /\ ShowNewChat
  /\ UNCHANGED <<storeVars, faults>>

(* The messages of a session go with it (ON DELETE CASCADE).                *)
DeleteChatSession(s) ==
  /\ Switch
  /\ s \in sessions
  /\ sessions' = sessions \ {s}
  /\ chat' = [chat EXCEPT ![s] = <<>>]
  /\ IF s = session THEN ShowNewChat
     ELSE UNCHANGED <<session, view, live, lastVars>>
  /\ UNCHANGED <<created, faults>>

-----------------------------------------------------------------------------
(* The UI thread: the signals of the worker, in the order of emission.     *)

Receive(kind) ==
  /\ signals # <<>>
  /\ Head(signals).kind = kind
  /\ signals' = Tail(signals)
  /\ UNCHANGED <<storeVars, session, workerVars, ghostVars, faults, lost>>

(* The first token begins a live row; every token is appended to it.        *)
OnQueryToken ==
  /\ Receive("token")
  /\ LET partial == [Nothing EXCEPT !.about = Head(signals).message.about,
                                    !.text = "partial"]
     IN  IF live = 0
         THEN /\ view' = Append(view, partial)
              /\ live' = Len(view) + 1
         ELSE /\ view' = [view EXCEPT ![live].text = "partial"]
              /\ UNCHANGED live
  /\ UNCHANGED <<lastVars, retrying, querying>>

(* The stages that announce a new text clear the live row.                  *)
OnQueryStage ==
  /\ Receive("restart")
  /\ view' = IF live = 0 THEN view ELSE [view EXCEPT ![live].text = ""]
  /\ UNCHANGED <<live, lastVars, retrying, querying>>

(* Mutant: the row stays live.                                              *)
FinishLiveForgotten(answer) ==
  /\ view' = IF live = 0 THEN Append(view, answer)
             ELSE [view EXCEPT ![live] = answer]
  /\ UNCHANGED live

(* finishLive: the answer takes the live row, or a new one.                 *)
FinishLive(answer) ==
  /\ view' = IF live = 0 THEN Append(view, answer)
             ELSE [view EXCEPT ![live] = answer]
  /\ live' = 0

OnQuerySucceeded ==
  /\ Receive("finished")
  /\ Head(signals).ok
  /\ querying' = FALSE
  /\ retrying' = FALSE
  /\ lastAnswer' = Head(signals).message
  /\ lastWasSearch' = (Head(signals).message.tool = "search")
  /\ FinishLive(Head(signals).message)
  /\ UNCHANGED lastQuestion

(* A failed retry puts the old answer back into the live row.               *)
OnRetryFailed ==
  /\ Receive("finished")
  /\ ~Head(signals).ok
  /\ retrying
  /\ querying' = FALSE
  /\ retrying' = FALSE
  /\ view' = IF live = 0 THEN view ELSE [view EXCEPT ![live] = lastAnswer]
  /\ live' = 0
  /\ UNCHANGED lastVars

(* A failed question leaves no live row.                                    *)
OnQuestionFailed ==
  /\ Receive("finished")
  /\ ~Head(signals).ok
  /\ ~retrying
  /\ querying' = FALSE
  /\ view' = IF live = 0 THEN view ELSE SubSeq(view, 1, live - 1)
                                        \o SubSeq(view, live + 1, Len(view))
  /\ live' = 0
  /\ UNCHANGED <<lastVars, retrying>>

UiReceives ==
  OnQueryToken \/ OnQueryStage \/ OnQuerySucceeded \/ OnRetryFailed
    \/ OnQuestionFailed

-----------------------------------------------------------------------------
(* The worker thread.                                                      *)

InWorker == UNCHANGED <<sessions, created, uiVars, ghostVars>>

Emit(kind) ==
  signals' = Append(signals, [kind |-> kind, ok |-> FALSE,
                              message |-> Answered("partial", "")])

(* The pipeline has an answer to record, or the query has failed.           *)
Succeed(text, tool) ==
  /\ at' = "record"
  /\ reply' = Answered(text, tool)

Fail ==
  /\ at' = "report"
  /\ reply' = Nothing

(***************************************************************************)
(* The column is JSONB: what was written as {"tool":"search"} is read back *)
(* as {"tool": "search"}, and the worker looks for the former.             *)
(***************************************************************************)
Rendered(tool) == <<"tool", ": ", tool>>

LooksRetrieved(row) ==
  \E tool \in {"search", "summary", "read"} :
    Rendered(row.tool) = <<"tool", ":", tool>>

PreviousAnswer(rows) ==
  LET answers == {i \in DOMAIN rows : ~rows[i].user}
  IN  IF answers = {} THEN Nothing
      ELSE rows[CHOOSE i \in answers : \A j \in answers : j <= i]

(* Mutant: a retry records its question, too.                               *)
LoadHistoryThenPersist ==
  /\ at = "load"
  /\ at' = "persist"
  /\ usedDocuments' = LooksRetrieved(PreviousAnswer(chat[job.session]))
  /\ UNCHANGED <<chat, signals, leg, streamed, job, reply, faults, lost>>
  /\ InWorker

(* Open the store, select the group, read the history.  Without a history   *)
(* the query goes on; without a store it fails.                             *)
LoadHistory ==
  /\ at = "load"
  /\ \/ /\ at' = IF job.retry THEN "retrieve" ELSE "persist"
        /\ usedDocuments' = LooksRetrieved(PreviousAnswer(chat[job.session]))
        /\ UNCHANGED <<reply, faults, lost>>
     \/ /\ at' = IF job.retry THEN "retrieve" ELSE "persist"
        /\ usedDocuments' = FALSE
        /\ lost' = TRUE
        /\ DbFault
        /\ UNCHANGED reply
     \/ Fail /\ DbFault /\ UNCHANGED <<usedDocuments, lost>>
  /\ UNCHANGED <<chat, signals, leg, streamed, job>>
  /\ InWorker

(* Mutant: the message goes to the session on screen.                       *)
AppendToOpenSession(m) ==
  \/ /\ chat' = IF session \in sessions
                THEN [chat EXCEPT ![session] = Append(@, m)]
                ELSE chat
     /\ UNCHANGED faults
  \/ UNCHANGED chat /\ DbFault

(* INSERT of a message; nothing becomes of it when the session is gone or   *)
(* the statement fails, and the worker does not look.                       *)
AppendMessage(m) ==
  \/ /\ chat' = IF job.session \in sessions
                THEN [chat EXCEPT ![job.session] = Append(@, m)]
                ELSE chat
     /\ UNCHANGED faults
  \/ UNCHANGED chat /\ DbFault

(* Mutant: the question is not recorded.                                    *)
PersistNothing ==
  /\ at = "persist"
  /\ at' = "route"
  /\ UNCHANGED <<chat, faults, signals, leg, streamed, job, reply,
                 usedDocuments, lost>>
  /\ InWorker

PersistQuestion ==
  /\ at = "persist"
  /\ AppendMessage(Asked(job.question))
  /\ at' = "route"
  /\ UNCHANGED <<signals, leg, streamed, job, reply, usedDocuments, lost>>
  /\ InWorker

Generate(what) ==
  /\ at' = "generate"
  /\ leg' = what
  /\ streamed' = FALSE
  /\ UNCHANGED reply

(* Mutant: no report when the model does not respond to the router.         *)
RouteSilently ==
  /\ at = "route"
  /\ \/ at' = "none" /\ UNCHANGED <<leg, streamed, reply, signals>>
     \/ Generate("chat") /\ UNCHANGED signals
  /\ UNCHANGED <<chat, job, usedDocuments, faults, lost>>
  /\ InWorker

(* The router picks a pipeline, or the model does not respond.              *)
Route ==
  /\ at = "route"
  /\ \/ Fail /\ UNCHANGED <<leg, streamed, signals>>
     \/ Generate("chat") /\ UNCHANGED signals
     \/ at' = "summarize" /\ UNCHANGED <<leg, streamed, reply, signals>>
     \/ at' = "retrieve" /\ UNCHANGED <<leg, streamed, reply, signals>>
  /\ UNCHANGED <<chat, job, usedDocuments, faults, lost>>
  /\ InWorker

(* runSummaryPipeline: a group without a summary yields a notice.           *)
Summarize ==
  /\ at = "summarize"
  /\ Emit("restart")
  /\ \/ Generate("summary")
     \/ Succeed("notice", "summary") /\ UNCHANGED <<leg, streamed>>
  /\ UNCHANGED <<chat, job, usedDocuments, faults, lost>>
  /\ InWorker

(* runSearchPipeline up to the first generation: it fails, it matches       *)
(* nothing, or it has passages to answer from.                              *)
Retrieve ==
  /\ at = "retrieve"
  /\ IF job.retry THEN Emit("restart") ELSE UNCHANGED signals
  /\ \/ Fail /\ UNCHANGED <<leg, streamed>>
     \/ at' = "fallback" /\ leg' = "none" /\ UNCHANGED <<streamed, reply>>
     \/ Generate("search")
  /\ UNCHANGED <<chat, job, usedDocuments, faults, lost>>
  /\ InWorker

(* One piece stands for all the pieces of a generation.                     *)
StreamToken ==
  /\ at = "generate"
  /\ ~streamed
  /\ streamed' = TRUE
  /\ Emit("token")
  /\ UNCHANGED <<chat, at, leg, job, reply, usedDocuments, faults, lost>>
  /\ InWorker

(* A fallback that yields nothing.  Where passages had been found the       *)
(* refusal they gave stands, on a retry as well; where nothing matched, a   *)
(* retry fails and a question is told so.                                   *)
Decline ==
  IF reply.text = "refusal" THEN Succeed("refusal", "search")
  ELSE IF job.retry THEN Fail
  ELSE Succeed("notice", "search")

(* What the model makes of the conversation or of the summary.              *)
ConverseEnds ==
  /\ leg = "chat"
  /\ Fail \/ Succeed("answer", "chat") \/ Succeed("refusal", "chat")
  /\ UNCHANGED <<leg, streamed, signals>>

SummaryEnds ==
  /\ leg \in {"summary", "overview"}
  /\ \/ Fail
     \/ Succeed("answer", "summary")
     \/ IF leg = "overview" /\ job.retry THEN Decline
        ELSE Succeed("refusal", "summary")
  /\ UNCHANGED <<leg, streamed, signals>>

(* A refusal is retried once with a deeper search, unless this is a retry.  *)
SearchEnds ==
  /\ leg = "search"
  /\ \/ Fail /\ UNCHANGED <<leg, streamed, signals>>
     \/ Succeed("answer", "search") /\ UNCHANGED <<leg, streamed, signals>>
     \/ /\ reply' = Answered("refusal", "search")
        /\ \/ /\ ~job.retry
              /\ Emit("restart")
              /\ at' = "generate" /\ leg' = "deeper" /\ streamed' = FALSE
           \/ /\ IF job.retry THEN UNCHANGED signals ELSE Emit("restart")
              /\ at' = "fallback"
              /\ UNCHANGED <<leg, streamed>>

DeeperEnds ==
  /\ leg = "deeper"
  /\ Succeed("answer", "search") \/ (at' = "fallback" /\ UNCHANGED reply)
  /\ UNCHANGED <<leg, streamed, signals>>

(* The documents fit and are read, or are too big and the overview is next. *)
ReadEnds ==
  /\ leg = "read"
  /\ \/ Fail /\ UNCHANGED <<leg, streamed, signals>>
     \/ Succeed("answer", "read") /\ UNCHANGED <<leg, streamed, signals>>
     \/ /\ IF job.retry THEN Decline ELSE Succeed("refusal", "read")
        /\ UNCHANGED <<leg, streamed, signals>>

GenerationEnds ==
  /\ at = "generate"
  /\ ConverseEnds \/ SummaryEnds \/ SearchEnds \/ DeeperEnds \/ ReadEnds
  /\ UNCHANGED <<chat, job, usedDocuments, faults, lost>>
  /\ InWorker

(* runSearchFallback: no documents, documents to read, or too big to read;  *)
(* documents that cannot be listed count as none, and the group's summary   *)
(* is asked without a second look at what it answers.                       *)
Fallback ==
  /\ at = "fallback"
  /\ Emit("restart")
  /\ \/ Generate("read") /\ UNCHANGED faults
     \/ Generate("overview") /\ UNCHANGED faults
     \/ Generate("summary") /\ DbFault
     \/ Succeed("notice", "summary") /\ UNCHANGED <<leg, streamed, faults>>
  /\ UNCHANGED <<chat, job, usedDocuments, lost>>
  /\ InWorker

(* Mutant: the newest row is replaced, a question or an answer.             *)
UpdateNewestRow ==
  /\ chat' = IF chat[job.session] = <<>> THEN chat
             ELSE [chat EXCEPT ![job.session] =
                     SubSeq(@, 1, Len(@) - 1) \o <<reply>>]
  /\ UNCHANGED reply

(* Mutant: the answer of a retry is a further row.                          *)
UpdateByAppending ==
  /\ chat' = [chat EXCEPT ![job.session] = Append(@, reply)]
  /\ UNCHANGED reply

(* UPDATE of the newest row of the session, if that is an answer.           *)
UpdateLastAssistant ==
  IF EndsInAnswer(chat[job.session])
  THEN /\ chat' = [chat EXCEPT ![job.session] =
                      SubSeq(@, 1, Len(@) - 1) \o <<reply>>]
       /\ UNCHANGED reply
  ELSE UNCHANGED chat /\ reply' = Nothing

RecordAnswer ==
  /\ at = "record"
  /\ at' = "report"
  /\ IF job.retry
     THEN \/ UpdateLastAssistant /\ UNCHANGED faults
          \/ UNCHANGED chat /\ reply' = Nothing /\ DbFault
     ELSE AppendMessage(reply) /\ UNCHANGED reply
  /\ UNCHANGED <<signals, leg, streamed, job, usedDocuments, lost>>
  /\ InWorker

Report ==
  /\ at = "report"
  /\ at' = "none"
  /\ signals' = Append(signals, [kind |-> "finished", ok |-> reply # Nothing,
                                 message |-> reply])
  /\ UNCHANGED <<chat, leg, streamed, job, reply, usedDocuments, faults, lost>>
  /\ InWorker

WorkerThread ==
  \/ LoadHistory \/ PersistQuestion \/ Route \/ Summarize \/ Retrieve
  \/ StreamToken \/ GenerationEnds \/ Fallback \/ RecordAnswer \/ Report

-----------------------------------------------------------------------------
(* Nothing is left to do but to wait for the user.                          *)
Idle == ~querying /\ UNCHANGED chatVars

ChatNext ==
  \/ SendChatMessage
  \/ RetryLastAnswer
  \/ \E s \in Sessions : SelectChatSession(s) \/ DeleteChatSession(s)
  \/ StartNewChat
  \/ UiReceives
  \/ WorkerThread
  \/ Idle

(* Both threads run; the user owes nothing.                                 *)
ChatFairness == WF_chatVars(WorkerThread) /\ WF_chatVars(UiReceives)

ChatSpec == ChatInit /\ [][ChatNext]_chatVars /\ ChatFairness

-----------------------------------------------------------------------------
(* Every variable of the chat has its type.                                 *)
ChatTypeOK ==
  /\ chat \in [Sessions -> Seq(Message)]
  /\ sessions \subseteq Sessions
  /\ created \in 0 .. MaxSessions
  /\ session \in 0 .. MaxSessions
  /\ view \in Seq(Message)
  /\ live \in 0 .. Len(view)
  /\ lastQuestion \in 0 .. MaxQuestions
  /\ lastAnswer \in Message
  /\ lastWasSearch \in BOOLEAN
  /\ retrying \in BOOLEAN
  /\ querying \in BOOLEAN
  /\ signals \in Seq([kind : {"token", "restart", "finished"}, ok : BOOLEAN,
                      message : Message])
  /\ at \in {"none", "load", "persist", "route", "summarize", "retrieve",
             "generate", "fallback", "record", "report"}
  /\ leg \in {"none", "chat", "summary", "overview", "search", "deeper", "read"}
  /\ streamed \in BOOLEAN
  /\ job \in [session : 0 .. MaxSessions, question : 0 .. MaxQuestions,
              retry : BOOLEAN, query : 0 .. MaxQuestions + MaxRetries]
  /\ reply \in Message
  /\ usedDocuments \in BOOLEAN
  /\ queries \in 0 .. MaxQuestions + MaxRetries
  /\ questions \in 0 .. MaxQuestions
  /\ switches \in 0 .. MaxSwitches
  /\ faults \in 0 .. MaxFaults
  /\ askedIn \in [Questions -> 0 .. MaxSessions]
  /\ before \in Seq(Message)
  /\ lost \in BOOLEAN

(***************************************************************************)
(* "Always the last row while set": the row being streamed is the last one *)
(* on screen, and there is none when no query runs, whatever is sent,      *)
(* opened or deleted meanwhile.                                            *)
(***************************************************************************)
LiveRowIsLast ==
  /\ live # 0 => live = Len(view) /\ ~Last(view).user
  /\ ~querying => live = 0

(***************************************************************************)
(* A user who stays in a session sees what is recorded: between queries    *)
(* the screen and the stored session agree, after failures, refusals and   *)
(* retries alike.                                                          *)
(***************************************************************************)
ViewMatchesStore == ~querying /\ session # 0 => view = chat[session]

(***************************************************************************)
(* In the stored sessions an answer follows the question it answers.       *)
(***************************************************************************)
AnswersFollowQuestions ==
  \A s \in Sessions : \A i \in DOMAIN chat[s] :
    ~chat[s][i].user =>
      i > 1 /\ chat[s][i - 1].user /\ chat[s][i - 1].about = chat[s][i].about

(***************************************************************************)
(* Whatever sessions are opened while a query runs, everything it records  *)
(* goes to the session the question was asked in.                          *)
(***************************************************************************)
RowsStayInTheirSession ==
  \A s \in Sessions : \A i \in DOMAIN chat[s] : askedIn[chat[s][i].about] = s

(***************************************************************************)
(* The recorded history is only added to: no step changes a question or an *)
(* answer that is not the newest row of its session.                       *)
(***************************************************************************)
OnlyTheNewestAnswerChanges ==
  [][\A s \in sessions' : \A i \in DOMAIN chat[s] :
       \/ i \in DOMAIN chat'[s] /\ chat'[s][i] = chat[s][i]
       \/ i = Len(chat[s]) /\ ~chat[s][i].user]_chatVars

(* Every query ends, and the user can ask again.                            *)
EveryQueryEnds == querying ~> ~querying

(***************************************************************************)
(* A retry that fails leaves the stored session exactly as it was, and a   *)
(* question that fails leaves at most itself there.                        *)
(***************************************************************************)
FailedQueryKeepsTheRecord ==
  [][/\ OnRetryFailed => chat[job.session] = before
     /\ OnQuestionFailed =>
          chat[job.session] \in {before, Append(before, Asked(job.question))}
    ]_chatVars

(***************************************************************************)
(* "A retry that fails, or that finds nothing the second time, leaves the  *)
(* original answer exactly as it was": no refusal replaces an answer.      *)
(***************************************************************************)
NoAnswerIsLostToARefusal ==
  [][\A s \in sessions' : \A i \in DOMAIN chat[s] :
       chat[s][i].text = "answer" => chat'[s][i].text # "refusal"]_chatVars

(***************************************************************************)
(* "m_last* must describe the session on screen": what "Try harder" would  *)
(* ask again is the question of the answer it would replace.               *)
(***************************************************************************)
LastExchangeIsOnScreen ==
  CanRetryLastAnswer =>
    /\ EndsInAnswer(view)
    /\ Last(view).about = lastQuestion
    /\ lastAnswer = Last(view)

(***************************************************************************)
(* "Did the previous answer use retrieval? ... Read from stored            *)
(* provenance": the router is told so when it did.                         *)
(***************************************************************************)
RouterKnowsThePreviousAnswer ==
  [][LoadHistory /\ ~lost' /\ at' # "report" =>
       usedDocuments' = (PreviousAnswer(chat[job.session]).tool
                           \in {"search", "summary", "read"})]_chatVars
=============================================================================
