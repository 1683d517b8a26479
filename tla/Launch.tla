------------------------------- MODULE Launch -------------------------------
(***************************************************************************)
(* One process of the application after another over the files they leave: *)
(*  - main() starts up in order: the support directory and the generated   *)
(*    configuration (AppEnvironment), the bundled PostgreSQL               *)
(*    (PostgresManager), the window with its two controllers;              *)
(*  - the UI thread downloads missing models (ModelSetup), changes the     *)
(*    settings (ConfigFile), asks questions and quits;                     *)
(*  - the ModelLoader thread loads the chat model, the QueryWorker thread  *)
(*    loads the reranker's on the first question that needs it             *)
(*    (retrieval.c, reranker.c);                                           *)
(*  - the process may die at any moment; the database server is a process  *)
(*    of its own and survives it.                                          *)
(* A developer's build has no setup and no server of its own.              *)
(***************************************************************************)
EXTENDS ConfigFile, ModelSetup

CONSTANTS
  Configs,     (* configuration files the first process may find            *)
  Disks,       (* sets of model files it may find                           *)
  Fetchable,   (* chat model paths whose file name tells where to fetch it  *)
  ChatModel, RerankerModel, DefaultModel, (* paths                          *)
  MaxLaunches, (* bound: processes                                          *)
  MaxToggles,  (* bound: switches turned in the settings dialog             *)
  MaxQuestions (* bound: questions asked                                    *)

ASSUME LaunchAssumption ==
  /\ Configs \subseteq
       [exists : BOOLEAN,
        lines : Seq([key : {"model_path", "reranker_model_path", "thinking", "db_conninfo"},
                     value : Paths \union {Unset, "on", "off", "socket"},
                     commented : BOOLEAN, comment : BOOLEAN])]
  /\ Disks \subseteq SUBSET Paths /\ Unset \notin Paths
  /\ {ChatModel, RerankerModel, DefaultModel} \subseteq Paths
  /\ MaxLaunches \in Nat /\ MaxToggles \in Nat /\ MaxQuestions \in Nat

VARIABLES
  bundle,    (* AppEnvironment.bundleMode                                   *)
  config,    (* disk: lexis.conf                                            *)
  cluster,   (* disk: the data directory: none, begun (PG_VERSION only) or  *)
             (* made                                                        *)
  database,  (* disk: the database lexis exists                             *)
  server,    (* the bundled server runs                                     *)
  phase,     (* what the UI thread is at                                    *)
  started,   (* PostgresManager.m_started                                   *)
  connected, (* AppController.m_engine holds a connection                   *)
  modelPath, (* AppController.m_modelPath                                   *)
  loader,    (* m_modelLoader and how its thread fares                      *)
  ready,     (* m_modelReady                                                *)
  dialog,    (* m_thinkingEnabled and m_rerankerEnabled                     *)
  gate,      (* retrieval.c: the reranker's flags                           *)
  query,     (* the running QueryWorker                                     *)
  chosen,    (* history: the last position each switch was saved in         *)
  missed,    (* history: what the reranker's one attempt to load was spent  *)
             (* on since its switch was last turned off, if on nothing      *)
  tidy,      (* history: this process has met no fault with its server      *)
  exit,      (* history: how the last process ended                         *)
  launches, toggles, questions

diskVars == <<bundle, config, cluster, database>>
serverVars == <<server, started, connected>>
modelVars == <<modelPath, loader, ready>>
settingVars == <<dialog, gate, query>>
historyVars == <<chosen, missed, tidy, exit>>
countVars == <<launches, toggles, questions>>
vars == <<setupVars, faults, diskVars, serverVars, phase, modelVars, settingVars,
          historyVars, countVars>>

Phases == {"off", "layout", "config", "initdb", "serve", "createdb", "window",
           "running", "closing", "stopping"}

(* A QueryWorker: what it generates, the thinking switch it took with it,   *)
(* whether it is a retry, whether the model reasons; of its last search     *)
(* whether it was reranked, whether there was a model to load for that and  *)
(* what the attempt had been spent on before.                               *)
NoQuery == [at |-> "idle", thinking |-> FALSE, retry |-> FALSE, reasons |-> FALSE,
            reranked |-> FALSE, loadable |-> FALSE, missed |-> "nothing"]

FreshGate == [enabled |-> TRUE, attempted |-> FALSE, loaded |-> FALSE]

Init ==
  /\ bundle \in BOOLEAN
  /\ config \in Configs /\ (bundle \/ config.exists)
  /\ cluster = "none" /\ database = FALSE /\ server = FALSE
  /\ \E D \in Disks : target = [p \in Paths |-> IF p \in D THEN WholeFile ELSE <<>>]
  /\ part = [p \in Paths |-> <<>>]
  /\ pending = <<>> /\ downloading = FALSE /\ required = FALSE
  /\ reply = NoReply /\ resume = 0 /\ flushed = 0 /\ spoilt = {}
  /\ faults = 0 /\ requests = 0
  /\ phase = "off" /\ started = FALSE /\ connected = FALSE
  /\ modelPath = Unset /\ loader = "none" /\ ready = FALSE
  /\ dialog = [thinking |-> FALSE, reranker |-> FALSE]
  /\ gate = FreshGate /\ query = NoQuery
  /\ chosen = [thinking |-> {}, reranker |-> {}]
  /\ missed = "nothing" /\ tidy = TRUE /\ exit = "none"
  /\ launches = 0 /\ toggles = 0 /\ questions = 0

-----------------------------------------------------------------------------
(* Start-up, in main's order.                                               *)
Enter(p) == phase' = p

Launch ==
  /\ phase = "off" /\ launches < MaxLaunches
  /\ launches' = launches + 1
  /\ Enter(IF bundle THEN "layout" ELSE "window")
  /\ tidy' = TRUE
  /\ UNCHANGED <<setupVars, faults, diskVars, serverVars, modelVars, settingVars,
                 chosen, missed, exit, toggles, questions>>

startupFrame == <<setupVars, modelVars, settingVars, chosen, missed, exit, countVars>>

(* ensureSupportLayout: directories, then the configuration file unless one *)
(* exists. It is opened, which empties it, written, and closed. When it     *)
(* fails main goes on without a server.                                     *)
PrepareLayout ==
  /\ phase = "layout"
  /\ \/ /\ config.exists
        /\ Enter("initdb")
        /\ UNCHANGED <<config, faults, tidy>>
     \/ /\ ~config.exists
        /\ config' = FileOf(<<>>)
        /\ Enter("config")
        /\ UNCHANGED <<faults, tidy>>
     \/ /\ Fault
        /\ Enter("window") /\ tidy' = FALSE
        /\ UNCHANGED config
  /\ UNCHANGED <<bundle, cluster, database, serverVars, startupFrame>>

FirstConfig ==
  <<Line("model_path", ChatModel), Line("reranker_model_path", RerankerModel),
    Line("thinking", "off"), Line("db_conninfo", "socket")>>

WriteConfig ==
  /\ phase = "config"
  /\ config' = FileOf(FirstConfig)
  /\ Enter("initdb")
  /\ UNCHANGED <<faults, tidy, bundle, cluster, database, serverVars, startupFrame>>

(* ensureStarted: the cluster is made once, recognised by its PG_VERSION.   *)
(* initdb clears up behind itself when it fails, not when it is killed.     *)
InitDb ==
  /\ phase = "initdb"
  /\ \/ /\ cluster # "none"
        /\ Enter("serve")
        /\ UNCHANGED <<cluster, faults, tidy>>
     \/ /\ cluster = "none" /\ cluster' = "made"
        /\ Enter("serve")
        /\ UNCHANGED <<faults, tidy>>
     \/ /\ cluster = "none" /\ cluster' \in {"none", "begun"}
        /\ Fault /\ tidy' = FALSE
        /\ Enter("window")
  /\ UNCHANGED <<bundle, config, database, serverVars, startupFrame>>

(* A server that runs already counts as started.                            *)
(* Mutant: only a server this process started does.                         *)
StartServerItself ==
  /\ phase = "serve"
  /\ \/ /\ server \/ cluster = "made"
        /\ server' = TRUE /\ started' = ~server
        /\ Enter("createdb")
        /\ UNCHANGED <<faults, tidy>>
     \/ /\ ~server /\ cluster = "begun"
        /\ Enter("window")
        /\ UNCHANGED <<server, started, faults, tidy>>
     \/ /\ Fault /\ tidy' = FALSE
        /\ server' \in {server, server \/ cluster = "made"}
        /\ Enter("window")
        /\ UNCHANGED started
  /\ UNCHANGED <<diskVars, connected, startupFrame>>

StartServer ==
  /\ phase = "serve"
  /\ \/ /\ server \/ cluster = "made"
        /\ server' = TRUE /\ started' = TRUE
        /\ Enter("createdb")
        /\ UNCHANGED <<faults, tidy>>
     \/ /\ ~server /\ cluster = "begun"
        /\ Enter("window")
        /\ UNCHANGED <<server, started, faults, tidy>>
     \/ /\ Fault /\ tidy' = FALSE
        /\ server' \in {server, server \/ cluster = "made"}
        /\ Enter("window")
        /\ UNCHANGED started
  /\ UNCHANGED <<diskVars, connected, startupFrame>>

CreateDb ==
  /\ phase = "createdb"
  /\ Enter("window")
  /\ \/ database' = TRUE /\ UNCHANGED faults
     \/ UNCHANGED database /\ Fault
  /\ UNCHANGED <<bundle, config, cluster, serverVars, tidy, startupFrame>>

-----------------------------------------------------------------------------
(* The controllers. retryModelLoad starts one loader at a time.             *)
RetryModelLoad(r, l) == IF r \/ l # "none" THEN l ELSE "loading"

Absent(path) == IF IsMissing(path) THEN <<path>> ELSE <<>>

MissingModels ==
  LET chat == ModelPath(config, DefaultModel)
      reranker == RerankerModelPath(config)
  IN  (IF chat \in Fetchable THEN Absent(chat) ELSE <<>>)
        \o (IF reranker = Unset THEN <<>> ELSE Absent(reranker))

OpenWindow ==
  /\ phase = "window"
  /\ Enter("running")
  /\ connected' = (DbConninfo(config) # Unset /\ (bundle => server /\ database))
  /\ modelPath' = ModelPath(config, DefaultModel)
  /\ loader' = IF IsMissing(modelPath') THEN "none" ELSE "loading"
  /\ dialog' = [thinking |-> ThinkingEnabled(config), reranker |-> RerankerEnabled(config)]
  /\ OpenSetup(IF bundle THEN MissingModels ELSE <<>>)
  /\ UNCHANGED <<faults, diskVars, server, started, ready, gate, query, historyVars, countVars>>

(* The setup's handlers; its completion asks for the chat model.            *)
Setup ==
  /\ phase = "running"
  /\ SetupStep
  /\ loader' = IF required /\ ~required' THEN RetryModelLoad(ready, loader) ELSE loader
  /\ UNCHANGED <<diskVars, serverVars, phase, modelPath, ready, settingVars,
                 historyVars, countVars>>

(* A developer puts a model file where the configuration wants it.          *)
FetchModel ==
  /\ phase \in {"off", "running"} /\ ~bundle
  /\ \E p \in Paths :
       /\ p \in {ModelPath(config, DefaultModel), RerankerModelPath(config)}
       /\ IsMissing(p)
       /\ target' = [target EXCEPT ![p] = WholeFile]
  /\ UNCHANGED <<part, pending, downloading, required, reply, resume, flushed, spoilt, requests,
                 faults, diskVars, serverVars, phase, modelVars, settingVars,
                 historyVars, countVars>>

(* ModelLoader: a file that is not a whole model does not load.             *)
Loads(path) == path \in Paths /\ target[path] = WholeFile

LoadModel ==
  /\ loader = "loading"
  /\ loader' = IF Loads(modelPath) THEN "loaded" ELSE "failed"
  /\ UNCHANGED <<setupVars, faults, diskVars, serverVars, phase, modelPath, ready,
                 settingVars, historyVars, countVars>>

OnModelLoadFinished ==
  /\ phase = "running" /\ loader \in {"loaded", "failed"}
  /\ ready' = (loader = "loaded")
  /\ loader' = "none"
  /\ UNCHANGED <<setupVars, faults, diskVars, serverVars, phase, modelPath,
                 settingVars, historyVars, countVars>>

-----------------------------------------------------------------------------
(* The overlay covers the window while the setup is required or at work.    *)
WindowIsOpen == phase = "running" /\ ~required /\ ~downloading

Idle == query.at = "idle"

(* sendChatMessage and retryLastAnswer, as far as they depend on the        *)
(* launch: the worker takes the thinking switch with it. Which answers may  *)
(* be retried is a matter of ChatSession.                                   *)
Ask ==
  /\ WindowIsOpen /\ Idle
  /\ connected /\ ready /\ questions < MaxQuestions
  /\ questions' = questions + 1
  /\ \E retry \in BOOLEAN :
       query' = [NoQuery EXCEPT !.at = "asked", !.thinking = dialog.thinking, !.retry = retry]
  /\ UNCHANGED <<setupVars, faults, diskVars, serverVars, phase, modelVars, dialog, gate,
                 historyVars, launches, toggles>>

(* The worker's thread. A chat is always answered with reasoning.           *)
Converse ==
  /\ query.at = "asked" /\ ~query.retry
  /\ query' = [query EXCEPT !.at = "chat", !.reasons = TRUE]
  /\ UNCHANGED <<setupVars, faults, diskVars, serverVars, phase, modelVars, dialog, gate,
                 historyVars, countVars>>

(* reranker_ready.                                                          *)
TriedGate ==
  IF ~gate.enabled \/ gate.attempted THEN gate
  ELSE [gate EXCEPT !.attempted = TRUE,
                    !.loaded = IF RerankerModelPath(config) = Unset THEN @
                               ELSE @ \/ Loads(RerankerModelPath(config))]

(* A search. A retry, and the search after an answer that reads like a      *)
(* refusal, go deeper: they always reason.                                  *)
Retrieve ==
  /\ query.at \in {"asked", "search"}
  /\ gate' = TriedGate
  /\ LET deeper == query.retry \/ query.at = "search" IN
       query' = [query EXCEPT !.at = IF deeper THEN "deeper" ELSE "search",
                              !.reasons = deeper \/ query.thinking,
                              !.reranked = gate'.enabled /\ gate'.loaded,
                              !.loadable = Loads(RerankerModelPath(config)),
                              !.missed = missed]
  /\ missed' = IF missed # "nothing" \/ ~gate'.enabled \/ gate'.loaded THEN missed
               ELSE IF dialog.reranker THEN "a failure" ELSE "off"
  /\ UNCHANGED <<setupVars, faults, diskVars, serverVars, phase, modelVars, dialog,
                 chosen, tidy, exit, countVars>>

(* The documents, or their summary, answer: asked for, or where a search    *)
(* has nothing to say.                                                      *)
ReadDocuments ==
  /\ query.at \in {"asked", "search", "deeper"}
  /\ query' = [query EXCEPT !.at = "documents", !.reasons = query.thinking]
  /\ UNCHANGED <<setupVars, faults, diskVars, serverVars, phase, modelVars, dialog, gate,
                 historyVars, countVars>>

(* The end of run(), with an answer or without.                             *)
EndQuery ==
  /\ query.at \notin {"idle", "done"}
  /\ query' = [NoQuery EXCEPT !.at = "done"]
  /\ UNCHANGED <<setupVars, faults, diskVars, serverVars, phase, modelVars, dialog, gate,
                 historyVars, countVars>>

OnQueryFinished ==
  /\ phase = "running" /\ query.at = "done"
  /\ query' = NoQuery
  /\ UNCHANGED <<setupVars, faults, diskVars, serverVars, phase, modelVars, dialog, gate,
                 historyVars, countVars>>

(* The settings dialog's switches are disabled during a question. A switch  *)
(* whose line could not be saved stays where it was.                        *)
Switch ==
  /\ WindowIsOpen /\ Idle /\ toggles < MaxToggles
  /\ toggles' = toggles + 1
  /\ UNCHANGED <<setupVars, bundle, cluster, database, serverVars, phase, modelVars, query,
                 tidy, exit, launches, questions>>

NotSaved == UNCHANGED <<config, dialog, gate, chosen, missed>>

SetThinkingEnabled ==
  /\ Switch
  /\ \/ /\ config.exists
        /\ config' = FileOf(SetThinking(config.lines, ~dialog.thinking))
        /\ dialog' = [dialog EXCEPT !.thinking = ~@]
        /\ chosen' = [chosen EXCEPT !.thinking = {~dialog.thinking}]
        /\ UNCHANGED <<gate, missed, faults>>
     \/ ~config.exists /\ NotSaved /\ UNCHANGED faults
     \/ config.exists /\ NotSaved /\ Fault

(* retrieval_set_reranker_enabled: from off to on, one fresh attempt.       *)
(* Mutant: no fresh attempt.                                                *)
GateSetPlainly(on) == [gate EXCEPT !.enabled = on]

GateSet(on) ==
  [gate EXCEPT !.enabled = on,
               !.attempted = IF on /\ ~gate.enabled THEN FALSE ELSE @]

SetRerankerEnabled ==
  LET on == ~dialog.reranker IN
  /\ Switch
  /\ \/ /\ config.exists /\ CanSetReranker(config, on)
        /\ config' = FileOf(SetReranker(config.lines, on))
        /\ dialog' = [dialog EXCEPT !.reranker = on]
        /\ gate' = GateSet(on)
        /\ chosen' = [chosen EXCEPT !.reranker = {on}]
        /\ missed' = IF on THEN missed ELSE "nothing"
        /\ UNCHANGED faults
     \/ /\ ~(config.exists /\ CanSetReranker(config, on))
        /\ NotSaved /\ UNCHANGED faults
     \/ config.exists /\ NotSaved /\ Fault

-----------------------------------------------------------------------------
(* The end. Quitting, the UI thread leaves its event loop, waits for the    *)
(* threads and closes its connection, then stops the server it counts as    *)
(* started.                                                                 *)
Quit ==
  /\ phase = "running"
  /\ Enter("closing")
  /\ UNCHANGED <<setupVars, faults, diskVars, serverVars, modelVars, settingVars,
                 historyVars, countVars>>

Forget ==
  /\ loader' = "none" /\ ready' = FALSE /\ modelPath' = Unset
  /\ gate' = FreshGate /\ query' = NoQuery
  /\ dialog' = [thinking |-> FALSE, reranker |-> FALSE]
  /\ missed' = "nothing"
  /\ connected' = FALSE
  /\ CloseSetup

DestroyControllers ==
  /\ phase = "closing"
  /\ loader # "loading" /\ query.at \in {"idle", "done"}
  /\ Forget /\ UNCHANGED part
  /\ Enter("stopping")
  /\ UNCHANGED <<faults, diskVars, server, started, chosen, tidy, exit, countVars>>

StopServer ==
  /\ phase = "stopping"
  /\ Enter("off") /\ exit' = "quit" /\ started' = FALSE
  /\ \/ server' = (server /\ ~started) /\ UNCHANGED <<faults, tidy>>
     \/ started /\ UNCHANGED server /\ Fault /\ tidy' = FALSE
  /\ UNCHANGED <<setupVars, diskVars, connected, modelVars, settingVars,
                 chosen, missed, countVars>>

(* The process dies. A running initdb ends on its own, or does not.         *)
Crash ==
  /\ phase # "off" /\ Fault
  /\ Enter("off") /\ exit' = "crash" /\ started' = FALSE
  /\ Forget /\ LoseUnflushed
  /\ cluster' \in IF phase = "initdb" /\ cluster = "none" THEN {"none", "begun", "made"}
                  ELSE {cluster}
  /\ UNCHANGED <<bundle, config, database, server, chosen, tidy, countVars>>

(* The machine is restarted.                                                *)
Reboot ==
  /\ phase = "off" /\ server
  /\ server' = FALSE
  /\ UNCHANGED <<setupVars, faults, diskVars, started, connected, phase, modelVars, settingVars,
                 historyVars, countVars>>

StartUp ==
  \/ Launch \/ PrepareLayout \/ WriteConfig \/ InitDb \/ StartServer \/ CreateDb
  \/ OpenWindow

UserStep ==
  \/ FetchModel \/ Ask \/ SetThinkingEnabled \/ SetRerankerEnabled \/ Quit

Next ==
  \/ StartUp \/ Setup \/ UserStep
  \/ LoadModel \/ OnModelLoadFinished
  \/ Converse \/ Retrieve \/ ReadDocuments \/ EndQuery \/ OnQueryFinished
  \/ DestroyControllers \/ StopServer \/ Crash \/ Reboot

Spec == Init /\ [][Next]_vars

-----------------------------------------------------------------------------
(* The last choice made in the settings dialog is the one every answer      *)
(* obeys, through questions, failures and restarts. Thinking, once turned   *)
(* on, is in every answer; turned off, it is in none but those the code     *)
(* always reasons for: a chat, a retry, and the search after a refusal. The *)
(* reranker is never used once turned off; turned on, with its file whole,  *)
(* it is used by every search, unless its one attempt to load has been      *)
(* spent: on a file that did not load, or on a question asked in a process  *)
(* that started with the switch off. Then turning it on changes nothing,    *)
(* until it is off and on again or the application restarts                 *)
(* (ConfigManager, retrieval_set_reranker_enabled, reranker_ready).         *)
Answering == query.at \in {"chat", "search", "deeper", "documents"}

Searching == query.at \in {"search", "deeper"}

SettingsReachTheEngine ==
  /\ Answering =>
       /\ TRUE \in chosen.thinking => query.reasons
       /\ FALSE \in chosen.thinking /\ query.reasons => query.at \in {"chat", "deeper"}
  /\ Searching =>
       /\ query.reranked => FALSE \notin chosen.reranker
       /\ TRUE \in chosen.reranker /\ query.loadable =>
            (query.reranked <=> query.missed = "nothing")

(* The server runs for as long as the application holds a connection to it, *)
(* and an orderly exit leaves none running, not even one that an earlier    *)
(* process left behind when it died, unless in this process the layout or a *)
(* PostgreSQL tool failed (PostgresManager, main).                          *)
ServerOutlivesTheApp ==
  /\ (bundle /\ connected) => server
  /\ (phase = "off" /\ exit = "quit" /\ tidy) => ~server
=============================================================================
