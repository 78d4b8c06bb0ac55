---------------------------- MODULE LanguageServer ----------------------------
(***************************************************************************)
(* The language server's state for one document URI (src/lsp/server.rs).   *)
(*                                                                         *)
(* Handlers are futures that run concurrently and share State behind one   *)
(* RwLock; what a handler does while it holds the lock is one step here,   *)
(* and everything may happen between two of its steps.  A job is one       *)
(* handler or the debounced task it spawned, from its first step to its    *)
(* last.  The order in which waiting handlers get the lock is not assumed. *)
(*                                                                         *)
(* The editor keeps the protocol: it opens, changes and saves a document   *)
(* that is in the matching state, and numbers the versions of an open      *)
(* document upwards.  Whether the numbers start again when a document is   *)
(* opened again is up to it (NumbersRestart).                              *)
(***************************************************************************)
EXTENDS Naturals, Functions

CONSTANTS Text,            \* contents a buffer can have
          Job,             \* handlers and debounced tasks that may be under way
          MaxVersion,      \* bound on the document versions
          MaxGeneration,   \* bound on the requested analyses
          MaxResult,       \* bound on the semantic token results
          Config,          \* the values of checkOn that are configured
          NumbersRestart,  \* the editor opens every document as version 1
          None

ASSUME ServerAssumption == /\ {MaxVersion, MaxGeneration} \subseteq Nat
                           /\ MaxResult \in Nat \ {0}
                           /\ Config \subseteq {"open", "change", "save"}
                           /\ NumbersRestart \in BOOLEAN
                           /\ {None, "garbled"} \cap Text = {}
                           /\ None \notin [version : Nat, text : Text]
                           /\ None \notin [id : Nat, text : Text]

VARIABLES doc,        \* the open buffer: version and text, or None
          newest,     \* the highest version the editor has used
          history,    \* the text of each version (what the editor knows)
          generation, \* debounce_gen of the URI; 0: no entry
          checkOn,    \* LspConfig.check_on
          job,        \* the jobs
          snapshot,   \* the cached analysis: version and text, or None
          tokens,     \* token_cache entry: result id and text, or None
          nextResult, \* next_token_result_id
          editor,     \* the tokens the editor holds: result id and text, or None
          shown       \* the last publishDiagnostics: version (0: none) and text

vars == <<doc, newest, history, generation, checkOn, job, snapshot, tokens, nextResult,
          editor, shown>>
buffer == <<doc, newest, history>>
caches == <<snapshot, tokens, nextResult, editor>>

Version == 1..MaxVersion
Stage == {"idle", "asked", "saved", "reading", "bump", "bumpNow", "debounce", "enter",
          "analysing", "tooBig", "publish", "publishEmpty", "clear"}
Idle == [stage |-> "idle", version |-> 0, text |-> None, generation |-> 0]
At(j, s)    == job[j].stage = s
Goto(j, s)  == job' = [job EXCEPT ![j].stage = s]
Leave(j)    == job' = [job EXCEPT ![j] = Idle]

Init == /\ doc = None /\ newest = 0 /\ history = [v \in Version |-> None]
        /\ generation = 0
        /\ checkOn = "change"
        /\ job = [j \in Job |-> Idle]
        /\ snapshot = None /\ tokens = None /\ nextResult = 1 /\ editor = None
        /\ shown = [version |-> 0, text |-> None]

FaultyIsCurrent(j) == /\ generation = job[j].generation     \* mutant: version not compared
                      /\ doc # None

(* State::is_current_analysis. *)
IsCurrent(j) == /\ generation = job[j].generation
                /\ doc # None /\ doc.version = job[j].version

------------------------------------------------------------------------------
(* What the editor sends: the first step of each handler. *)

(* The buffer the editor has from now on, numbered v. *)
Buffer(v, t) == /\ v \in Version
                /\ doc' = [version |-> v, text |-> t]
                /\ newest' = IF v > newest THEN v ELSE newest
                /\ history' = [history EXCEPT ![v] = t]

Begin(j, s, v, t) == /\ At(j, "idle")
                     /\ job' = [job EXCEPT ![j] = [stage |-> s, version |-> v, text |-> t,
                                                   generation |-> 0]]

DidOpen(j, t) ==
    LET v == IF NumbersRestart THEN 1 ELSE newest + 1 IN
    /\ doc = None
    /\ Buffer(v, t)
    /\ Begin(j, "bumpNow", v, t)
    /\ UNCHANGED <<generation, checkOn, caches, shown>>

DidChange(j, t) ==
    /\ doc # None
    /\ Buffer(doc.version + 1, t)
    /\ Begin(j, "asked", doc.version + 1, t)
    /\ UNCHANGED <<generation, checkOn, caches, shown>>

DidSave(j) == /\ doc # None
              /\ Begin(j, "saved", 0, None)
              /\ UNCHANGED <<buffer, generation, checkOn, caches, shown>>

FaultyDidClose(j) ==                                        \* mutant: tokens kept
    /\ doc # None
    /\ doc' = None /\ snapshot' = None /\ generation' = 0
    /\ Begin(j, "clear", 0, None)
    /\ UNCHANGED <<newest, history, checkOn, tokens, nextResult, editor, shown>>

DidClose(j) ==
    /\ doc # None
    /\ doc' = None /\ snapshot' = None /\ generation' = 0 /\ tokens' = None
    /\ Begin(j, "clear", 0, None)
    /\ UNCHANGED <<newest, history, checkOn, nextResult, editor, shown>>

DidChangeConfiguration(c) ==
    /\ checkOn' = c
    /\ UNCHANGED <<buffer, generation, job, caches, shown>>

------------------------------------------------------------------------------
(* The later steps of a job, each under the lock or at a message it sends. *)

(* did_change and did_save look at check_on; did_save then reads the buffer. *)
CheckChange(j) == /\ At(j, "asked")
                  /\ IF checkOn = "change" THEN Goto(j, "bump") ELSE Leave(j)
                  /\ UNCHANGED <<buffer, generation, checkOn, caches, shown>>

CheckSave(j) == /\ At(j, "saved")
                /\ IF checkOn = "save" THEN Goto(j, "reading") ELSE Leave(j)
                /\ UNCHANGED <<buffer, generation, checkOn, caches, shown>>

ReadSaved(j) ==
    /\ At(j, "reading")
    /\ IF doc = None THEN Leave(j)
       ELSE job' = [job EXCEPT ![j] = [stage |-> "bumpNow", version |-> doc.version,
                                       text |-> doc.text, generation |-> 0]]
    /\ UNCHANGED <<buffer, generation, checkOn, caches, shown>>

(* bump_generation; a change waits for the debounce time, in a task of its own. *)
Bump(j) ==
    /\ job[j].stage \in {"bump", "bumpNow"}
    /\ generation < MaxGeneration
    /\ generation' = generation + 1
    /\ job' = [job EXCEPT ![j].stage = IF @ = "bump" THEN "debounce" ELSE "enter",
                          ![j].generation = generation + 1]
    /\ UNCHANGED <<buffer, checkOn, caches, shown>>

Debounced(j) == /\ At(j, "debounce")
                /\ IF generation = job[j].generation THEN Goto(j, "enter") ELSE Leave(j)
                /\ UNCHANGED <<buffer, generation, checkOn, caches, shown>>

(* reanalyze_inner reads the configuration, whose maxDocumentBytes may make
   the text too big.                                                          *)
Enter(j) == /\ At(j, "enter")
            /\ IF IsCurrent(j) THEN Goto(j, "analysing") \/ Goto(j, "tooBig") ELSE Leave(j)
            /\ UNCHANGED <<buffer, generation, checkOn, caches, shown>>

FaultyTooBig(j) == /\ At(j, "tooBig")                       \* mutant: nothing published
                   /\ Leave(j)
                   /\ UNCHANGED <<buffer, generation, checkOn, caches, shown>>

TooBig(j) == /\ At(j, "tooBig")
             /\ IF IsCurrent(j) THEN Goto(j, "publishEmpty") ELSE Leave(j)
             /\ UNCHANGED <<buffer, generation, checkOn, caches, shown>>

(* The analysis on the blocking pool is over, or panicked: its result is kept
   if it still matches the buffer.  A panic is caught, so the pool loses a
   task only when the runtime shuts down, and that return is left out.        *)
Commit(j) ==
    /\ At(j, "analysing")
    /\ IF IsCurrent(j)
       THEN /\ snapshot' = [version |-> job[j].version, text |-> job[j].text]
            /\ tokens' = None
            /\ Goto(j, "publish")
       ELSE /\ Leave(j)
            /\ UNCHANGED <<snapshot, tokens>>
    /\ UNCHANGED <<buffer, generation, checkOn, nextResult, editor, shown>>

FaultyPublish(j) ==                                         \* mutant: version of the buffer
    /\ job[j].stage \in {"publish", "publishEmpty", "clear"}
    /\ shown' = [version |-> IF doc = None THEN 0 ELSE doc.version,
                 text |-> IF At(j, "publish") THEN job[j].text ELSE None]
    /\ Leave(j)
    /\ UNCHANGED <<buffer, generation, checkOn, caches>>

Publish(j) ==
    /\ job[j].stage \in {"publish", "publishEmpty", "clear"}
    /\ shown' = [version |-> job[j].version,
                 text |-> IF At(j, "publish") THEN job[j].text ELSE None]
    /\ Leave(j)
    /\ UNCHANGED <<buffer, generation, checkOn, caches>>

JobStep(j) == \/ CheckChange(j) \/ CheckSave(j) \/ ReadSaved(j) \/ Bump(j) \/ Debounced(j)
              \/ Enter(j) \/ TooBig(j) \/ Commit(j) \/ Publish(j)

------------------------------------------------------------------------------
(* Semantic tokens: each result has an id, and the server keeps the last one
   to answer the next request with the difference.                           *)

FaultyNewResult == /\ nextResult' = nextResult              \* mutant: id used again
                   /\ tokens' = [id |-> nextResult, text |-> snapshot.text]

NewResult == /\ nextResult < MaxResult
             /\ nextResult' = nextResult + 1
             /\ tokens' = [id |-> nextResult, text |-> snapshot.text]

(* The editor gets the answer, or has cancelled the request by then. *)
Answer(t) == editor' \in {editor, [id |-> nextResult, text |-> t]}

SemanticTokensFull ==
    /\ snapshot # None
    /\ NewResult
    /\ Answer(snapshot.text)
    /\ UNCHANGED <<buffer, generation, checkOn, job, snapshot, shown>>

(* The difference fits only what the server thinks the editor holds. *)
SemanticTokensDelta ==
    /\ snapshot # None /\ editor # None
    /\ LET known == tokens # None /\ tokens.id = editor.id IN
       Answer(IF known /\ tokens.text # editor.text THEN "garbled" ELSE snapshot.text)
    /\ NewResult
    /\ UNCHANGED <<buffer, generation, checkOn, job, snapshot, shown>>

------------------------------------------------------------------------------
Next == \/ \E j \in Job, t \in Text : DidOpen(j, t) \/ DidChange(j, t)
        \/ \E j \in Job : DidSave(j) \/ DidClose(j) \/ JobStep(j)
        \/ \E c \in Config : DidChangeConfiguration(c)
        \/ SemanticTokensFull \/ SemanticTokensDelta

(* The runtime polls a future that is ready, an analysis ends, a sleep is over. *)
Spec == Init /\ [][Next]_vars /\ \A j \in Job : WF_vars(JobStep(j))

------------------------------------------------------------------------------
(* What each variable can hold. *)
TypeOK ==
    /\ doc \in {None} \cup [version : Version, text : Text]
    /\ newest \in 0..MaxVersion
    /\ history \in [Version -> Text \cup {None}]
    /\ generation \in 0..MaxGeneration
    /\ checkOn \in {"open", "change", "save"}
    /\ job \in [Job -> [stage : Stage, version : 0..MaxVersion, text : Text \cup {None},
                        generation : 0..MaxGeneration]]
    /\ snapshot \in {None} \cup [version : Version, text : Text]
    /\ tokens \in {None} \cup [id : 1..MaxResult, text : Text]
    /\ nextResult \in 1..MaxResult
    /\ editor \in {None} \cup [id : 1..MaxResult, text : Text \cup {"garbled"}]
    /\ shown \in [version : 0..MaxVersion, text : Text \cup {None}]

(* An analysis that took long never replaces a newer one: what is committed is
   the analysis of the text the buffer has at that moment ("a slow pass on
   older text must not publish or cache diagnostics").                       *)
CommitsAreCurrent ==
    [][snapshot' # snapshot /\ snapshot' # None =>
         doc # None /\ snapshot' = [version |-> doc.version, text |-> doc.text]]_vars

(* The caches are those of an open buffer, and the tokens kept for the next
   difference are tokens of the cached analysis: no late job, close or config
   change leaves one behind.                                                 *)
CachesAgree == /\ snapshot # None => doc # None
               /\ tokens # None => snapshot # None /\ tokens.text = snapshot.text

(* Applying a difference never leaves the editor with tokens of no text, also
   when answers were cancelled or the document was closed in between.        *)
TokensAreWhole == editor # None => editor.text # "garbled"

(* Diagnostics that carry a version are those of the text of that version, so
   an editor can tell an answer that comes late.                             *)
VersionTellsText ==
    shown.version # 0 /\ shown.text # None => history[shown.version] = shown.text

(* An analysis that is asked for is answered: it is published, unless another
   one is asked for, or the buffer changes or closes, in the meantime.       *)
Asked(v, g) == /\ generation = g /\ doc # None /\ doc.version = v
               /\ \E j \in Job : /\ job[j].version = v /\ job[j].generation = g
                                 /\ job[j].stage \in {"debounce", "enter", "analysing", "tooBig"}
AnalysisIsAnswered ==
    \A v \in Version, g \in 1..MaxGeneration :
        Asked(v, g) ~> \/ shown.version = v
                       \/ generation # g
                       \/ doc = None \/ doc.version # v
===============================================================================
