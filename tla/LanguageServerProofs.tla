------------------------ MODULE LanguageServerProofs ------------------------
(***************************************************************************)
(* Proofs about LanguageServer, for any number of handlers and analyses    *)
(* under way, for an editor that never uses a version number twice.  The   *)
(* invariant says that a version number names one text: then comparing     *)
(* the number, as is_current_analysis does, is comparing the text.  That   *)
(* the caches agree and tokens are of one text needs no such editor.       *)
(***************************************************************************)
EXTENDS LanguageServer, TLAPS

\* Stages in which a job is not yet, or no more, about a version.
Bare == {"idle", "saved", "reading", "clear"}

VersionsInv ==
  /\ doc # None => doc.version = newest /\ doc.text = history[newest]
  /\ \A j \in Job : job[j].version # 0 => /\ job[j].version <= newest
                                          /\ job[j].text = history[job[j].version]
  /\ \A j \in Job : job[j].stage \notin Bare => job[j].version # 0
  /\ shown.version # 0 => shown.version <= newest
  /\ VersionTellsText

JobType == [stage : Stage, version : 0..MaxVersion, text : Text \cup {None},
            generation : 0..MaxGeneration]

ServerInv == TypeOK /\ CachesAgree /\ VersionsInv

(***************************************************************************)
(* The editor's new buffer, with a number above all that were used.        *)
(***************************************************************************)
LEMMA BufferStep ==
  ASSUME ServerInv, NEW v \in Version, v = newest + 1, NEW t \in Text, Buffer(v, t),
         NEW j \in Job, NEW s \in Stage, Begin(j, s, v, t),
         UNCHANGED <<generation, checkOn, caches, shown>>
  PROVE  ServerInv'
<1> USE ServerAssumption DEF ServerInv, Version
<1>1. /\ doc' = [version |-> v, text |-> t] /\ newest' = v
      /\ history' = [history EXCEPT ![v] = t]
      /\ newest \in 0..MaxVersion
  BY DEF Buffer, TypeOK
<1>2. /\ job' = [job EXCEPT ![j] = [stage |-> s, version |-> v, text |-> t, generation |-> 0]]
      /\ job \in [Job -> JobType]
  BY DEF Begin, TypeOK, JobType
<1>3. job' \in [Job -> JobType]
  BY <1>2 DEF JobType
<1>4. TypeOK'
  BY <1>1, <1>3 DEF caches, TypeOK, JobType
<1>5. doc' # None /\ CachesAgree'
  BY <1>1 DEF caches, CachesAgree
<1>6. \A k \in Job : job'[k].version # 0 => /\ job'[k].version <= newest'
                                            /\ job'[k].text = history'[job'[k].version]
  <2>1. ASSUME NEW k \in Job, k # j, job'[k].version # 0
        PROVE  job'[k].version <= newest' /\ job'[k].text = history'[job'[k].version]
    <3>1. job'[k] = job[k] /\ job[k].version \in 1..newest
      BY <1>1, <1>2, <2>1 DEF VersionsInv, JobType
    <3>. QED
      BY <1>1, <3>1 DEF VersionsInv, TypeOK
  <2>2. job'[j].version = v /\ job'[j].text = t
    BY <1>2
  <2>. QED
    BY <1>1, <2>1, <2>2 DEF TypeOK
<1>7. VersionsInv'
  <2>1. \A k \in Job : job'[k].stage \notin Bare => job'[k].version # 0
    BY <1>1, <1>2 DEF VersionsInv
  <2>2. shown' = shown /\ (shown.version # 0 => shown.version \in 1..newest)
    BY <1>1 DEF VersionsInv, TypeOK
  <2>3. doc'.version = newest' /\ doc'.text = history'[newest']
    BY <1>1 DEF TypeOK
  <2>. QED
    BY <1>1, <1>5, <1>6, <2>1, <2>2, <2>3 DEF VersionsInv, VersionTellsText, TypeOK
<1>. QED
  BY <1>4, <1>5, <1>7

(***************************************************************************)
(* A job that takes a step stays about the version and the text it had, or *)
(* becomes one about the buffer, or is over.                               *)
(***************************************************************************)
LEMMA JobChange ==
  ASSUME ServerInv, NEW j \in Job, NEW r \in JobType,
         job' = [job EXCEPT ![j] = r],
         r.version # 0 => r.version <= newest /\ r.text = history[r.version],
         r.stage \notin Bare => r.version # 0,
         UNCHANGED <<newest, history, checkOn, nextResult, editor>>,
         doc' \in {doc, None},
         generation' \in 0..MaxGeneration,
         shown' \in [version : 0..MaxVersion, text : Text \cup {None}],
         shown'.version # 0 => shown'.version <= newest,
         VersionTellsText', CachesAgree',
         snapshot' \in {None} \cup [version : Version, text : Text],
         tokens' \in {None} \cup [id : 1..MaxResult, text : Text]
  PROVE  ServerInv'
<1> USE ServerAssumption DEF ServerInv, Version
<1>1. job \in [Job -> JobType]
  BY DEF TypeOK, JobType
<1>2. job' \in [Job -> JobType]
  BY <1>1
<1>3. TypeOK'
  BY <1>2 DEF TypeOK, JobType
<1>4. VersionsInv'
  BY <1>1 DEF VersionsInv
<1>. QED
  BY <1>3, <1>4

LEMMA JobStepInv ==
  ASSUME ServerInv, NEW j \in Job, JobStep(j)
  PROVE  ServerInv'
<1> USE ServerAssumption DEF ServerInv, Version
<1>1. /\ job \in [Job -> JobType] /\ Idle \in JobType /\ Idle.version = 0 /\ Idle.stage = "idle"
      /\ shown \in [version : 0..MaxVersion, text : Text \cup {None}]
      /\ shown.version # 0 => shown.version <= newest
      /\ generation \in 0..MaxGeneration
      /\ snapshot \in {None} \cup [version : Version, text : Text]
      /\ tokens \in {None} \cup [id : 1..MaxResult, text : Text]
      /\ doc \in {None} \cup [version : Version, text : Text]
      /\ job[j].version # 0 => job[j].version <= newest /\ job[j].text = history[job[j].version]
      /\ job[j].stage \notin Bare => job[j].version # 0
      /\ VersionTellsText /\ CachesAgree
  BY DEF TypeOK, JobType, Idle, Stage, VersionsInv
<1>2. CASE UNCHANGED <<buffer, checkOn, caches, shown, generation>>
             /\ (Leave(j) \/ \E s \in Stage \ Bare : Goto(j, s) /\ job[j].stage \notin Bare)
  <2>1. /\ UNCHANGED <<newest, history, checkOn, nextResult, editor, doc, generation, shown,
                       snapshot, tokens>>
        /\ VersionTellsText' /\ CachesAgree'
    BY <1>1, <1>2 DEF buffer, caches, VersionTellsText, CachesAgree
  <2>2. CASE Leave(j)
    <3>1. job' = [job EXCEPT ![j] = Idle]
      BY <2>2 DEF Leave
    <3>. QED
      BY <1>1, <2>1, <3>1, JobChange DEF Bare
  <2>3. ASSUME NEW s \in Stage \ Bare, Goto(j, s), job[j].stage \notin Bare PROVE ServerInv'
    <3>. DEFINE r == [job[j] EXCEPT !.stage = s]
    <3>1. /\ job' = [job EXCEPT ![j] = r] /\ r \in JobType /\ r.stage = s
          /\ r.version = job[j].version /\ r.text = job[j].text
      BY <1>1, <2>3 DEF Goto, JobType
    <3>. HIDE DEF r
    <3>. QED
      BY <1>1, <2>1, <2>3, <3>1, JobChange
  <2>. QED
    BY <1>2, <2>2, <2>3
<1>3. CASE CheckChange(j) \/ Debounced(j) \/ Enter(j) \/ TooBig(j)
  BY <1>2, <1>3 DEF CheckChange, Debounced, Enter, TooBig, At, Stage, Bare
<1>4. ASSUME NEW r \in JobType, job' = [job EXCEPT ![j] = r],
             r.version # 0 => r.version <= newest /\ r.text = history[r.version],
             r.stage \notin Bare => r.version # 0,
             generation' \in 0..MaxGeneration,
             UNCHANGED <<buffer, checkOn, caches, shown>>
      PROVE  ServerInv'
  <2>1. /\ UNCHANGED <<newest, history, checkOn, nextResult, editor, doc, shown, snapshot, tokens>>
        /\ VersionTellsText' /\ CachesAgree'
    BY <1>1, <1>4 DEF buffer, caches, VersionTellsText, CachesAgree
  <2>. QED
    BY <1>1, <1>4, <2>1, JobChange
<1>5. CASE CheckSave(j)
  <2>1. CASE Leave(j)
    BY <1>2, <1>5, <2>1 DEF CheckSave
  <2>2. CASE Goto(j, "reading")
    <3>. DEFINE r == [job[j] EXCEPT !.stage = "reading"]
    <3>1. /\ job' = [job EXCEPT ![j] = r] /\ r \in JobType /\ r.stage = "reading"
          /\ r.version = job[j].version /\ r.text = job[j].text
      BY <1>1, <2>2 DEF Goto, JobType, Stage
    <3>2. UNCHANGED <<buffer, checkOn, caches, shown, generation>>
      BY <1>5 DEF CheckSave
    <3>. HIDE DEF r
    <3>. QED
      BY <1>1, <1>4, <3>1, <3>2 DEF Bare
  <2>. QED
    BY <1>5, <2>1, <2>2 DEF CheckSave
<1>6. CASE ReadSaved(j)
  <2>1. CASE doc = None
    BY <1>2, <1>6, <2>1 DEF ReadSaved
  <2>2. CASE doc # None
    <3>. DEFINE r == [stage |-> "bumpNow", version |-> doc.version, text |-> doc.text,
                      generation |-> 0]
    <3>1. doc \in [version : Version, text : Text]
      BY <1>1, <2>2
    <3>2. job' = [job EXCEPT ![j] = r]
      BY <1>6, <2>2 DEF ReadSaved
    <3>3. /\ r \in JobType /\ r.stage = "bumpNow"
          /\ r.version = doc.version /\ r.text = doc.text
      BY <1>1, <3>1 DEF JobType, Stage
    <3>4. UNCHANGED <<buffer, checkOn, caches, shown, generation>>
      BY <1>6 DEF ReadSaved
    <3>5. doc.version = newest /\ doc.text = history[newest] /\ newest \in 0..MaxVersion
      BY <2>2 DEF VersionsInv, TypeOK
    <3>. HIDE DEF r
    <3>6. /\ r.version # 0 => r.version <= newest /\ r.text = history[r.version]
          /\ r.version # 0 /\ generation' \in 0..MaxGeneration
      BY <1>1, <3>1, <3>3, <3>4, <3>5
    <3>. QED
      BY <1>4, <3>2, <3>3, <3>4, <3>6
  <2>. QED
    BY <2>1, <2>2
<1>7. CASE Bump(j)
  <2>. DEFINE r == [job[j] EXCEPT !.stage = IF @ = "bump" THEN "debounce" ELSE "enter",
                                  !.generation = generation + 1]
  <2>1. /\ generation' = generation + 1 /\ generation + 1 \in 0..MaxGeneration
        /\ job[j].stage \in {"bump", "bumpNow"}
        /\ UNCHANGED <<buffer, checkOn, caches, shown>>
    BY <1>1, <1>7 DEF Bump
  <2>2. /\ job' = [job EXCEPT ![j] = r] /\ r \in JobType
        /\ r.version = job[j].version /\ r.text = job[j].text
    BY <1>1, <1>7, <2>1 DEF Bump, JobType, Stage
  <2>3. job[j].version # 0
    BY <1>1, <2>1 DEF Bare
  <2>. HIDE DEF r
  <2>. QED
    BY <1>1, <1>4, <2>1, <2>2, <2>3
<1>8. CASE Commit(j)
  <2>1. CASE ~IsCurrent(j)
    <3>1. UNCHANGED <<buffer, checkOn, caches, shown, generation>> /\ Leave(j)
      BY <1>8, <2>1 DEF Commit, caches
    <3>. QED
      BY <1>2, <3>1
  <2>2. CASE IsCurrent(j)
    <3>. DEFINE r == [job[j] EXCEPT !.stage = "publish"]
    <3>1. /\ snapshot' = [version |-> job[j].version, text |-> job[j].text] /\ tokens' = None
          /\ job' = [job EXCEPT ![j].stage = "publish"] /\ job[j].stage = "analysing"
          /\ UNCHANGED <<buffer, generation, checkOn, nextResult, editor, shown>>
      BY <1>8, <2>2 DEF Commit, Goto, At
    <3>2. /\ job' = [job EXCEPT ![j] = r] /\ r \in JobType
          /\ r.version = job[j].version /\ r.text = job[j].text
      BY <1>1, <3>1 DEF JobType, Stage
    <3>3. doc # None /\ doc.version = job[j].version /\ job[j].version # 0
      BY <1>1, <2>2, <3>1 DEF IsCurrent, Bare
    <3>4. snapshot' \in [version : Version, text : Text]
      <4>1. doc.version = newest /\ doc.text = history[newest]
        BY <3>3 DEF VersionsInv
      <4>2. job[j].text = doc.text /\ doc \in [version : Version, text : Text]
        BY <1>1, <3>3, <4>1
      <4>. QED
        BY <3>1, <3>3, <4>2
    <3>5. /\ UNCHANGED <<newest, history, checkOn, nextResult, editor, doc, shown, generation>>
          /\ VersionTellsText' /\ CachesAgree'
      BY <1>1, <3>1, <3>3 DEF buffer, VersionTellsText, CachesAgree
    <3>. HIDE DEF r
    <3>6. /\ r.version # 0 => r.version <= newest /\ r.text = history[r.version]
          /\ r.version # 0 /\ generation' \in 0..MaxGeneration
          /\ shown' \in [version : 0..MaxVersion, text : Text \cup {None}]
          /\ shown'.version # 0 => shown'.version <= newest
          /\ tokens' \in {None} \cup [id : 1..MaxResult, text : Text]
          /\ snapshot' \in {None} \cup [version : Version, text : Text]
          /\ doc' \in {doc, None}
      BY <1>1, <3>1, <3>2, <3>3, <3>4, <3>5
    <3>. QED
      BY <3>2, <3>5, <3>6, JobChange
  <2>. QED
    BY <2>1, <2>2
<1>9. CASE Publish(j)
  <2>1. /\ job' = [job EXCEPT ![j] = Idle]
        /\ shown' = [version |-> job[j].version, text |-> IF At(j, "publish") THEN job[j].text
                                                                            ELSE None]
        /\ UNCHANGED <<buffer, generation, checkOn, caches>>
    BY <1>9 DEF Publish, Leave
  <2>2. /\ shown'.version = job[j].version
        /\ shown'.text # None => shown'.text = job[j].text
        /\ shown' \in [version : 0..MaxVersion, text : Text \cup {None}]
    BY <1>1, <2>1 DEF JobType
  <2>3. /\ UNCHANGED <<newest, history, checkOn, nextResult, editor, doc, generation, snapshot,
                       tokens>>
        /\ VersionTellsText' /\ CachesAgree'
    BY <1>1, <2>1, <2>2 DEF buffer, caches, VersionTellsText, CachesAgree
  <2>. QED
    BY <1>1, <2>1, <2>2, <2>3, JobChange DEF Bare
<1>. QED
  BY <1>3, <1>5, <1>6, <1>7, <1>8, <1>9 DEF JobStep

LEMMA ServerInit == Init => ServerInv
<1> SUFFICES ASSUME Init PROVE ServerInv
  OBVIOUS
<1>. QED
  BY ServerAssumption DEF Init, Idle, ServerInv, TypeOK, CachesAgree, VersionsInv,
     VersionTellsText, Version, Stage, Bare

LEMMA ServerStep == ~NumbersRestart /\ ServerInv /\ [Next]_vars => ServerInv'
<1> SUFFICES ASSUME ~NumbersRestart, ServerInv, [Next]_vars PROVE ServerInv'
  OBVIOUS
<1> USE ServerAssumption DEF ServerInv, Version
<1>1. /\ newest \in 0..MaxVersion /\ job \in [Job -> JobType]
      /\ doc # None => doc.version = newest
  BY DEF TypeOK, JobType, VersionsInv
<1>2. ASSUME NEW j \in Job, NEW t \in Text, DidOpen(j, t) \/ DidChange(j, t)
      PROVE  ServerInv'
  <2>. DEFINE v == newest + 1
  <2>1. /\ Buffer(v, t) /\ \E s \in {"bumpNow", "asked"} : Begin(j, s, v, t)
        /\ UNCHANGED <<generation, checkOn, caches, shown>>
    BY <1>1, <1>2 DEF DidOpen, DidChange
  <2>2. v \in Version
    BY <2>1 DEF Buffer
  <2>. HIDE DEF v
  <2>. QED
    BY <1>1, <2>1, <2>2, BufferStep DEF Stage, v
<1>3. ASSUME NEW j \in Job, JobStep(j) PROVE ServerInv'
  BY <1>3, JobStepInv
<1>4. ASSUME NEW j \in Job, NEW s \in {"saved", "clear"}, Begin(j, s, 0, None),
             \/ UNCHANGED <<doc, generation, snapshot, tokens>>
             \/ doc' = None /\ generation' = 0 /\ snapshot' = None /\ tokens' = None,
             UNCHANGED <<newest, history, checkOn, nextResult, editor, shown>>
      PROVE  ServerInv'
  <2>. DEFINE r == [stage |-> s, version |-> 0, text |-> None, generation |-> 0]
  <2>1. job' = [job EXCEPT ![j] = r] /\ r \in JobType /\ r.version = 0 /\ r.stage \in Bare
    BY <1>4 DEF Begin, JobType, Stage, Bare
  <2>2. VersionTellsText' /\ CachesAgree' /\ doc' \in {doc, None}
    BY <1>4 DEF VersionsInv, VersionTellsText, CachesAgree
  <2>3. /\ generation' \in 0..MaxGeneration
        /\ shown' \in [version : 0..MaxVersion, text : Text \cup {None}]
        /\ shown'.version # 0 => shown'.version <= newest
        /\ tokens' \in {None} \cup [id : 1..MaxResult, text : Text]
        /\ snapshot' \in {None} \cup [version : Version, text : Text]
    BY <1>4 DEF TypeOK, VersionsInv
  <2>. HIDE DEF r
  <2>. QED
    BY <1>4, <2>1, <2>2, <2>3, JobChange
<1>5. ASSUME NEW j \in Job, DidSave(j) \/ DidClose(j) PROVE ServerInv'
  BY <1>4, <1>5 DEF DidSave, DidClose, buffer, caches
<1>6. CASE UNCHANGED <<doc, newest, history, generation, job, snapshot, shown>>
           /\ checkOn' \in {"open", "change", "save"}
           /\ tokens' \in {tokens, [id |-> nextResult, text |-> snapshot.text]}
           /\ (tokens' # tokens => snapshot # None)
           /\ nextResult' \in 1..MaxResult
           /\ editor' \in {None} \cup [id : 1..MaxResult, text : Text \cup {"garbled"}]
  <2>1. CachesAgree'
    BY <1>6 DEF CachesAgree
  <2>2. tokens' \in {None} \cup [id : 1..MaxResult, text : Text]
    BY <1>6 DEF TypeOK
  <2>3. TypeOK'
    BY <1>6, <2>2 DEF TypeOK
  <2>4. VersionsInv'
    BY <1>6 DEF VersionsInv, VersionTellsText
  <2>. QED
    BY <2>1, <2>3, <2>4
<1>7. ASSUME NEW c \in Config, DidChangeConfiguration(c) PROVE ServerInv'
  BY <1>6, <1>7 DEF DidChangeConfiguration, buffer, caches, TypeOK
<1>8. CASE SemanticTokensFull \/ SemanticTokensDelta
  <2>1. /\ UNCHANGED <<doc, newest, history, generation, job, snapshot, shown, checkOn>>
        /\ snapshot # None /\ nextResult < MaxResult /\ nextResult' = nextResult + 1
        /\ tokens' = [id |-> nextResult, text |-> snapshot.text]
    BY <1>8 DEF SemanticTokensFull, SemanticTokensDelta, NewResult, buffer
  <2>2. \/ editor' = editor
        \/ editor' = [id |-> nextResult, text |-> snapshot.text]
        \/ editor' = [id |-> nextResult, text |-> "garbled"]
    BY <1>8 DEF SemanticTokensFull, SemanticTokensDelta, Answer
  <2>3. snapshot.text \in Text /\ nextResult \in 1..MaxResult /\ nextResult' \in 1..MaxResult
    BY <2>1 DEF TypeOK
  <2>4. editor' \in {None} \cup [id : 1..MaxResult, text : Text \cup {"garbled"}]
    BY <2>2, <2>3 DEF TypeOK
  <2>. QED
    BY <1>6, <2>1, <2>3, <2>4 DEF TypeOK
<1>9. CASE UNCHANGED vars
  BY <1>6, <1>9 DEF vars, TypeOK
<1>. QED
  BY <1>2, <1>3, <1>5, <1>7, <1>8, <1>9 DEF Next

(***************************************************************************)
(* What is committed is the analysis of what the buffer then contains.     *)
(***************************************************************************)
LEMMA CommitStep ==
  ServerInv /\ [Next]_vars =>
    [snapshot' # snapshot /\ snapshot' # None =>
       doc # None /\ snapshot' = [version |-> doc.version, text |-> doc.text]]_vars
<1> SUFFICES ASSUME ServerInv, Next, snapshot' # snapshot, snapshot' # None
             PROVE  doc # None /\ snapshot' = [version |-> doc.version, text |-> doc.text]
  OBVIOUS
<1>1. PICK j \in Job : Commit(j)
  BY DEF Next, JobStep, DidOpen, DidChange, DidSave, DidClose, CheckChange, CheckSave, ReadSaved,
     Bump, Debounced, Enter, TooBig, Publish, DidChangeConfiguration, SemanticTokensFull,
     SemanticTokensDelta, caches
<1>2. /\ snapshot' = [version |-> job[j].version, text |-> job[j].text]
      /\ doc # None /\ doc.version = job[j].version /\ job[j].version # 0
  BY <1>1 DEF Commit, IsCurrent, ServerInv, VersionsInv, At, Bare
<1>. QED
  BY <1>2 DEF ServerInv, VersionsInv

(***************************************************************************)
(* An analysis that took long never replaces a newer one: for an editor    *)
(* that never uses a version number twice, the analysis that               *)
(* reanalyze_inner commits is that of the text in the buffer.              *)
(***************************************************************************)
THEOREM CommittedIsCurrent ==
  ASSUME ~NumbersRestart
  PROVE  Spec => CommitsAreCurrent
<1>1. Init => ServerInv
  BY ServerInit
<1>2. ServerInv /\ [Next]_vars => ServerInv'
  BY ~NumbersRestart, ServerStep
<1>3. ServerInv /\ [Next]_vars =>
        [snapshot' # snapshot /\ snapshot' # None =>
           doc # None /\ snapshot' = [version |-> doc.version, text |-> doc.text]]_vars
  BY CommitStep
<1>. QED
  BY <1>1, <1>2, <1>3, PTL DEF Spec, CommitsAreCurrent

(***************************************************************************)
(* Every field keeps its type.  No late job, close or change of the        *)
(* configuration leaves a cache of a closed buffer behind, or tokens of    *)
(* another analysis; and a version that is published names the text the    *)
(* diagnostics are about.                                                  *)
(***************************************************************************)
THEOREM CachesStayConsistent ==
  ASSUME ~NumbersRestart
  PROVE  Spec => [](TypeOK /\ CachesAgree /\ VersionTellsText)
<1>1. Init => ServerInv
  BY ServerInit
<1>2. ServerInv /\ [Next]_vars => ServerInv'
  BY ~NumbersRestart, ServerStep
<1>3. ServerInv => TypeOK /\ CachesAgree /\ VersionTellsText
  BY DEF ServerInv, VersionsInv
<1>. QED
  BY <1>1, <1>2, <1>3, PTL DEF Spec

-----------------------------------------------------------------------------
(* What holds for every editor, also one that uses version numbers again.  *)

\* Two results of one id are the same tokens, and no id is given out twice.
TokensInv ==
  /\ tokens # None => tokens.id < nextResult
  /\ editor # None => editor.id < nextResult
  /\ tokens # None /\ editor # None /\ tokens.id = editor.id => tokens.text = editor.text
  /\ TokensAreWhole

CacheInv ==
  /\ TypeOK
  /\ CachesAgree
  /\ \A j \in Job : job[j].stage \notin Bare => job[j].version # 0 /\ job[j].text \in Text
  /\ TokensInv

(***************************************************************************)
(* A job that changes, and what it may change beside itself.               *)
(***************************************************************************)
LEMMA CacheJobChange ==
  ASSUME CacheInv, NEW j \in Job, NEW r \in JobType, job' = [job EXCEPT ![j] = r],
         r.stage \notin Bare => r.version # 0 /\ r.text \in Text,
         generation' \in 0..MaxGeneration,
         shown' \in [version : 0..MaxVersion, text : Text \cup {None}],
         \/ UNCHANGED <<snapshot, tokens>> /\ (doc' = None => doc = None)
         \/ tokens' = None /\ snapshot' = None
         \/ /\ tokens' = None /\ snapshot' \in [version : Version, text : Text]
            /\ doc' # None,
         doc' \in {None} \cup [version : Version, text : Text],
         newest' \in 0..MaxVersion,
         history' \in [Version -> Text \cup {None}],
         UNCHANGED <<checkOn, nextResult, editor>>
  PROVE  CacheInv'
<1> USE ServerAssumption
<1>1. TypeOK'
  BY DEF CacheInv, TypeOK, JobType
<1>2. CachesAgree'
  BY DEF CacheInv, CachesAgree
<1>3. \A i \in Job : job'[i].stage \notin Bare => job'[i].version # 0 /\ job'[i].text \in Text
  BY DEF CacheInv, TypeOK
<1>4. TokensInv'
  BY DEF CacheInv, TokensInv, TokensAreWhole
<1>. QED
  BY <1>1, <1>2, <1>3, <1>4 DEF CacheInv

LEMMA CacheJobStep ==
  ASSUME CacheInv, NEW j \in Job, JobStep(j)
  PROVE  CacheInv'
<1> USE ServerAssumption
<1>1. /\ job \in [Job -> JobType] /\ Idle \in JobType
      /\ generation \in 0..MaxGeneration /\ newest \in 0..MaxVersion
      /\ history \in [Version -> Text \cup {None}]
      /\ doc \in {None} \cup [version : Version, text : Text]
      /\ shown \in [version : 0..MaxVersion, text : Text \cup {None}]
      /\ job[j].stage \notin Bare => job[j].version # 0 /\ job[j].text \in Text
  BY DEF CacheInv, TypeOK, JobType, Idle, Stage
<1>2. ASSUME NEW r \in JobType, job' = [job EXCEPT ![j] = r],
             r.stage \notin Bare => r.version # 0 /\ r.text \in Text,
             generation' \in 0..MaxGeneration,
             UNCHANGED <<buffer, checkOn, caches, shown>>
      PROVE  CacheInv'
  <2>1. UNCHANGED <<doc, newest, history, checkOn, snapshot, tokens, nextResult, editor, shown>>
    BY <1>2 DEF buffer, caches
  <2>. QED
    BY <1>1, <1>2, <2>1, CacheJobChange
<1>3. ASSUME NEW s \in Stage, Goto(j, s), s \notin Bare => job[j].stage \notin Bare,
             UNCHANGED <<buffer, generation, checkOn, caches, shown>>
      PROVE  CacheInv'
  <2>. DEFINE r == [job[j] EXCEPT !.stage = s]
  <2>1. /\ job' = [job EXCEPT ![j] = r] /\ r \in JobType /\ r.stage = s
        /\ r.version = job[j].version /\ r.text = job[j].text
    BY <1>1, <1>3 DEF Goto, JobType
  <2>. HIDE DEF r
  <2>. QED
    BY <1>1, <1>2, <1>3, <2>1
<1>4. ASSUME Leave(j), UNCHANGED <<buffer, generation, checkOn, caches, shown>> PROVE CacheInv'
  BY <1>1, <1>2, <1>4 DEF Leave, Idle, Bare
<1>5. CASE CheckChange(j) \/ CheckSave(j) \/ Debounced(j) \/ Enter(j) \/ TooBig(j)
  BY <1>3, <1>4, <1>5 DEF CheckChange, CheckSave, Debounced, Enter, TooBig, At, Stage, Bare
<1>6. CASE ReadSaved(j)
  <2>1. CASE doc = None
    BY <1>4, <1>6, <2>1 DEF ReadSaved
  <2>2. CASE doc # None
    <3>. DEFINE r == [stage |-> "bumpNow", version |-> doc.version, text |-> doc.text,
                      generation |-> 0]
    <3>1. /\ job' = [job EXCEPT ![j] = r]
          /\ UNCHANGED <<buffer, generation, checkOn, caches, shown>>
      BY <1>6, <2>2 DEF ReadSaved
    <3>2. doc \in [version : Version, text : Text]
      BY <1>1, <2>2
    <3>3. r \in JobType /\ r.version # 0 /\ r.text \in Text
      BY <3>2 DEF JobType, Stage, Version
    <3>. HIDE DEF r
    <3>. QED
      BY <1>1, <1>2, <3>1, <3>3
  <2>. QED
    BY <2>1, <2>2
<1>7. CASE Bump(j)
  <2>. DEFINE r == [job[j] EXCEPT !.stage = IF @ = "bump" THEN "debounce" ELSE "enter",
                                  !.generation = generation + 1]
  <2>1. /\ generation' = generation + 1 /\ generation + 1 \in 0..MaxGeneration
        /\ job[j].stage \in {"bump", "bumpNow"}
        /\ UNCHANGED <<buffer, checkOn, caches, shown>>
    BY <1>1, <1>7 DEF Bump
  <2>2. /\ job' = [job EXCEPT ![j] = r] /\ r \in JobType
        /\ r.version = job[j].version /\ r.text = job[j].text
    BY <1>1, <1>7, <2>1 DEF Bump, JobType, Stage
  <2>. HIDE DEF r
  <2>. QED
    BY <1>1, <1>2, <2>1, <2>2 DEF Bare
<1>8. CASE Commit(j)
  <2>1. CASE ~IsCurrent(j)
    BY <1>4, <1>8, <2>1 DEF Commit, caches
  <2>2. CASE IsCurrent(j)
    <3>. DEFINE r == [job[j] EXCEPT !.stage = "publish"]
    <3>1. /\ snapshot' = [version |-> job[j].version, text |-> job[j].text] /\ tokens' = None
          /\ job' = [job EXCEPT ![j].stage = "publish"] /\ job[j].stage = "analysing"
          /\ UNCHANGED <<doc, newest, history, generation, checkOn, nextResult, editor, shown>>
      BY <1>8, <2>2 DEF Commit, Goto, At, buffer
    <3>2. /\ job' = [job EXCEPT ![j] = r] /\ r \in JobType
          /\ r.version = job[j].version /\ r.text = job[j].text
      BY <1>1, <3>1 DEF JobType, Stage
    <3>3. job[j].version # 0 /\ job[j].text \in Text /\ job[j].version \in 0..MaxVersion
      BY <1>1, <3>1 DEF Bare, JobType
    <3>4. snapshot' \in [version : Version, text : Text] /\ doc' # None
      BY <2>2, <3>1, <3>3 DEF Version, IsCurrent
    <3>. HIDE DEF r
    <3>. QED
      BY <1>1, <3>1, <3>2, <3>3, <3>4, CacheJobChange
  <2>. QED
    BY <2>1, <2>2
<1>9. CASE Publish(j)
  <2>1. /\ job' = [job EXCEPT ![j] = Idle] /\ Idle.stage \in Bare
        /\ UNCHANGED <<doc, newest, history, generation, checkOn, snapshot, tokens, nextResult,
                       editor>>
    BY <1>9 DEF Publish, Leave, buffer, caches, Idle, Bare
  <2>2. shown' \in [version : 0..MaxVersion, text : Text \cup {None}]
    BY <1>1, <1>9 DEF Publish, JobType
  <2>. QED
    BY <1>1, <2>1, <2>2, CacheJobChange
<1>. QED
  BY <1>5, <1>6, <1>7, <1>8, <1>9 DEF JobStep

LEMMA CacheInit == Init => CacheInv
  BY ServerAssumption
  DEF Init, Idle, CacheInv, TypeOK, CachesAgree, TokensInv, TokensAreWhole, Version, Stage, Bare

LEMMA CacheStep == CacheInv /\ [Next]_vars => CacheInv'
<1> SUFFICES ASSUME CacheInv, [Next]_vars PROVE CacheInv'
  OBVIOUS
<1> USE ServerAssumption
<1>1. /\ doc \in {None} \cup [version : Version, text : Text]
      /\ newest \in 0..MaxVersion /\ generation \in 0..MaxGeneration
      /\ history \in [Version -> Text \cup {None}]
      /\ shown \in [version : 0..MaxVersion, text : Text \cup {None}]
  BY DEF CacheInv, TypeOK
<1>2. ASSUME NEW j \in Job, NEW t \in Text, DidOpen(j, t) \/ DidChange(j, t)
      PROVE  CacheInv'
  <2>1. PICK v \in Version, s \in {"bumpNow", "asked"} :
          /\ Buffer(v, t) /\ Begin(j, s, v, t)
          /\ UNCHANGED <<generation, checkOn, snapshot, tokens, nextResult, editor, shown>>
    BY <1>2 DEF DidOpen, DidChange, Buffer, caches
  <2>. DEFINE r == [stage |-> s, version |-> v, text |-> t, generation |-> 0]
  <2>2. r \in JobType /\ r.version # 0 /\ r.text \in Text
    BY DEF JobType, Stage, Version
  <2>3. job' = [job EXCEPT ![j] = r]
    BY <2>1 DEF Begin
  <2>4. /\ doc' \in [version : Version, text : Text] /\ newest' \in 0..MaxVersion
        /\ history' \in [Version -> Text \cup {None}]
    BY <1>1, <2>1 DEF Buffer, Version
  <2>5. /\ UNCHANGED <<snapshot, tokens>> /\ doc' # None
        /\ UNCHANGED <<checkOn, nextResult, editor>>
        /\ generation' \in 0..MaxGeneration
        /\ shown' \in [version : 0..MaxVersion, text : Text \cup {None}]
    BY <1>1, <2>1, <2>4 DEF Version
  <2>. HIDE DEF r
  <2>. QED
    BY <2>2, <2>3, <2>4, <2>5, CacheJobChange
<1>3. ASSUME NEW j \in Job, DidSave(j) \/ DidClose(j) PROVE CacheInv'
  <2>1. PICK s \in {"saved", "clear"} : Begin(j, s, 0, None)
    BY <1>3 DEF DidSave, DidClose
  <2>. DEFINE r == [stage |-> s, version |-> 0, text |-> None, generation |-> 0]
  <2>2. job' = [job EXCEPT ![j] = r] /\ r \in JobType /\ r.stage \in Bare
    BY <2>1 DEF Begin, JobType, Stage, Bare
  <2>3. /\ UNCHANGED <<newest, history, checkOn, nextResult, editor, shown>>
        /\ \/ UNCHANGED <<doc, generation, snapshot, tokens>>
           \/ doc' = None /\ generation' = 0 /\ snapshot' = None /\ tokens' = None
    BY <1>3 DEF DidSave, DidClose, buffer, caches
  <2>4. /\ generation' \in 0..MaxGeneration
        /\ doc' \in {None} \cup [version : Version, text : Text]
        /\ newest' \in 0..MaxVersion
        /\ history' \in [Version -> Text \cup {None}]
        /\ shown' \in [version : 0..MaxVersion, text : Text \cup {None}]
        /\ r.stage \notin Bare => r.version # 0 /\ r.text \in Text
        /\ \/ UNCHANGED <<snapshot, tokens>> /\ (doc' = None => doc = None)
           \/ tokens' = None /\ snapshot' = None
        /\ UNCHANGED <<checkOn, nextResult, editor>>
    BY <1>1, <2>2, <2>3
  <2>. HIDE DEF r
  <2>. QED
    BY <2>2, <2>4, CacheJobChange
<1>4. CASE /\ UNCHANGED <<doc, newest, history, generation, job, snapshot, tokens, nextResult,
                          editor, shown>>
           /\ checkOn' \in {"open", "change", "save"}
  BY <1>4 DEF CacheInv, TypeOK, CachesAgree, TokensInv, TokensAreWhole
<1>5. CASE SemanticTokensFull \/ SemanticTokensDelta
  <2>1. /\ UNCHANGED <<doc, newest, history, generation, job, snapshot, shown, checkOn>>
        /\ snapshot # None /\ nextResult < MaxResult /\ nextResult' = nextResult + 1
        /\ tokens' = [id |-> nextResult, text |-> snapshot.text]
    BY <1>5 DEF SemanticTokensFull, SemanticTokensDelta, NewResult, buffer
  <2>2. editor' \in {editor, [id |-> nextResult, text |-> snapshot.text]}
    BY <1>5 DEF SemanticTokensFull, SemanticTokensDelta, Answer, CacheInv, TokensInv
  <2>3. /\ snapshot.text \in Text /\ snapshot.text # "garbled"
        /\ nextResult \in 1..MaxResult /\ nextResult' \in 1..MaxResult
    BY <2>1 DEF CacheInv, TypeOK
  <2>4. TypeOK'
    BY <2>1, <2>2, <2>3 DEF CacheInv, TypeOK
  <2>5. CachesAgree'
    BY <2>1 DEF CacheInv, CachesAgree
  <2>6. TokensInv'
    <3>1. /\ tokens'.id = nextResult /\ tokens'.text = snapshot.text
          /\ editor' # None => \/ editor' = editor /\ editor'.id < nextResult
                               \/ editor'.id = nextResult /\ editor'.text = snapshot.text
      BY <2>1, <2>2 DEF CacheInv, TokensInv
    <3>2. editor' # None => editor'.id \in Nat /\ editor'.text # "garbled"
      BY <2>2, <2>3 DEF CacheInv, TypeOK, TokensInv, TokensAreWhole
    <3>. QED
      BY <2>1, <2>3, <3>1, <3>2 DEF TokensInv, TokensAreWhole
  <2>. QED
    BY <2>1, <2>4, <2>5, <2>6 DEF CacheInv
<1>6. ASSUME NEW j \in Job, JobStep(j) PROVE CacheInv'
  BY <1>6, CacheJobStep
<1>7. CASE UNCHANGED vars \/ \E c \in Config : DidChangeConfiguration(c)
  BY <1>4, <1>7 DEF vars, DidChangeConfiguration, buffer, caches, CacheInv, TypeOK
<1>. QED
  BY <1>2, <1>3, <1>5, <1>6, <1>7 DEF Next

(***************************************************************************)
(* The caches are those of an open buffer and agree with each other, for   *)
(* every editor: closing a document, a late job or a change of the         *)
(* configuration leaves none behind.                                       *)
(***************************************************************************)
THEOREM CachesAlwaysAgree == Spec => []CachesAgree
<1>1. CacheInv => CachesAgree
  BY DEF CacheInv
<1>. QED
  BY <1>1, CacheInit, CacheStep, PTL DEF Spec

(***************************************************************************)
(* A difference that the server sends always fits what the editor holds,   *)
(* though answers are cancelled and documents closed in between: an id     *)
(* that both know is of the same tokens.                                   *)
(***************************************************************************)
THEOREM TokensStayWhole == Spec => []TokensAreWhole
<1>1. CacheInv => TokensAreWhole
  BY DEF CacheInv, TokensInv
<1>. QED
  BY <1>1, CacheInit, CacheStep, PTL DEF Spec

(***************************************************************************)
(* Diagnostics that carry a version are of the text of that version.       *)
(***************************************************************************)
THEOREM DiagnosticsNameTheirText ==
  ASSUME ~NumbersRestart
  PROVE  Spec => []VersionTellsText
<1>1. ServerInv /\ [Next]_vars => ServerInv'
  BY ~NumbersRestart, ServerStep
<1>2. ServerInv => VersionTellsText
  BY DEF ServerInv, VersionsInv
<1>. QED
  BY <1>1, <1>2, ServerInit, PTL DEF Spec
==============================================================================
