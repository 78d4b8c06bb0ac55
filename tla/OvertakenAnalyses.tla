--------------------------- MODULE OvertakenAnalyses ---------------------------
(***************************************************************************)
(* LanguageServer with a history of which analyses are late: an analysis   *)
(* that is under way when another is asked for has been overtaken, also    *)
(* when the document was closed and opened again in between.               *)
(***************************************************************************)
EXTENDS LanguageServer

VARIABLE overtaken  \* the jobs whose analysis, still under way, is late

Late == {j \in Job : At(j, "analysing")}
Asks == \E j \in Job : Bump(j)

OvertakenInit == Init /\ overtaken = {}
OvertakenNext == /\ Next
                 /\ overtaken' = IF Asks THEN Late ELSE {j \in overtaken : job'[j] = job[j]}
OvertakenSpec == OvertakenInit /\ [][OvertakenNext]_<<vars, overtaken>>

(* "A slow pass on older text must not publish or cache diagnostics": the
   analysis of a text that has been replaced is dropped when it is over and
   another one was asked for while it was under way.                         *)
LateAnalysesDropped ==
    [][\A j \in overtaken : job'[j].stage = "publish" => job[j].text = doc.text]_<<vars, overtaken>>
===============================================================================
