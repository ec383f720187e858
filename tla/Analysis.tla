------------------------------- MODULE Analysis -------------------------------
(***************************************************************************)
(* "words frequency analyze": the words of a text are counted, and the     *)
(* counts written to a new file named after the analysis.  The name is the *)
(* minute and a random number below 10000, and the file is opened whether  *)
(* it is new or not: here are processes that have come to the same name.   *)
(***************************************************************************)
EXTENDS Naturals, Sequences

CONSTANT Process

VARIABLES
  analysis, \* where each process is: "none", "reading", "opening",
            \* "truncating", "writing", "written" or "failed"
  file,     \* the documents in the file, by the process that wrote them
  cleared   \* the processes whose document another one has truncated

analysisVars == <<analysis, file, cleared>>

AnalysisTypeOK ==
  /\ analysis \in [Process -> {"none", "reading", "opening", "truncating", "writing",
                               "written", "failed"}]
  /\ file \in Seq(Process)
  /\ cleared \subseteq Process

AnalysisInit ==
  /\ analysis = [p \in Process |-> "none"]
  /\ file = <<>>
  /\ cleared = {}

Advance(p, from, to) == analysis[p] = from /\ analysis' = [analysis EXCEPT ![p] = to]

-------------------------------------------------------------------------------
StartAnalysis(p) ==
  /\ Advance(p, "none", "reading")
  /\ UNCHANGED <<file, cleared>>

(* The text is read and its words are counted, an empty text as well. *)
ReadText(p) ==
  /\ Advance(p, "reading", "opening")
  /\ UNCHANGED <<file, cleared>>

(* openf.Open creates the file if it is not there ... *)
OpenFile(p) ==
  /\ Advance(p, "opening", "truncating")
  /\ UNCHANGED <<file, cleared>>

(* ... and truncates it. *)
Truncate(p) ==
  /\ Advance(p, "truncating", "writing")
  /\ cleared' = cleared \cup {file[i] : i \in DOMAIN file}
  /\ file' = <<>>

(* Bug: without O_APPEND each process writes at the offset it has sought. *)
WriteFileFromStart(p) ==
  /\ Advance(p, "writing", "written")
  /\ file' = <<p>>
  /\ UNCHANGED cleared

(* O_APPEND: behind what is there by now, for all the Seek before it. *)
WriteFile(p) ==
  /\ Advance(p, "writing", "written")
  /\ file' = Append(file, p)
  /\ UNCHANGED cleared

(* The text cannot be read or has a word over 64 KB; the file cannot be    *)
(* opened, truncated or written.                                           *)
AnalysisFails(p) ==
  /\ \E place \in {"reading", "opening", "truncating", "writing"} :
       Advance(p, place, "failed")
  /\ UNCHANGED <<file, cleared>>

Analyze(p) ==
  \/ StartAnalysis(p) \/ ReadText(p) \/ OpenFile(p) \/ Truncate(p) \/ WriteFile(p)
  \/ AnalysisFails(p)

-------------------------------------------------------------------------------
(* The counts a process has written are in the file until another process  *)
(* of that name truncates them: two that have truncated before either      *)
(* writes leave both documents, one behind the other.                      *)
AnalysesAreKept ==
  \A p \in Process :
     analysis[p] = "written" => p \in cleared \/ \E i \in DOMAIN file : file[i] = p
===============================================================================
