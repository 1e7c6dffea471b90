------------------------------ MODULE MeasureStore ------------------------------
(* scripts/measure.py: the files the score commands and the server share.     *)
(* Commands (score, or local --extract --score) run in processes of their     *)
(* own, each request to the server in a thread.  Nothing is locked, and a     *)
(* file is rewritten in place: opened, which empties it, and then filled.  A  *)
(* command may stop at any step, and stops when it reads what is not JSON.    *)
(*                                                                            *)
(* A score is a member of a small set: what score_all computes of the inputs  *)
(* a command is given is the constant Computed.  All commands read the same   *)
(* --data and merge, those that do, into it.                                  *)
EXTENDS Naturals, SequencesExt

CONSTANTS
  Commands, Requests,
  Items,          \* an item of the report and an architecture: scores[code][arch]
  Inputs,         \* the extractions a command may be given
  Missing,        \* the one of them that stands for a file that is not there, {}
  Scores,
  Computed,       \* Computed[input][item]: what score_all makes of it, or None
  Original,       \* the scores of the measure_data.json of the repository
  None

ASSUME StoreAssumption ==
  /\ Computed \in [Inputs -> [Items -> Scores \cup {None}]] /\ None \notin Scores \cup Commands
  /\ Commands \cap Requests = {}
  /\ Original \in [Items -> [score : Scores, source : {"placeholder"}]]
  /\ Missing \in Inputs

VARIABLES
  first,      \* the document the first command finds
  file,       \* the content of measure_data.json and of computed_scores.json
  pc, input, merges,    \* each command: where it stands, and what it is given
  measure,    \* what a command or a request read of measure_data.json
  reply       \* each request: waiting, scored, or dropped by an exception

vars == <<first, file, pc, input, merges, measure, reply>>

Blank == [score |-> None, source |-> "none"]
\* {}, what a file that is not there is read as
NoDocument == [notes |-> FALSE, scores |-> [i \in Items |-> Blank], extract |-> None]
\* The document of the repository: patterns, weights, notes, and scores.
Repository == [notes |-> TRUE, scores |-> Original, extract |-> None]

Slot == [score : Scores, source : {"placeholder", "computed"}] \cup {Blank}
Document == [notes : BOOLEAN, scores : [Items -> Slot], extract : Inputs \cup {None}]

(* A file is absent, empty, holds a document, or is torn: a text followed by  *)
(* the end of a longer one.                                                   *)
Absent == [state |-> "absent", doc |-> NoDocument]
Empty == [state |-> "empty", doc |-> NoDocument]
Torn == [state |-> "torn", doc |-> NoDocument]
Whole(d) == [state |-> "whole", doc |-> d]
IsJson(content) == content.state \in {"absent", "whole"}

Running(c) == pc[c] \notin {"off", "done", "failed"}

-----------------------------------------------------------------------------
\* Mutant: a score that could not be computed is merged as well.
MergeBlanks(d, in) ==
  [notes |-> d.notes,
   scores |-> [i \in Items |-> [score |-> Computed[in][i], source |-> "computed"]],
   extract |-> IF in = Missing THEN d.extract ELSE in]
\* Mutant: the extraction is replaced by one that is not there.
MergeMissing(d, in) ==
  [notes |-> d.notes,
   scores |-> [i \in Items |-> IF Computed[in][i] = None THEN d.scores[i]
                               ELSE [score |-> Computed[in][i], source |-> "computed"]],
   extract |-> in]

(* merge_into_measure_data: the scores that could be computed replace those   *)
(* of the document, the others stay; so does the extraction it shows when     *)
(* there is none.                                                             *)
Merge(d, in) ==
  [notes |-> d.notes,
   scores |-> [i \in Items |-> IF Computed[in][i] = None THEN d.scores[i]
                               ELSE [score |-> Computed[in][i], source |-> "computed"]],
   extract |-> IF in = Missing THEN d.extract ELSE in]

\* What score_all writes to --out.
ScoresOf(in) ==
  [notes |-> FALSE, extract |-> None,
   scores |-> Merge(NoDocument, in).scores]

\* Mutant: a file that is not JSON is read as {} as well.
ReadAnything(content) == {content.doc}
\* _read_json: nothing is returned for a file that is not JSON, it raises.
ReadJson(content) == IF IsJson(content) THEN {content.doc} ELSE {}

(* Path.write_text, in two steps: open, which empties the file, and one write *)
(* of the whole text from the beginning.  Where another command has filled    *)
(* the file since this one emptied it, the end of a longer text stays.        *)
Opened == Empty
Filled(content, d) ==
  IF content \in {Empty, Whole(d)} THEN {Whole(d)} ELSE {Whole(d), Torn}

-----------------------------------------------------------------------------
Init ==
  /\ first \in {Repository, NoDocument}
  /\ file = [data |-> IF first = Repository THEN Whole(first) ELSE Absent, out |-> Absent]
  /\ pc = [c \in Commands |-> "off"]
  /\ input \in [Commands -> Inputs] /\ merges \in [Commands -> BOOLEAN]
  /\ measure = [p \in Commands \cup Requests |-> NoDocument]
  /\ reply = [r \in Requests |-> "none"]

Keep(c) == UNCHANGED <<first, input, merges, reply>>
Goes(c, place) == pc' = [pc EXCEPT ![c] = place]

\* cmd_score (and cmd_local after its extraction): reads the document, or fails.
ReadData(c) ==
  /\ pc[c] = "off"
  /\ IF ReadJson(file.data) = {}
     THEN Goes(c, "failed") /\ UNCHANGED measure
     ELSE \E d \in ReadJson(file.data) :
            Goes(c, "read") /\ measure' = [measure EXCEPT ![c] = d]
  /\ UNCHANGED file /\ Keep(c)

\* --out is written first, whether or not the scores are merged.
OpenOut(c) ==
  /\ pc[c] = "read"
  /\ Goes(c, "out") /\ file' = [file EXCEPT !.out = Opened]
  /\ UNCHANGED measure /\ Keep(c)
FillOut(c) ==
  /\ pc[c] = "out"
  /\ \E content \in Filled(file.out, ScoresOf(input[c])) : file' = [file EXCEPT !.out = content]
  /\ Goes(c, IF merges[c] THEN "merge" ELSE "done")
  /\ UNCHANGED measure /\ Keep(c)

\* --merge-data: into the document as it was read.
OpenData(c) ==
  /\ pc[c] = "merge"
  /\ Goes(c, "data") /\ file' = [file EXCEPT !.data = Opened]
  /\ UNCHANGED measure /\ Keep(c)
FillData(c) ==
  /\ pc[c] = "data"
  /\ \E content \in Filled(file.data, Merge(measure[c], input[c])) :
       file' = [file EXCEPT !.data = content]
  /\ Goes(c, "done")
  /\ UNCHANGED measure /\ Keep(c)

\* The process ends between two steps: interrupted, or the disk is full.
Stop(c) ==
  /\ Running(c) /\ Goes(c, "failed")
  /\ UNCHANGED <<file, measure>> /\ Keep(c)

\* do_POST of /api/score: the thread has parsed its payload.
Post(r) ==
  /\ reply[r] = "none" /\ reply' = [reply EXCEPT ![r] = "waiting"]
  /\ UNCHANGED <<first, file, pc, input, merges, measure>>
\* It reads the document outside any try: the exception ends the thread.
Answer(r) ==
  /\ reply[r] = "waiting"
  /\ IF ReadJson(file.data) = {}
     THEN reply' = [reply EXCEPT ![r] = "dropped"] /\ UNCHANGED measure
     ELSE \E d \in ReadJson(file.data) :
            /\ reply' = [reply EXCEPT ![r] = "scored"]
            /\ measure' = [measure EXCEPT ![r] = d]
  /\ UNCHANGED <<first, file, pc, input, merges>>

Next ==
  \/ \E c \in Commands : \/ ReadData(c) \/ OpenOut(c) \/ FillOut(c)
                         \/ OpenData(c) \/ FillData(c) \/ Stop(c)
  \/ \E r \in Requests : Post(r) \/ Answer(r)

Spec == Init /\ [][Next]_vars

-----------------------------------------------------------------------------
TypeOK ==
  /\ first \in Document
  /\ file \in [{"data", "out"} -> [state : {"absent", "empty", "torn", "whole"},
                               doc : Document]]
  /\ pc \in [Commands -> {"off", "read", "out", "merge", "data", "done", "failed"}]
  /\ input \in [Commands -> Inputs] /\ merges \in [Commands -> BOOLEAN]
  /\ measure \in [Commands \cup Requests -> Document]
  /\ reply \in [Requests -> {"none", "waiting", "scored", "dropped"}]

\* Reads that returned.
Readers == {c \in Commands : pc[c] \in {"read", "out", "merge", "data"}}
           \cup {r \in Requests : reply[r] = "scored"}

(* A document keeps the notes and the patterns of the first one, and every    *)
(* score that was never computed.                                             *)
Descends(d) ==
  /\ d.notes = first.notes
  /\ \A i \in Items : d.scores[i].source # "computed" => d.scores[i] = first.scores[i]

\* "Without dropping notes": what is read as JSON, by a command or a request,
\* holds all the notes and placeholders, however commands overlap, stop and
\* find a file that another has half written.  A request is scored with the
\* patterns of the document, or not at all.
NotesKept ==
  /\ IsJson(file.data) => Descends(file.data.doc)
  /\ \A p \in Readers : Descends(measure[p])

\* What commands run one after the other, in that order, make of the first document.
LatestOf(seq, Test(_)) == LET n == SelectLastInSeq(seq, Test) IN IF n = 0 THEN None ELSE seq[n]
InTurn(seq) ==
  LET scorer(i) == LatestOf(seq, LAMBDA c : Computed[input[c]][i] # None)
      extractor == LatestOf(seq, LAMBDA c : input[c] # Missing)
  IN [notes |-> first.notes,
      scores |-> [i \in Items |-> IF scorer(i) = None THEN first.scores[i]
                                  ELSE [score |-> Computed[input[scorer(i)]][i],
                                        source |-> "computed"]],
      extract |-> IF extractor = None THEN first.extract ELSE input[extractor]]

\* Commands that overlap may lose each other's scores, and may leave a file that
\* is no JSON; but a document that can be read is the work of some of the
\* commands in turn, never a mixture of two.
WrittenInTurn ==
  file.data.state = "whole" =>
    \E S \in SUBSET {c \in Commands : merges[c] /\ pc[c] \in {"data", "done", "failed"}} :
    \E seq \in SetToSeqs(S) : file.data.doc = InTurn(seq)
=============================================================================
