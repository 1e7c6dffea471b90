------------------------------ MODULE ReportPage ------------------------------
(***************************************************************************)
(* The state of report.html: the script's globals, the copy of them in     *)
(* localStorage, and the asynchronous answers that assign to both.  A      *)
(* handler runs to its next await in one step, as a browser's event loop   *)
(* runs it; fetches, file reads and reloads interleave with the user.      *)
(*                                                                         *)
(* Data are abstracted to their provenance: an extraction is the file or   *)
(* the click it came from, a set of computed scores is the inputs it was   *)
(* computed from, a hardware or benchmark form is the number of its edit.  *)
(***************************************************************************)
EXTENDS Naturals, Sequences

CONSTANTS
  Slots,       \* score slots: a (sub-item, architecture) pair
  FromSource,  \* the slots scored from the source extract, the rest from HW
  Scores,      \* values the user may type into a slot
  Blank,       \* the null of a slot the user has emptied
  Unset,       \* no entry for the slot in EDITED
  Nothing,     \* the null of EXTRACT and COMPUTED, and of a useless answer
  Pending,     \* a fetch that has not settled
  Clicks,      \* extraction requests: server, local cache, imported file
  Readers,     \* browser extractions that may be under way at once
  ArchCount,   \* number of architectures, each with its own file picker
  MaxEdits,    \* bound on the edits of the two forms together, and on the picks of
               \* one architecture's directory
  MaxReloads,  \* bound on page reloads
  EarlyUser    \* whether the user acts before the page has finished loading

ASSUME PageAssumption ==
  /\ FromSource \subseteq Slots
  /\ ArchCount \in Nat \ {0} /\ MaxEdits \in Nat /\ MaxReloads \in Nat
  /\ EarlyUser \in BOOLEAN
  /\ Unset \notin Scores \cup {Blank}

VARIABLES
  extract, computed, edited,  \* EXTRACT, COMPUTED, EDITED
  hw, perf,                   \* HW and PERF
  picked,                     \* FILES_BY_ARCH
  store,                      \* localStorage
  load,                       \* how far the start-up chain has come
  fetched,                    \* answers of the two repository fetches
  calls,                      \* extraction requests and their progress
  reading,                    \* reading[x]: the file lists browser extraction x has read
  reloads

page == <<extract, computed, edited, hw, perf>>
vars == <<page, picked, store, load, fetched, calls, reading, reloads>>

-------------------------------------------------------------------------------
Archs == 1 .. ArchCount
Edits == 0 .. MaxEdits
Marks == Scores \cup {Blank, Unset}
Settled == {"ready", "failed"}

RepoFile == [from |-> "repo"]   \* measure_extract.json or measure_scores.json
DataPart == [from |-> "data"]   \* the extract inside measure_data.json
Answer(c) == [from |-> "call", click |-> c]
Browsed(lists) == [from |-> "browser", lists |-> lists]

UserExtracts == {Answer(c) : c \in Clicks}
                  \cup {Browsed(lists) : lists \in [Archs -> Edits]}
Extracts == UserExtracts \cup {RepoFile, DataPart}
UserScores == [from : {"recompute"}, extract : Extracts \cup {Nothing},
               hw : Edits, perf : Edits]
PartialReads == UNION {[1 .. n -> Edits] : n \in Archs}

\* null is neither data nor a fetch under way.
ASSUME NullAssumption ==
  Nothing \notin Extracts \cup UserScores \cup PartialReads \cup {Pending}

TypeOK ==
  /\ extract \in Extracts \cup {Nothing}
  /\ computed \in UserScores \cup {RepoFile, Nothing}
  /\ edited \in [Slots -> Marks]
  /\ hw \in Edits /\ perf \in Edits
  /\ picked \in [Archs -> Edits]
  /\ store \in [extract : UserExtracts \cup {Nothing},
                computed : UserScores \cup {Nothing},
                edited : [Slots -> Marks], hw : Edits, perf : Edits]
  /\ load \in {"data", "repo", "local"} \cup Settled
  /\ fetched \in [extract : {Pending, RepoFile, Nothing},
                  computed : {Pending, RepoFile, Nothing}]
  /\ calls \in [Clicks -> {"idle", "sent", "done"}]
  /\ reading \in [Readers -> PartialReads \cup {Nothing}]
  /\ reloads \in 0 .. MaxReloads

Init ==
  /\ extract = Nothing /\ computed = Nothing
  /\ edited = [s \in Slots |-> Unset]
  /\ hw = 0 /\ perf = 0
  /\ picked = [a \in Archs |-> 0]
  /\ store = [extract |-> Nothing, computed |-> Nothing,
              edited |-> [s \in Slots |-> Unset], hw |-> 0, perf |-> 0]
  /\ load = "data"
  /\ fetched = [extract |-> Pending, computed |-> Pending]
  /\ calls = [c \in Clicks |-> "idle"]
  /\ reading = [x \in Readers |-> Nothing]
  /\ reloads = 0

-------------------------------------------------------------------------------
(***************************************************************************)
(* Start-up: measure_data.json, then the repository's extract and scores   *)
(* where storage had none, then /api/local.  Whether to fetch is decided   *)
(* from the globals when the fetches are launched.                         *)
(***************************************************************************)
\* Mutant of DataArrives: the repository's files are fetched in any case.
DataArrivesRefetch ==
  /\ load = "data"
  /\ load' = "repo"
  /\ hw' = store.hw
  /\ fetched' = [extract |-> Pending, computed |-> Pending]
  /\ UNCHANGED <<extract, computed, edited, perf, picked, store, calls, reading,
                 reloads>>

DataArrives ==
  /\ load = "data"
  /\ load' = "repo"
  /\ hw' = store.hw
  /\ fetched' = [extract |-> IF extract = Nothing THEN Pending ELSE Nothing,
                 computed |-> IF computed = Nothing THEN Pending ELSE Nothing]
  /\ UNCHANGED <<extract, computed, edited, perf, picked, store, calls, reading,
                 reloads>>

DataFails ==
  /\ load = "data"
  /\ load' = "failed"
  /\ UNCHANGED <<page, picked, store, fetched, calls, reading, reloads>>

\* The user picks a measure_data.json by hand; nothing else is fetched then.
PickDataFile ==
  /\ load = "failed"
  /\ load' = "ready"
  /\ hw' = store.hw
  /\ UNCHANGED <<extract, computed, edited, perf, picked, store, fetched, calls,
                 reading, reloads>>

\* A missing, failing or malformed file settles as null.
RepoAnswers(file) ==
  /\ load = "repo" /\ fetched[file] = Pending
  /\ \E answer \in {RepoFile, Nothing} :
       fetched' = [fetched EXCEPT ![file] = answer]
  /\ UNCHANGED <<page, picked, store, load, calls, reading, reloads>>

\* Mutant of LoadRepo: the answers are saved as well.
LoadRepoSaves ==
  /\ load = "repo"
  /\ \A file \in {"extract", "computed"} : fetched[file] # Pending
  /\ extract' = IF fetched.extract = RepoFile THEN RepoFile ELSE extract
  /\ computed' = IF fetched.computed = RepoFile THEN RepoFile ELSE computed
  /\ store' = [store EXCEPT !.extract = extract', !.computed = computed']
  /\ load' = "local"
  /\ UNCHANGED <<edited, hw, perf, picked, fetched, calls, reading, reloads>>

\* The answers are assigned to the globals, and not to storage.
LoadRepo ==
  /\ load = "repo"
  /\ \A file \in {"extract", "computed"} : fetched[file] # Pending
  /\ extract' = IF fetched.extract = RepoFile THEN RepoFile
                ELSE IF extract = Nothing THEN DataPart ELSE extract
  /\ computed' = IF fetched.computed = RepoFile THEN RepoFile ELSE computed
  /\ load' = "local"
  /\ UNCHANGED <<edited, hw, perf, picked, store, fetched, calls, reading,
                 reloads>>

\* Mutant of LocalAnswers: when /api/local fails, start-up begins again.
LocalAnswersRetry ==
  /\ load = "local"
  /\ load' \in {"ready", "data"}
  /\ UNCHANGED <<page, picked, store, fetched, calls, reading, reloads>>

\* Both outcomes of /api/local route to the page of the URL's hash.
LocalAnswers ==
  /\ load = "local"
  /\ load' = "ready"
  /\ UNCHANGED <<page, picked, store, fetched, calls, reading, reloads>>

\* A reload keeps localStorage and drops the globals and what is in flight.
Reload ==
  /\ reloads < MaxReloads
  /\ reloads' = reloads + 1
  /\ extract' = store.extract /\ computed' = store.computed
  /\ edited' = store.edited
  /\ hw' = store.hw /\ perf' = store.perf
  /\ picked' = [a \in Archs |-> 0]
  /\ load' = "data"
  /\ fetched' = [extract |-> Pending, computed |-> Pending]
  /\ calls' = [c \in Clicks |-> IF calls[c] = "sent" THEN "done" ELSE calls[c]]
  /\ reading' = [x \in Readers |-> Nothing]
  /\ UNCHANGED store

-------------------------------------------------------------------------------
(***************************************************************************)
(* The forms.  The page can be used while it loads, except for the score   *)
(* cards, which are rendered from measure_data.json.                       *)
(***************************************************************************)
MayAct == EarlyUser \/ load \in Settled
HasData == load \in {"repo", "local", "ready"}

SetScore(s, v) ==
  /\ MayAct /\ HasData
  /\ edited' = [edited EXCEPT ![s] = v]
  /\ store' = [store EXCEPT !.edited = edited']
  /\ UNCHANGED <<extract, computed, hw, perf, picked, load, fetched, calls,
                 reading, reloads>>

SetHw ==
  /\ MayAct /\ hw + perf < MaxEdits
  /\ hw' = hw + 1
  /\ UNCHANGED <<extract, computed, edited, perf, picked, store, load, fetched,
                 calls, reading, reloads>>

SetPerf ==
  /\ MayAct /\ hw + perf < MaxEdits
  /\ perf' = perf + 1
  /\ UNCHANGED <<extract, computed, edited, hw, picked, store, load, fetched,
                 calls, reading, reloads>>

SaveForm(form, value) ==
  /\ MayAct
  /\ store' = [store EXCEPT ![form] = value]
  /\ UNCHANGED <<page, picked, load, fetched, calls, reading, reloads>>

ScoreAll == [from |-> "recompute", extract |-> extract, hw |-> hw, perf |-> perf]

\* recomputeScores, after saving the form of the page its button is on.
Recompute(saved) ==
  /\ MayAct
  /\ computed' = ScoreAll
  /\ store' = [store EXCEPT !.computed = ScoreAll,
                            !.hw = IF saved = "hw" THEN hw ELSE @,
                            !.perf = IF saved = "perf" THEN perf ELSE @]
  /\ UNCHANGED <<extract, edited, hw, perf, picked, load, fetched, calls,
                 reading, reloads>>

-------------------------------------------------------------------------------
(***************************************************************************)
(* Extraction.  Answers of the server and of the file reader come in any   *)
(* order; a browser extraction looks up the files picked for an            *)
(* architecture only when it has read those of the one before.             *)
(***************************************************************************)
Send(c) ==
  /\ MayAct /\ calls[c] = "idle"
  /\ calls' = [calls EXCEPT ![c] = "sent"]
  /\ UNCHANGED <<page, picked, store, load, fetched, reading, reloads>>

\* Mutant of Receive: the answer is not saved.
ReceiveUnsaved(c) ==
  /\ calls[c] = "sent"
  /\ calls' = [calls EXCEPT ![c] = "done"]
  /\ extract' = Answer(c)
  /\ UNCHANGED <<computed, edited, hw, perf, picked, store, load, fetched,
                 reading, reloads>>

Receive(c) ==
  /\ calls[c] = "sent"
  /\ calls' = [calls EXCEPT ![c] = "done"]
  /\ extract' = Answer(c)
  /\ store' = [store EXCEPT !.extract = extract']
  /\ UNCHANGED <<computed, edited, hw, perf, picked, load, fetched, reading,
                 reloads>>

\* An error status, a lost connection or a file that is not JSON: a log line.
Refuse(c) ==
  /\ calls[c] = "sent"
  /\ calls' = [calls EXCEPT ![c] = "done"]
  /\ UNCHANGED <<page, picked, store, load, fetched, reading, reloads>>

PickDir(a) ==
  /\ MayAct /\ picked[a] < MaxEdits
  /\ picked' = [picked EXCEPT ![a] = @ + 1]
  /\ UNCHANGED <<page, store, load, fetched, calls, reading, reloads>>

\* The button is never disabled: one extraction may begin while another reads.
StartReading(x) ==
  /\ MayAct /\ reading[x] = Nothing
  /\ reading' = [reading EXCEPT ![x] = <<picked[1]>>]
  /\ UNCHANGED <<page, picked, store, load, fetched, calls, reloads>>

ReadNext(x) ==
  /\ reading[x] # Nothing /\ Len(reading[x]) < ArchCount
  /\ reading' = [reading EXCEPT ![x] = Append(@, picked[Len(@) + 1])]
  /\ UNCHANGED <<page, picked, store, load, fetched, calls, reloads>>

FinishReading(x) ==
  /\ reading[x] # Nothing /\ Len(reading[x]) = ArchCount
  /\ extract' = Browsed(reading[x])
  /\ store' = [store EXCEPT !.extract = extract']
  /\ reading' = [reading EXCEPT ![x] = Nothing]
  /\ UNCHANGED <<computed, edited, hw, perf, picked, load, fetched, calls,
                 reloads>>

\* A picked file can no longer be read: the extraction is abandoned.
ReadingFails(x) ==
  /\ reading[x] # Nothing
  /\ reading' = [reading EXCEPT ![x] = Nothing]
  /\ UNCHANGED <<page, picked, store, load, fetched, calls, reloads>>

-------------------------------------------------------------------------------
StartUp == \/ DataArrives \/ DataFails
           \/ \E file \in {"extract", "computed"} : RepoAnswers(file)
           \/ LoadRepo \/ LocalAnswers

UseForms == \/ \E s \in Slots, v \in Scores \cup {Blank} : SetScore(s, v)
            \/ SetHw \/ SetPerf
            \/ SaveForm("hw", hw) \/ SaveForm("perf", perf)
            \/ \E saved \in {"none", "hw", "perf"} : Recompute(saved)

Extraction == \/ \E c \in Clicks : Send(c) \/ Receive(c) \/ Refuse(c)
              \/ \E a \in Archs : PickDir(a)
              \/ \E x \in Readers : \/ StartReading(x) \/ ReadNext(x)
                                    \/ FinishReading(x) \/ ReadingFails(x)

Next == StartUp \/ PickDataFile \/ Reload \/ UseForms \/ Extraction

\* A browser settles every fetch and runs the continuations of a promise.
Spec == Init /\ [][Next]_vars /\ WF_vars(StartUp)

-------------------------------------------------------------------------------
ScoredBy(c, s) ==
  /\ c # Nothing
  /\ c = RepoFile => s \in FromSource
  /\ c # RepoFile => IF s \in FromSource THEN c.extract # Nothing ELSE c.hw > 0

\* Mutant of Shown: computed scores come first.
ShownComputedFirst(s) ==
  IF ScoredBy(computed, s) THEN [by |-> "computed", value |-> computed]
  ELSE IF edited[s] # Unset THEN [by |-> "edit", value |-> edited[s]]
  ELSE [by |-> "data", value |-> Nothing]

\* getScore: a manual entry, else a computed score, else measure_data.json.
Shown(s) ==
  IF edited[s] # Unset THEN [by |-> "edit", value |-> edited[s]]
  ELSE IF ScoredBy(computed, s) THEN [by |-> "computed", value |-> computed]
  ELSE [by |-> "data", value |-> Nothing]

\* A slot the user has edited shows the user's entry from then on, through
\* recomputation, extraction, late answers and reloads, and the entry changes
\* only together with its saved copy ("manual scores take precedence" on the
\* summary page).
ManualScoreWins ==
  [][\A s \in Slots : edited[s] # Unset =>
        /\ Shown(s)'.by = "edit"
        /\ edited'[s] # edited[s] => store'.edited[s] # store.edited[s]]_vars

\* Once the page has loaded, what it shows is what a reload would bring back:
\* the globals equal their saved copies wherever there is one.  Start-up must
\* therefore not fetch over a saved value, and every answer must be saved.
MemoryFollowsStore ==
  load \in Settled =>
    /\ store.extract # Nothing => extract = store.extract
    /\ store.computed # Nothing => computed = store.computed

\* Scores the user recomputed are replaced only by recomputing: neither a late
\* answer of start-up nor a reload puts the repository's file in their place.
RecomputedScoresStay ==
  [][(computed \in UserScores) => (computed' \in UserScores)]_vars

\* Start-up always ends, in the report or in the form for picking the data
\* file, whichever of its fetches fail and however often it is restarted.
LoadSettles == []<>(load \in Settled)
===============================================================================
