---------------------------- MODULE ReportPageProofs ---------------------------
(***************************************************************************)
(* The theorems about ReportPage, for any slots, any number of clicks,     *)
(* architectures, edits and reloads.                                       *)
(*                                                                         *)
(* Manual scores are saved in the step that makes them, whatever is under  *)
(* way.  What the page holds after it has loaded is what storage has       *)
(* because start-up asks only for what storage lacks, and because nothing  *)
(* that could save is under way while it does (Quiet); for this the user   *)
(* must have waited for the page to load.                                  *)
(***************************************************************************)
EXTENDS ReportPage, SequenceTheorems, TLAPS

\* Every manual score is saved.
EditsSaved == edited = store.edited

\* Nothing is under way that would save while the page loads.
Quiet ==
  load \notin Settled =>
    (\A x \in Readers : reading[x] = Nothing) /\ \A c \in Clicks : calls[c] # "sent"

\* Start-up begins with what was saved, and asks only for what was not.
AsSaved == extract = store.extract /\ computed = store.computed
AsksForMissing ==
  \A file \in {"extract", "computed"} :
    fetched[file] # Nothing => store[file] = Nothing
StartsFromStore ==
  /\ load = "data" => AsSaved
  /\ load = "repo" => AsSaved /\ AsksForMissing

\* From then on the globals differ from storage only where it has nothing.
KeepsSaved ==
  /\ store.extract # Nothing => extract = store.extract
  /\ store.computed # Nothing => computed = store.computed
FollowsStore == load \notin {"data", "repo"} => KeepsSaved

\* Recomputed scores are saved.
RecomputedSaved == computed \in UserScores => computed = store.computed

\* The inductive invariant of a page whose user waits.
PageInv ==
  TypeOK /\ Quiet /\ StartsFromStore /\ FollowsStore /\ RecomputedSaved

-------------------------------------------------------------------------------
(***************************************************************************)
(* Types.                                                                  *)
(***************************************************************************)
\* The file lists read are as many as their length says.
LEMMA ListsRead ==
  ASSUME NEW lists \in PartialReads
  PROVE  /\ Len(lists) \in Archs /\ lists \in [1 .. Len(lists) -> Edits]
         /\ lists \in Seq(Edits)
<1>1. PICK n \in Archs : lists \in [1 .. n -> Edits]
  BY DEF PartialReads
<1>2. n \in Nat
  BY <1>1, PageAssumption DEF Archs
<1>3. lists \in Seq(Edits) /\ Len(lists) = n
  BY <1>1, <1>2
<1>4. QED
  BY <1>1, <1>3

\* One more is read while there are architectures left ...
LEMMA OneMoreRead ==
  ASSUME NEW lists \in PartialReads, NEW e \in Edits, Len(lists) < ArchCount
  PROVE  Append(lists, e) \in PartialReads
<1> DEFINE n == Len(lists)
<1>1. n \in 1 .. ArchCount /\ n + 1 \in Archs /\ lists \in Seq(Edits)
  BY ListsRead, PageAssumption DEF Archs
<1>2. Append(lists, e) \in Seq(Edits) /\ Len(Append(lists, e)) = n + 1
  BY <1>1
<1>3. Append(lists, e) \in [1 .. n + 1 -> Edits]
  BY <1>2, LenProperties
<1>4. QED
  BY <1>1, <1>3 DEF PartialReads

\* ... and then there is one for each.
LEMMA AllRead ==
  ASSUME NEW lists \in PartialReads, Len(lists) = ArchCount
  PROVE  Browsed(lists) \in UserExtracts
<1>1. lists \in [Archs -> Edits]
  BY ListsRead DEF Archs
<1>2. QED
  BY <1>1 DEF UserExtracts

\* What recomputing produces are the user's scores.
LEMMA ScoreType == TypeOK => ScoreAll \in UserScores
BY DEF TypeOK, ScoreAll, UserScores

\* The repository's scores are not the user's.
LEMMA RepoIsNotUser == RepoFile \notin UserScores /\ Nothing \notin UserScores
<1>1. RepoFile.from = "repo"
  BY DEF RepoFile
<1>2. \A x \in UserScores : x.from = "recompute"
  BY DEF UserScores
<1>3. QED
  BY <1>1, <1>2, NullAssumption

\* The page starts empty.
LEMMA InitTypes == Init => TypeOK
BY PageAssumption DEF Init, TypeOK, Marks, Edits

\* Start-up and the reload keep the types.
LEMMA StartUpTypes == TypeOK /\ (StartUp \/ PickDataFile \/ Reload) => TypeOK'
<1> SUFFICES ASSUME TypeOK, StartUp \/ PickDataFile \/ Reload PROVE TypeOK'
  OBVIOUS
<1> USE DEF TypeOK
<1>1. CASE DataArrives \/ DataFails \/ PickDataFile \/ LocalAnswers
  BY <1>1 DEF DataArrives, DataFails, PickDataFile, LocalAnswers, page, Settled
<1>2. ASSUME NEW file \in {"extract", "computed"}, RepoAnswers(file)
      PROVE  TypeOK'
  BY <1>2 DEF RepoAnswers, page
<1>3. CASE LoadRepo
  BY <1>3 DEF LoadRepo, Extracts
<1>4. CASE Reload
  BY <1>4, PageAssumption DEF Reload, Extracts, Edits
<1>5. QED
  BY <1>1, <1>2, <1>3, <1>4 DEF StartUp

\* The forms do.
LEMMA FormTypes == TypeOK /\ UseForms => TypeOK'
<1> SUFFICES ASSUME TypeOK, UseForms PROVE TypeOK'
  OBVIOUS
<1>1. ASSUME NEW s \in Slots, NEW v \in Scores \cup {Blank}, SetScore(s, v)
      PROVE  TypeOK'
  BY <1>1 DEF TypeOK, SetScore, Marks
<1>2. CASE SetHw \/ SetPerf
  BY <1>2, PageAssumption DEF TypeOK, SetHw, SetPerf, Edits
<1>3. CASE SaveForm("hw", hw) \/ SaveForm("perf", perf)
  BY <1>3 DEF TypeOK, SaveForm, page
<1>4. ASSUME NEW saved \in {"none", "hw", "perf"}, Recompute(saved)
      PROVE  TypeOK'
  BY <1>4, ScoreType DEF TypeOK, Recompute
<1>5. QED
  BY <1>1, <1>2, <1>3, <1>4 DEF UseForms

\* And so do extractions.
LEMMA ExtractionTypes == TypeOK /\ Extraction => TypeOK'
<1> SUFFICES ASSUME TypeOK, Extraction PROVE TypeOK'
  OBVIOUS
<1>1. ASSUME NEW c \in Clicks, Send(c) \/ Receive(c) \/ Refuse(c)
      PROVE  TypeOK'
  BY <1>1 DEF TypeOK, Send, Receive, Refuse, page, UserExtracts, Extracts
<1>2. ASSUME NEW a \in Archs, PickDir(a) PROVE TypeOK'
  BY <1>2, PageAssumption DEF TypeOK, PickDir, page, Edits
<1>3. ASSUME NEW x \in Readers, StartReading(x) PROVE TypeOK'
  <2>1. 1 \in Archs /\ picked[1] \in Edits
    BY PageAssumption DEF Archs, TypeOK
  <2>2. <<picked[1]>> \in [1 .. 1 -> Edits]
    BY <2>1
  <2>3. <<picked[1]>> \in PartialReads
    BY <2>1, <2>2 DEF PartialReads
  <2>4. QED
    BY <1>3, <2>3 DEF TypeOK, StartReading, page
<1>4. ASSUME NEW x \in Readers, ReadNext(x) PROVE TypeOK'
  <2> DEFINE lists == reading[x]
             longer == Append(lists, picked[Len(lists) + 1])
  <2>1. lists \in PartialReads /\ Len(lists) < ArchCount
    BY <1>4 DEF TypeOK, ReadNext
  <2>2. Len(lists) + 1 \in Archs
    BY <2>1, ListsRead, PageAssumption DEF Archs
  <2>3. longer \in PartialReads
    BY <1>4, <2>1, <2>2, OneMoreRead DEF TypeOK
  <2>4. reading' = [reading EXCEPT ![x] = longer]
    BY <1>4 DEF ReadNext, TypeOK
  <2>5. QED
    BY <1>4, <2>3, <2>4 DEF TypeOK, ReadNext, page
<1>5. ASSUME NEW x \in Readers, FinishReading(x) PROVE TypeOK'
  <2>1. extract' \in UserExtracts
    BY <1>5, AllRead DEF TypeOK, FinishReading
  <2>2. QED
    BY <1>5, <2>1 DEF TypeOK, FinishReading, Extracts
<1>6. ASSUME NEW x \in Readers, ReadingFails(x) PROVE TypeOK'
  BY <1>6 DEF TypeOK, ReadingFails, page
<1>7. QED
  BY <1>1, <1>2, <1>3, <1>4, <1>5, <1>6 DEF Extraction

LEMMA NextTypes == TypeOK /\ [Next]_vars => TypeOK'
<1>1. TypeOK /\ UNCHANGED vars => TypeOK'
  BY DEF TypeOK, vars, page
<1>2. QED
  BY <1>1, StartUpTypes, FormTypes, ExtractionTypes DEF Next

\* The globals, their copies and what is under way keep their types.
THEOREM TypeCorrect == Spec => []TypeOK
BY InitTypes, NextTypes, PTL DEF Spec

-------------------------------------------------------------------------------
(***************************************************************************)
(* Manual scores.                                                          *)
(***************************************************************************)
\* A step changes manual scores and their copies together.
LEMMA NextEdits ==
  ASSUME TypeOK, EditsSaved, [Next]_vars
  PROVE  /\ EditsSaved'
         /\ \A s \in Slots : edited[s] # Unset => edited'[s] # Unset
<1> USE DEF EditsSaved
<1>1. CASE StartUp
  BY <1>1 DEF StartUp, DataArrives, DataFails, RepoAnswers, LoadRepo,
     LocalAnswers, page
<1>2. CASE PickDataFile \/ Reload
  BY <1>2 DEF PickDataFile, Reload
<1>3. ASSUME NEW s \in Slots, NEW v \in Scores \cup {Blank}, SetScore(s, v)
      PROVE  /\ EditsSaved'
             /\ \A t \in Slots : edited[t] # Unset => edited'[t] # Unset
  BY <1>3, PageAssumption DEF TypeOK, SetScore
<1>4. CASE UseForms /\ UNCHANGED edited
  BY <1>4 DEF TypeOK, UseForms, SetScore, SetHw, SetPerf, SaveForm, Recompute
<1>5. CASE Extraction
  BY <1>5 DEF TypeOK, Extraction, Send, Receive, Refuse, PickDir, StartReading,
     ReadNext, FinishReading, ReadingFails, page
<1>6. CASE UNCHANGED vars
  BY <1>6 DEF vars, page
<1>7. UseForms => UNCHANGED edited
                  \/ \E s \in Slots, v \in Scores \cup {Blank} : SetScore(s, v)
  BY DEF UseForms, SetHw, SetPerf, SaveForm, Recompute, page
<1>8. QED
  BY <1>1, <1>2, <1>3, <1>4, <1>5, <1>6, <1>7 DEF Next

\* A slot with a manual score shows one for ever, and it changes only together
\* with its saved copy: whatever answers late, and although the user did not wait.
THEOREM ManualScoresWin == Spec => ManualScoreWins
<1>1. Init => TypeOK /\ EditsSaved
  BY InitTypes DEF Init, EditsSaved
<1>2. TypeOK /\ EditsSaved /\ [Next]_vars => TypeOK' /\ EditsSaved'
  BY NextTypes, NextEdits
<1>3. TypeOK /\ EditsSaved /\ [Next]_vars =>
        [\A s \in Slots : edited[s] # Unset =>
           /\ Shown(s)'.by = "edit"
           /\ edited'[s] # edited[s] => store'.edited[s] # store.edited[s]]_vars
  <2>1. SUFFICES ASSUME TypeOK, EditsSaved, [Next]_vars, NEW s \in Slots,
                        edited[s] # Unset
                 PROVE  /\ Shown(s)'.by = "edit"
                        /\ edited'[s] # edited[s] =>
                             store'.edited[s] # store.edited[s]
    OBVIOUS
  <2>2. EditsSaved' /\ edited'[s] # Unset
    BY <2>1, NextEdits
  <2>3. Shown(s)' = [by |-> "edit", value |-> edited'[s]]
    BY <2>2 DEF Shown
  <2>4. QED
    BY <2>1, <2>2, <2>3 DEF EditsSaved
<1>4. QED
  BY <1>1, <1>2, <1>3, PTL DEF Spec, ManualScoreWins

-------------------------------------------------------------------------------
(***************************************************************************)
(* What a page whose user waits holds.                                     *)
(***************************************************************************)
\* It starts with nothing.
LEMMA InitPage == Init => PageInv
<1>1. SUFFICES ASSUME Init PROVE PageInv
  OBVIOUS
<1>2. TypeOK
  BY <1>1, InitTypes
<1>3. Quiet /\ StartsFromStore /\ FollowsStore
  BY <1>1 DEF Init, Quiet, StartsFromStore, FollowsStore, AsSaved
<1>4. RecomputedSaved
  BY <1>1 DEF Init, RecomputedSaved
<1>5. QED
  BY <1>2, <1>3, <1>4 DEF PageInv

\* Start-up assigns only what storage lacks.
LEMMA StartUpPage ==
  ASSUME PageInv, StartUp \/ PickDataFile
  PROVE  Quiet' /\ StartsFromStore' /\ FollowsStore' /\ RecomputedSaved'
<1> DEFINE Goal == Quiet' /\ StartsFromStore' /\ FollowsStore' /\ RecomputedSaved'
<1> USE DEF PageInv, Quiet, StartsFromStore, FollowsStore, RecomputedSaved,
            AsSaved, KeepsSaved, Settled
<1>1. CASE DataArrives
  BY <1>1, NullAssumption DEF DataArrives, AsksForMissing
<1>2. CASE DataFails \/ PickDataFile \/ LocalAnswers
  BY <1>2 DEF DataFails, PickDataFile, LocalAnswers, page
<1>3. ASSUME NEW file \in {"extract", "computed"}, RepoAnswers(file)
      PROVE  Goal
  <2>1. AsksForMissing'
    BY <1>3, NullAssumption DEF RepoAnswers, AsksForMissing, TypeOK
  <2>2. QED
    BY <1>3, <2>1 DEF RepoAnswers, page
<1>4. CASE LoadRepo
  <2>1. /\ fetched.extract = RepoFile => store.extract = Nothing
        /\ fetched.computed = RepoFile => store.computed = Nothing
    BY <1>4, NullAssumption DEF LoadRepo, AsksForMissing, Extracts
  <2>2. KeepsSaved'
    BY <1>4, <2>1 DEF LoadRepo
  <2>3. RecomputedSaved'
    BY <1>4, <2>1, RepoIsNotUser DEF LoadRepo
  <2>4. QED
    BY <1>4, <2>2, <2>3 DEF LoadRepo
<1>5. QED
  BY <1>1, <1>2, <1>3, <1>4 DEF StartUp

\* The forms are used when the page has loaded, and recomputed scores are saved.
LEMMA FormPage ==
  ASSUME EarlyUser = FALSE, PageInv, UseForms
  PROVE  Quiet' /\ StartsFromStore' /\ FollowsStore' /\ RecomputedSaved'
<1> DEFINE Goal == Quiet' /\ StartsFromStore' /\ FollowsStore' /\ RecomputedSaved'
<1> USE DEF PageInv, Quiet, StartsFromStore, FollowsStore, RecomputedSaved,
            KeepsSaved, Settled, MayAct
<1>1. ASSUME NEW s \in Slots, NEW v \in Scores \cup {Blank}, SetScore(s, v)
      PROVE  Goal
  BY <1>1 DEF TypeOK, SetScore
<1>2. CASE SetHw \/ SetPerf
  BY <1>2 DEF SetHw, SetPerf
<1>3. CASE SaveForm("hw", hw) \/ SaveForm("perf", perf)
  BY <1>3 DEF TypeOK, SaveForm, page
<1>4. ASSUME NEW saved \in {"none", "hw", "perf"}, Recompute(saved)
      PROVE  Goal
  BY <1>4 DEF TypeOK, Recompute
<1>5. QED
  BY <1>1, <1>2, <1>3, <1>4 DEF UseForms

\* Extractions start when the page has loaded, and are saved when they end.
LEMMA ExtractionPage ==
  ASSUME EarlyUser = FALSE, PageInv, Extraction
  PROVE  Quiet' /\ StartsFromStore' /\ FollowsStore' /\ RecomputedSaved'
<1> DEFINE Goal == Quiet' /\ StartsFromStore' /\ FollowsStore' /\ RecomputedSaved'
<1> USE DEF PageInv, Quiet, StartsFromStore, FollowsStore, RecomputedSaved,
            KeepsSaved, Settled, MayAct
<1>1. ASSUME NEW c \in Clicks, Send(c) \/ Receive(c) \/ Refuse(c)
      PROVE  Goal
  BY <1>1 DEF TypeOK, Send, Receive, Refuse, page
<1>2. ASSUME NEW a \in Archs, PickDir(a) PROVE Goal
  BY <1>2 DEF PickDir, page
<1>3. ASSUME NEW x \in Readers, StartReading(x) \/ ReadNext(x) \/ ReadingFails(x)
      PROVE  Goal
  BY <1>3 DEF StartReading, ReadNext, ReadingFails, page
<1>4. ASSUME NEW x \in Readers, FinishReading(x) PROVE Goal
  BY <1>4 DEF TypeOK, FinishReading
<1>5. QED
  BY <1>1, <1>2, <1>3, <1>4 DEF Extraction

\* A reload begins with what was saved, and drops what was under way.
LEMMA ReloadPage ==
  ASSUME PageInv, Reload
  PROVE  Quiet' /\ StartsFromStore' /\ FollowsStore' /\ RecomputedSaved'
BY DEF PageInv, TypeOK, Reload, Quiet, StartsFromStore, FollowsStore,
   RecomputedSaved, AsSaved

\* Every step of a page whose user waits preserves the invariant.
LEMMA NextPage ==
  ASSUME EarlyUser = FALSE, PageInv, [Next]_vars
  PROVE  PageInv'
<1>1. TypeOK'
  BY NextTypes DEF PageInv
<1>2. CASE UNCHANGED vars
  BY <1>1, <1>2 DEF PageInv, vars, page, Quiet, StartsFromStore, FollowsStore,
     RecomputedSaved, AsSaved, KeepsSaved, AsksForMissing
<1>3. CASE Next
  BY <1>1, <1>3, StartUpPage, FormPage, ExtractionPage, ReloadPage
     DEF Next, PageInv
<1>4. QED
  BY <1>2, <1>3

\* Recomputed scores are replaced only by recomputing: start-up has none to put
\* in their place, and a reload has saved ones.
LEMMA RecomputedStep ==
  ASSUME PageInv, [Next]_vars, computed \in UserScores
  PROVE  computed' \in UserScores
<1>1. ASSUME LoadRepo PROVE computed' = computed
  <2>1. fetched.computed # RepoFile
    BY <1>1, RepoIsNotUser, NullAssumption DEF PageInv, StartsFromStore, AsSaved,
       AsksForMissing, LoadRepo, Extracts
  <2>2. QED
    BY <1>1, <2>1 DEF LoadRepo
<1>2. ASSUME Reload PROVE computed' = computed
  BY <1>2 DEF PageInv, RecomputedSaved, Reload
<1>3. CASE StartUp \/ PickDataFile \/ Reload
  BY <1>1, <1>2, <1>3 DEF StartUp, DataArrives, DataFails, PickDataFile,
     RepoAnswers, LocalAnswers, page
<1>4. CASE UseForms
  BY <1>4, ScoreType DEF PageInv, UseForms, SetScore, SetHw, SetPerf, SaveForm,
     Recompute, page
<1>5. CASE Extraction \/ UNCHANGED vars
  BY <1>5 DEF Extraction, Send, Receive, Refuse, PickDir, StartReading, ReadNext,
     FinishReading, ReadingFails, vars, page
<1>6. QED
  BY <1>3, <1>4, <1>5 DEF Next

\* When the user waits for the page to load, it then always shows what a reload
\* would bring back.
THEOREM MemoryIsSaved ==
  ASSUME EarlyUser = FALSE
  PROVE  Spec => []MemoryFollowsStore
<1>1. Init => PageInv
  BY InitPage
<1>2. PageInv /\ [Next]_vars => PageInv'
  BY NextPage
<1>3. PageInv => MemoryFollowsStore
  BY DEF PageInv, FollowsStore, KeepsSaved, MemoryFollowsStore, Settled
<1>4. QED
  BY <1>1, <1>2, <1>3, PTL DEF Spec

\* And scores the user has recomputed are never replaced by the repository's.
THEOREM RecomputedScoresRemain ==
  ASSUME EarlyUser = FALSE
  PROVE  Spec => RecomputedScoresStay
<1>1. Init => PageInv
  BY InitPage
<1>2. PageInv /\ [Next]_vars => PageInv'
  BY NextPage
<1>3. PageInv /\ [Next]_vars =>
        [(computed \in UserScores) => (computed' \in UserScores)]_vars
  BY RecomputedStep
<1>4. QED
  BY <1>1, <1>2, <1>3, PTL DEF Spec, RecomputedScoresStay
===============================================================================
