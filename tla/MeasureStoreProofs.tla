--------------------------- MODULE MeasureStoreProofs ---------------------------
(* Notes and placeholders survive every use of the score commands, and what   *)
(* can be read is the work of commands in turn, for any number of commands    *)
(* and requests, any items and whatever is computed.                          *)
(*                                                                            *)
(* NotesKept is inductive once types are known: a command merges into what it *)
(* has read, what it reads is the file when that is JSON, and a merge keeps   *)
(* the notes and the scores it does not compute.                              *)
(*                                                                            *)
(* WrittenInTurn is not: what a command has read must be the work of others   *)
(* in turn as well, for the reader to come after them when it writes          *)
(* (TurnInv).                                                                 *)
EXTENDS MeasureStore, FiniteSetTheorems, SequenceTheorems, TLAPS

\* A merge makes a document of a document.
LEMMA MergeType ==
  ASSUME NEW d \in Document, NEW in \in Inputs
  PROVE  Merge(d, in) \in Document
<1>1. d.notes \in BOOLEAN /\ d.scores \in [Items -> Slot] /\ d.extract \in Inputs \cup {None}
  BY DEF Document
<1>2. ASSUME NEW i \in Items
      PROVE  (IF Computed[in][i] = None THEN d.scores[i]
              ELSE [score |-> Computed[in][i], source |-> "computed"]) \in Slot
  <2>1. Computed[in][i] \in Scores \cup {None} /\ d.scores[i] \in Slot
    BY <1>1, StoreAssumption
  <2>2. QED
    BY <2>1 DEF Slot
<1>3. QED
  BY <1>1, <1>2 DEF Merge, Document

\* A merge keeps the notes, and the scores that were never computed.
LEMMA MergeDescends ==
  ASSUME NEW d \in Document, NEW in \in Inputs, Descends(d)
  PROVE  Descends(Merge(d, in))
BY StoreAssumption DEF Merge, Document, Descends

\* {} and the document of the repository are documents, and so are scores written to --out.
LEMMA Documents ==
  /\ NoDocument \in Document /\ Repository \in Document
  /\ \A in \in Inputs : ScoresOf(in) \in Document
<1>1. NoDocument \in Document
  BY DEF NoDocument, Document, Slot, Blank
<1>2. Repository \in Document
  <2>1. Original \in [Items -> Slot]
    BY StoreAssumption DEF Slot
  <2>2. QED
    BY <2>1 DEF Repository, Document
<1>3. ASSUME NEW in \in Inputs PROVE ScoresOf(in) \in Document
  <2>1. Merge(NoDocument, in).scores \in [Items -> Slot]
    BY <1>1, MergeType DEF Document
  <2>2. QED
    BY <2>1 DEF ScoresOf, Document
<1>4. QED
  BY <1>1, <1>2, <1>3

Content == [state : {"absent", "empty", "torn", "whole"}, doc : Document]

\* Filling a file leaves the document, or what is no JSON.
LEMMA FilledType ==
  ASSUME NEW content, NEW d \in Document, NEW new \in Filled(content, d)
  PROVE  /\ new \in Content /\ Empty \in Content
         /\ IsJson(new) => new.doc = d
BY Documents DEF Filled, Whole, Torn, Empty, Content, IsJson

\* What a reader gets is what the file holds, and that is JSON.
LEMMA ReadType ==
  ASSUME NEW content, NEW d \in ReadJson(content)
  PROVE  d = content.doc /\ IsJson(content)
BY DEF ReadJson

\* The types hold when the first command starts.
LEMMA TypeInit == Init => TypeOK
BY Documents DEF Init, TypeOK, Whole, Absent

\* Every step keeps the types.
LEMMA TypeStep == TypeOK /\ [Next]_vars => TypeOK'
<1> SUFFICES ASSUME TypeOK, [Next]_vars PROVE TypeOK'
  OBVIOUS
<1> USE DEF TypeOK
<1>1. ASSUME NEW c \in Commands, ReadData(c) PROVE TypeOK'
  BY <1>1, ReadType DEF ReadData, Goes, Keep
<1>2. ASSUME NEW c \in Commands, OpenOut(c) \/ OpenData(c) PROVE TypeOK'
  BY <1>2, Documents DEF OpenOut, OpenData, Opened, Empty, Goes, Keep
<1>3. ASSUME NEW c \in Commands, FillOut(c) PROVE TypeOK'
  BY <1>3, Documents, FilledType DEF FillOut, Goes, Keep, Content
<1>4. ASSUME NEW c \in Commands, FillData(c) PROVE TypeOK'
  <2>1. Merge(measure[c], input[c]) \in Document
    BY MergeType
  <2>2. QED
    BY <1>4, <2>1, FilledType DEF FillData, Goes, Keep, Content
<1>5. ASSUME NEW c \in Commands, Stop(c) PROVE TypeOK'
  BY <1>5 DEF Stop, Goes, Keep
<1>6. ASSUME NEW r \in Requests, Post(r) \/ Answer(r) PROVE TypeOK'
  BY <1>6, ReadType DEF Post, Answer
<1>7. CASE UNCHANGED vars
  BY <1>7 DEF vars
<1>8. QED
  BY <1>1, <1>2, <1>3, <1>4, <1>5, <1>6, <1>7 DEF Next

\* Files, commands, requests and what they have read keep their types.
THEOREM TypeCorrect == Spec => []TypeOK
BY TypeInit, TypeStep, PTL DEF Spec

\* Nothing has been read yet, and the file is the first document.
LEMMA NotesInit == Init => NotesKept
<1> SUFFICES ASSUME Init PROVE NotesKept
  OBVIOUS
<1>1. Readers = {}
  BY DEF Init, Readers
<1>2. file.data.doc = first
  BY DEF Init, Whole, Absent
<1>3. QED
  BY <1>1, <1>2 DEF NotesKept, Descends

\* A step that fills the file fills it with a merge of what a command has read.
LEMMA NotesStep == TypeOK /\ NotesKept /\ [Next]_vars => NotesKept'
<1> SUFFICES ASSUME TypeOK, NotesKept, [Next]_vars PROVE NotesKept'
  OBVIOUS
<1>1. UNCHANGED first
  BY DEF Next, ReadData, OpenOut, FillOut, OpenData, FillData, Stop, Post, Answer, Keep, vars
<1>2. \A d : Descends(d) <=> Descends(d)'
  BY <1>1 DEF Descends
<1>3. ASSUME NEW c \in Commands, ReadData(c) PROVE NotesKept'
  BY <1>1, <1>3, ReadType DEF NotesKept, Descends, Readers, TypeOK, ReadData, Goes, Keep
<1>4. ASSUME NEW c \in Commands, OpenOut(c) \/ OpenData(c) PROVE NotesKept'
  BY <1>1, <1>4 DEF NotesKept, Descends, Readers, TypeOK, OpenOut, OpenData, Opened, Empty, IsJson, Goes, Keep
<1>5. ASSUME NEW c \in Commands, FillOut(c) PROVE NotesKept'
  BY <1>1, <1>5 DEF NotesKept, Descends, Readers, TypeOK, FillOut, IsJson, Goes, Keep
<1>6. ASSUME NEW c \in Commands, FillData(c) PROVE NotesKept'
  <2>1. c \in Readers /\ measure[c] \in Document /\ input[c] \in Inputs
    BY <1>6 DEF FillData, Readers, TypeOK
  <2>2. Descends(Merge(measure[c], input[c]))
    BY <2>1, MergeDescends DEF NotesKept
  <2>3. Merge(measure[c], input[c]) \in Document
    BY <2>1, MergeType
  <2>4. IsJson(file'.data) => file'.data.doc = Merge(measure[c], input[c])
    BY <1>6, <2>3, FilledType DEF FillData, TypeOK
  <2>5. Readers' \subseteq Readers /\ measure' = measure
    BY <1>6 DEF FillData, Readers, TypeOK, Goes, Keep
  <2>6. QED
    BY <1>1, <2>2, <2>4, <2>5 DEF NotesKept, Descends, IsJson
<1>7. ASSUME NEW c \in Commands, Stop(c) PROVE NotesKept'
  BY <1>1, <1>7 DEF NotesKept, Descends, Readers, TypeOK, Stop, IsJson, Goes, Keep
<1>8. ASSUME NEW r \in Requests, Post(r) \/ Answer(r) PROVE NotesKept'
  BY <1>1, <1>8, ReadType DEF NotesKept, Descends, Readers, TypeOK, Post, Answer, IsJson
<1>9. CASE UNCHANGED vars
  BY <1>9 DEF vars, NotesKept, Descends, Readers, IsJson
<1>10. QED
  BY <1>3, <1>4, <1>5, <1>6, <1>7, <1>8, <1>9 DEF Next

\* Whatever is read as JSON, by a command or a request, holds the notes and the
\* placeholders of the first document.
THEOREM NotesSurvive == Spec => []NotesKept
<1>1. Init => TypeOK /\ NotesKept
  BY TypeInit, NotesInit
<1>2. TypeOK /\ NotesKept /\ [Next]_vars => (TypeOK /\ NotesKept)'
  BY TypeStep, NotesStep
<1>3. QED
  BY <1>1, <1>2, PTL DEF Spec

-----------------------------------------------------------------------------
(* Commands in turn. *)

\* The commands that have merged, or may have.
Ended == {c \in Commands : merges[c] /\ pc[c] \in {"data", "done", "failed"}}

\* Whichever commands are looked for, a sequence that has one has a last one.
HasLast(seq) ==
  \A T \in SUBSET Commands :
    (\E i \in 1 .. Len(seq) : seq[i] \in T) =>
      \E i \in 1 .. Len(seq) :
        seq[i] \in T /\ \A j \in 1 .. Len(seq) : seq[j] \in T => j <= i

\* A document that the commands of a set have made in turn.
WorkOf(S, d) ==
  IsFiniteSet(S) /\ \E seq \in SetToSeqs(S) : HasLast(seq) /\ d = InTurn(seq)

\* What can be read is such a document, and so is what a command has read, of commands
\* other than itself.
TurnInv ==
  /\ IsJson(file.data) => \E S \in SUBSET Ended : WorkOf(S, file.data.doc)
  /\ \A c \in Commands : pc[c] \in {"read", "out", "merge", "data"} =>
       \E S \in SUBSET (Ended \ {c}) : WorkOf(S, measure[c])
  /\ \A c \in Commands : pc[c] \in {"merge", "data"} => merges[c]

\* A command after those of a set makes a sequence of one more.
LEMMA OneMore ==
  ASSUME NEW S \in SUBSET Commands, IsFiniteSet(S), NEW seq \in SetToSeqs(S),
         NEW c \in Commands \ S
  PROVE  /\ seq \in Seq(Commands) /\ IsFiniteSet(S \cup {c})
         /\ Append(seq, c) \in SetToSeqs(S \cup {c})
<1> DEFINE n == Cardinality(S)
           next == Append(seq, c)
<1>1. n \in Nat /\ Cardinality(S \cup {c}) = n + 1 /\ IsFiniteSet(S \cup {c})
  BY FS_CardinalityType, FS_AddElement
<1>2. seq \in [1 .. n -> S] /\ \A i, j \in 1 .. n : i # j => seq[i] # seq[j]
  BY DEF SetToSeqs
<1> HIDE DEF n
<1>3. seq \in Seq(S) /\ Len(seq) = n /\ seq \in Seq(Commands)
  BY <1>1, <1>2
<1>4. /\ next \in Seq(S \cup {c}) /\ Len(next) = n + 1 /\ next[n + 1] = c
      /\ \A i \in 1 .. n : next[i] = seq[i]
  BY <1>1, <1>3
<1>5. next \in [1 .. n + 1 -> S \cup {c}]
  BY <1>4, LenProperties
<1>6. \A i, j \in 1 .. n + 1 : i # j => next[i] # next[j]
  <2>1. \A i \in 1 .. n + 1 : i \in 1 .. n \/ i = n + 1
    BY <1>1
  <2>2. \A i \in 1 .. n : next[i] \in S
    BY <1>2, <1>4
  <2>3. QED
    BY <1>2, <1>4, <2>1, <2>2
<1>7. QED
  BY <1>1, <1>3, <1>5, <1>6 DEF SetToSeqs

\* The greatest of a set of places that has one.
LEMMA Greatest ==
  ASSUME NEW I \in SUBSET Nat, NEW m \in I, \A i \in I : i <= m
  PROVE  Max(I) = m
<1> DEFINE x == CHOOSE x \in I : \A y \in I : x >= y
<1>1. \A y \in I : m >= y /\ y \in Nat
  OBVIOUS
<1>2. x \in I /\ \A y \in I : x >= y
  BY <1>1
<1>3. x = m
  <2>1. x >= m /\ m >= x /\ x \in Nat /\ m \in Nat
    BY <1>1, <1>2
  <2>2. QED
    BY <2>1
<1>4. QED
  BY <1>3 DEF Max

\* A sequence with one more command has a last one too: that one, or the one before.
LEMMA LastOfMore ==
  ASSUME NEW seq \in Seq(Commands), HasLast(seq), NEW c \in Commands
  PROVE  HasLast(Append(seq, c))
<1> DEFINE n == Len(seq)
           next == Append(seq, c)
<1>1. SUFFICES ASSUME NEW T \in SUBSET Commands,
                      NEW k \in 1 .. Len(next), next[k] \in T
               PROVE  \E i \in 1 .. Len(next) :
                        next[i] \in T /\ \A j \in 1 .. Len(next) : next[j] \in T => j <= i
  BY DEF HasLast
<1>2. /\ n \in Nat /\ Len(next) = n + 1 /\ next[n + 1] = c
      /\ \A i \in 1 .. n : next[i] = seq[i]
  OBVIOUS
<1> HIDE DEF n, next
<1>3. CASE c \in T
  BY <1>2, <1>3
<1>4. CASE c \notin T
  <2>1. k \in 1 .. n /\ seq[k] \in T
    BY <1>1, <1>2, <1>4
  <2>2. PICK i \in 1 .. n : seq[i] \in T /\ \A j \in 1 .. n : seq[j] \in T => j <= i
    BY <2>1 DEF HasLast, n
  <2>3. i \in 1 .. n + 1 /\ next[i] \in T
    BY <1>2, <2>2
  <2>4. ASSUME NEW j \in 1 .. n + 1, next[j] \in T PROVE j <= i
    <3>1. j \in 1 .. n
      BY <1>2, <1>4, <2>4
    <3>2. QED
      BY <1>2, <2>2, <2>4, <3>1
  <2>5. QED
    BY <1>2, <2>3, <2>4
<1>5. QED
  BY <1>3, <1>4

\* The last command of a set T in a sequence.
LatestIn(seq, T) ==
  LET I == {i \in 1 .. Len(seq) : seq[i] \in T}
  IN IF I = {} THEN None ELSE seq[Max(I)]

\* The place of that command is one where a command of T stands.
LEMMA LastPlace ==
  ASSUME NEW seq \in Seq(Commands), HasLast(seq), NEW T \in SUBSET Commands,
         \E i \in 1 .. Len(seq) : seq[i] \in T
  PROVE  Max({i \in 1 .. Len(seq) : seq[i] \in T}) \in {i \in 1 .. Len(seq) : seq[i] \in T}
<1> DEFINE I == {i \in 1 .. Len(seq) : seq[i] \in T}
<1>1. I \in SUBSET Nat
  OBVIOUS
<1>2. PICK m \in I : \A i \in I : i <= m
  BY DEF HasLast
<1> HIDE DEF I
<1>3. Max(I) = m
  BY <1>1, <1>2, Greatest
<1>4. QED
  BY <1>2, <1>3 DEF I

\* The one that has come last is it, if it is one of T; if not, it is who it was.
LEMMA LatestOfMore ==
  ASSUME NEW seq \in Seq(Commands), HasLast(seq), NEW c \in Commands,
         NEW T \in SUBSET Commands
  PROVE  /\ LatestIn(Append(seq, c), T) = IF c \in T THEN c ELSE LatestIn(seq, T)
         /\ LatestIn(seq, T) \in T \cup {None}
<1> DEFINE n == Len(seq)
           next == Append(seq, c)
           I == {i \in 1 .. n : seq[i] \in T}
           J == {i \in 1 .. Len(next) : next[i] \in T}
<1>1. /\ n \in Nat /\ Len(next) = n + 1 /\ next[n + 1] = c
      /\ \A i \in 1 .. n : next[i] = seq[i]
  OBVIOUS
<1>2. I # {} => Max(I) \in I
  BY LastPlace
<1>3. LatestIn(seq, T) = IF I = {} THEN None ELSE seq[Max(I)]
  BY DEF LatestIn
<1>4. LatestIn(next, T) = IF J = {} THEN None ELSE next[Max(J)]
  BY DEF LatestIn
<1>5. J = IF c \in T THEN I \cup {n + 1} ELSE I
  <2>1. \A i \in 1 .. n + 1 : i \in 1 .. n \/ i = n + 1
    BY <1>1
  <2>2. 1 .. n \subseteq 1 .. n + 1 /\ n + 1 \in 1 .. n + 1
    BY <1>1
  <2> HIDE DEF n, next
  <2>3. QED
    BY <1>1, <2>1, <2>2
<1>6. I \subseteq 1 .. n /\ \A i \in I : seq[i] \in T
  OBVIOUS
<1> HIDE DEF n, next, I, J
<1>8. CASE c \in T
  <2>1. J = I \cup {n + 1} /\ J \in SUBSET Nat /\ \A i \in J : i <= n + 1
    BY <1>1, <1>5, <1>6, <1>8
  <2>2. Max(J) = n + 1
    BY <2>1, Greatest
  <2>3. J # {}
    BY <2>1
  <2>4. LatestIn(next, T) = c
    BY <1>1, <1>4, <2>2, <2>3
  <2>5. LatestIn(seq, T) \in T \cup {None}
    BY <1>3, <1>6, <1>2
  <2>6. QED
    BY <1>8, <2>4, <2>5 DEF next
<1>9. CASE c \notin T
  <2>1. J = I
    BY <1>5, <1>9
  <2>2. I # {} => next[Max(I)] = seq[Max(I)] /\ seq[Max(I)] \in T
    BY <1>1, <1>6, <1>2
  <2>3. LatestIn(next, T) = LatestIn(seq, T)
    BY <1>3, <1>4, <2>1, <2>2
  <2>4. LatestIn(seq, T) \in T \cup {None}
    BY <1>3, <1>6, <1>2
  <2>5. QED
    BY <1>9, <2>3, <2>4 DEF next
<1>10. QED
  BY <1>8, <1>9

\* The commands that score an item, and those that have an extraction.
Scorers(i) == {c \in Commands : Computed[input[c]][i] # None}
Extractors == {c \in Commands : input[c] # Missing}

\* The command whose score, or whose extraction, is left is the last of those.
LEMMA LatestIs ==
  ASSUME NEW seq \in Seq(Commands), HasLast(seq)
  PROVE  /\ \A i \in Items :
              LatestOf(seq, LAMBDA c : Computed[input[c]][i] # None) = LatestIn(seq, Scorers(i))
         /\ LatestOf(seq, LAMBDA c : input[c] # Missing) = LatestIn(seq, Extractors)
<1>1. \A k \in 1 .. Len(seq) : seq[k] \in Commands
  OBVIOUS
<1>2. ASSUME NEW i \in Items
      PROVE  LatestOf(seq, LAMBDA c : Computed[input[c]][i] # None) = LatestIn(seq, Scorers(i))
  <2> DEFINE I == {k \in 1 .. Len(seq) : Computed[input[seq[k]]][i] # None}
             J == {k \in 1 .. Len(seq) : seq[k] \in Scorers(i)}
  <2>1. I = J
    BY <1>1 DEF Scorers
  <2>2. J # {} => Max(J) \in J
    BY LastPlace DEF Scorers
  <2>3. J # {} => Max(J) # 0
    BY <2>2
  <2>4. LatestOf(seq, LAMBDA c : Computed[input[c]][i] # None)
          = LET n == IF I # {} THEN Max(I) ELSE 0 IN IF n = 0 THEN None ELSE seq[n]
    BY DEF LatestOf, SelectLastInSeq
  <2>5. LatestIn(seq, Scorers(i)) = IF J = {} THEN None ELSE seq[Max(J)]
    BY DEF LatestIn
  <2> HIDE DEF I, J
  <2>6. QED
    BY <2>1, <2>3, <2>4, <2>5
<1>3. LatestOf(seq, LAMBDA c : input[c] # Missing) = LatestIn(seq, Extractors)
  <2> DEFINE I == {k \in 1 .. Len(seq) : input[seq[k]] # Missing}
             J == {k \in 1 .. Len(seq) : seq[k] \in Extractors}
  <2>1. I = J
    BY <1>1 DEF Extractors
  <2>2. J # {} => Max(J) \in J
    BY LastPlace DEF Extractors
  <2>3. J # {} => Max(J) # 0
    BY <2>2
  <2>4. LatestOf(seq, LAMBDA c : input[c] # Missing)
          = LET n == IF I # {} THEN Max(I) ELSE 0 IN IF n = 0 THEN None ELSE seq[n]
    BY DEF LatestOf, SelectLastInSeq
  <2>5. LatestIn(seq, Extractors) = IF J = {} THEN None ELSE seq[Max(J)]
    BY DEF LatestIn
  <2> HIDE DEF I, J
  <2>6. QED
    BY <2>1, <2>3, <2>4, <2>5
<1>4. QED
  BY <1>2, <1>3

\* What commands in turn make, in those terms.
LEMMA InTurnIs ==
  ASSUME NEW seq \in Seq(Commands), HasLast(seq)
  PROVE  InTurn(seq) =
           [notes |-> first.notes,
            scores |-> [i \in Items |->
                          IF LatestIn(seq, Scorers(i)) = None THEN first.scores[i]
                          ELSE [score |-> Computed[input[LatestIn(seq, Scorers(i))]][i],
                                source |-> "computed"]],
            extract |-> IF LatestIn(seq, Extractors) = None THEN first.extract
                        ELSE input[LatestIn(seq, Extractors)]]
BY LatestIs DEF InTurn

\* One more command in turn merges what it is given into what the others have made.
LEMMA OneMoreInTurn ==
  ASSUME NEW seq \in Seq(Commands), HasLast(seq), NEW c \in Commands
  PROVE  InTurn(Append(seq, c)) = Merge(InTurn(seq), input[c])
<1> DEFINE next == Append(seq, c)
           d == InTurn(seq)
           e == InTurn(next)
           m == Merge(d, input[c])
<1>1. next \in Seq(Commands) /\ HasLast(next)
  BY LastOfMore
<1>2. \A T \in SUBSET Commands : LatestIn(next, T) = IF c \in T THEN c ELSE LatestIn(seq, T)
  BY LatestOfMore
<1>3. c # None
  BY StoreAssumption
<1>4. /\ d.notes = first.notes
      /\ d.scores = [i \in Items |->
                          IF LatestIn(seq, Scorers(i)) = None THEN first.scores[i]
                          ELSE [score |-> Computed[input[LatestIn(seq, Scorers(i))]][i],
                                source |-> "computed"]]
      /\ d.extract = IF LatestIn(seq, Extractors) = None THEN first.extract
                        ELSE input[LatestIn(seq, Extractors)]
  BY InTurnIs
<1> HIDE DEF d, next
<1>5. e = [notes |-> first.notes,
            scores |-> [i \in Items |->
                          IF LatestIn(next, Scorers(i)) = None THEN first.scores[i]
                          ELSE [score |-> Computed[input[LatestIn(next, Scorers(i))]][i],
                                source |-> "computed"]],
            extract |-> IF LatestIn(next, Extractors) = None THEN first.extract
                        ELSE input[LatestIn(next, Extractors)]]
  BY <1>1, InTurnIs
<1>6. m = [notes |-> d.notes,
           scores |-> [i \in Items |-> IF Computed[input[c]][i] = None THEN d.scores[i]
                                       ELSE [score |-> Computed[input[c]][i],
                                             source |-> "computed"]],
           extract |-> IF input[c] = Missing THEN d.extract ELSE input[c]]
  BY DEF Merge
<1>7. ASSUME NEW i \in Items
      PROVE  (IF LatestIn(next, Scorers(i)) = None THEN first.scores[i]
              ELSE [score |-> Computed[input[LatestIn(next, Scorers(i))]][i],
                    source |-> "computed"])
             = IF Computed[input[c]][i] = None THEN d.scores[i]
               ELSE [score |-> Computed[input[c]][i], source |-> "computed"]
  <2>1. c \in Scorers(i) <=> Computed[input[c]][i] # None
    BY DEF Scorers
  <2>2. LatestIn(next, Scorers(i)) = IF c \in Scorers(i) THEN c ELSE LatestIn(seq, Scorers(i))
    BY <1>2 DEF Scorers
  <2>3. d.scores[i] = IF LatestIn(seq, Scorers(i)) = None THEN first.scores[i]
                      ELSE [score |-> Computed[input[LatestIn(seq, Scorers(i))]][i],
                            source |-> "computed"]
    BY <1>4
  <2>4. QED
    BY <1>3, <2>1, <2>2, <2>3
<1>8. (IF LatestIn(next, Extractors) = None THEN first.extract
       ELSE input[LatestIn(next, Extractors)])
      = IF input[c] = Missing THEN d.extract ELSE input[c]
  <2>1. c \in Extractors <=> input[c] # Missing
    BY DEF Extractors
  <2>2. LatestIn(next, Extractors) = IF c \in Extractors THEN c ELSE LatestIn(seq, Extractors)
    BY <1>2 DEF Extractors
  <2>3. QED
    BY <1>3, <1>4, <2>1, <2>2
<1> HIDE DEF e, m
<1>9. e = m
  BY <1>4, <1>5, <1>6, <1>7, <1>8
<1>10. QED
  BY <1>9 DEF e, m, d, next

-----------------------------------------------------------------------------
\* What a command makes of the work of others is the work of one more.
LEMMA WorkOfMore ==
  ASSUME NEW S \in SUBSET Commands, NEW d, WorkOf(S, d), NEW c \in Commands \ S
  PROVE  WorkOf(S \cup {c}, Merge(d, input[c]))
<1>1. PICK seq \in SetToSeqs(S) : HasLast(seq) /\ d = InTurn(seq)
  BY DEF WorkOf
<1>2. /\ seq \in Seq(Commands) /\ IsFiniteSet(S \cup {c})
      /\ Append(seq, c) \in SetToSeqs(S \cup {c})
  BY OneMore DEF WorkOf
<1>3. HasLast(Append(seq, c)) /\ InTurn(Append(seq, c)) = Merge(d, input[c])
  BY <1>1, <1>2, LastOfMore, OneMoreInTurn
<1>4. QED
  BY <1>2, <1>3 DEF WorkOf

\* The first document is the work of no command.
LEMMA WorkOfNone ==
  ASSUME first \in Document
  PROVE  WorkOf({}, first)
<1>1. Cardinality({}) = 0 /\ IsFiniteSet({})
  BY FS_EmptySet
<1>2. << >> \in [1 .. 0 -> {}] /\ << >> \in Seq(Commands) /\ Len(<< >>) = 0
  OBVIOUS
<1>3. << >> \in SetToSeqs({})
  BY <1>1, <1>2 DEF SetToSeqs
<1>4. HasLast(<< >>)
  BY DEF HasLast
<1>5. \A T \in SUBSET Commands : LatestIn(<< >>, T) = None
  BY DEF LatestIn
<1>6. InTurn(<< >>) = [notes |-> first.notes, scores |-> [i \in Items |-> first.scores[i]],
                       extract |-> first.extract]
  <2>1. \A i \in Items : LatestIn(<< >>, Scorers(i)) = None
    BY <1>5 DEF Scorers
  <2>2. LatestIn(<< >>, Extractors) = None
    BY <1>5 DEF Extractors
  <2>3. QED
    BY <1>2, <1>4, <2>1, <2>2, InTurnIs
<1>7. InTurn(<< >>) = first
  BY <1>6 DEF Document
<1>8. QED
  BY <1>1, <1>3, <1>4, <1>7 DEF WorkOf

\* The file is the first document, and nothing has been read.
LEMMA TurnInit == Init => TurnInv
<1> SUFFICES ASSUME Init PROVE TurnInv
  OBVIOUS
<1>1. file.data.doc = first /\ first \in Document
  BY Documents DEF Init, Whole, Absent
<1>2. \A c \in Commands : pc[c] = "off"
  BY DEF Init
<1>3. QED
  BY <1>1, <1>2, WorkOfNone DEF TurnInv

\* No command leaves those that have ended, no document changes what made it.
LEMMA WorkStays ==
  ASSUME TypeOK, [Next]_vars
  PROVE  /\ Ended \subseteq Ended'
         /\ \A S, d : WorkOf(S, d) => WorkOf(S, d)'
<1>1. UNCHANGED <<first, input, merges>>
  BY DEF Next, ReadData, OpenOut, FillOut, OpenData, FillData, Stop, Post, Answer, Keep, vars
<1>2. \A c \in Commands : pc[c] \in {"data", "done", "failed"}
                            => pc'[c] \in {"data", "done", "failed"}
  BY DEF Next, ReadData, OpenOut, FillOut, OpenData, FillData, Stop, Post, Answer, Keep,
         Goes, Running, TypeOK, vars
<1>3. \A seq : InTurn(seq)' = InTurn(seq)
  BY <1>1 DEF InTurn, LatestOf, SelectLastInSeq
<1>4. QED
  BY <1>1, <1>2, <1>3 DEF Ended, WorkOf, HasLast

\* A command fills the file with what it has made of the work of others, and reads
\* what can be read before it is one of those that have ended.
LEMMA TurnStep == TypeOK /\ TurnInv /\ [Next]_vars => TurnInv'
<1> SUFFICES ASSUME TypeOK, TurnInv, [Next]_vars PROVE TurnInv'
  OBVIOUS
<1> DEFINE Holding == {"read", "out", "merge", "data"}
           FileInTurn == IsJson(file.data) => \E S \in SUBSET Ended : WorkOf(S, file.data.doc)
           ReadInTurn(c) ==
             pc[c] \in Holding => \E S \in SUBSET (Ended \ {c}) : WorkOf(S, measure[c])
           Mergers == \A c \in Commands : pc[c] \in {"merge", "data"} => merges[c]
<1>1. Ended \subseteq Ended' /\ \A S, d : WorkOf(S, d) => WorkOf(S, d)'
  BY WorkStays
<1>2. FileInTurn /\ (\A c \in Commands : ReadInTurn(c)) /\ Mergers
  BY DEF TurnInv
<1>3. SUFFICES FileInTurn' /\ (\A c \in Commands : ReadInTurn(c)') /\ Mergers'
  BY DEF TurnInv
\* The file is as it was, or is no JSON.
<1>4. ASSUME IsJson(file.data)' => IsJson(file.data) /\ file'.data.doc = file.data.doc
      PROVE  FileInTurn'
  BY <1>1, <1>2, <1>4
\* A command that goes on holds what it has read, by others still.
<1>5. ASSUME NEW c \in Commands, pc'[c] \in Holding => pc[c] \in Holding, measure'[c] = measure[c]
      PROVE  ReadInTurn(c)'
  <2> SUFFICES ASSUME pc'[c] \in Holding
               PROVE  \E S \in SUBSET (Ended' \ {c}) : WorkOf(S, measure[c])'
    BY <1>5
  <2>1. PICK S \in SUBSET (Ended \ {c}) : WorkOf(S, measure[c])
    BY <1>2, <1>5
  <2>2. S \in SUBSET (Ended' \ {c}) /\ WorkOf(S, measure[c])'
    BY <1>1, <1>5, <2>1
  <2>3. QED
    BY <1>5, <2>2
<1> HIDE DEF FileInTurn, ReadInTurn
<1>6. ASSUME NEW c \in Commands, ReadData(c)
      PROVE  FileInTurn' /\ (\A b \in Commands : ReadInTurn(b)') /\ Mergers'
  <2>1. /\ pc[c] = "off" /\ file' = file /\ merges' = merges
        /\ pc' = [pc EXCEPT ![c] = pc'[c]] /\ pc'[c] \in {"read", "failed"}
        /\ pc'[c] = "read" => measure' = [measure EXCEPT ![c] = file.data.doc] /\ IsJson(file.data)
        /\ pc'[c] = "failed" => measure' = measure
    BY <1>6, ReadType DEF ReadData, Goes, Keep, TypeOK
  <2>2. FileInTurn'
    BY <1>4, <2>1 DEF IsJson
  <2>3. \A b \in Commands : b # c => ReadInTurn(b)'
    <3>1. ASSUME NEW b \in Commands, b # c
          PROVE  pc'[b] = pc[b] /\ measure'[b] = measure[b]
      BY <2>1, <3>1 DEF TypeOK
    <3>2. QED
      BY <1>5, <3>1
  <2>4. ReadInTurn(c)'
    <3>1. CASE pc'[c] = "read"
      <4>1. PICK S \in SUBSET Ended : WorkOf(S, file.data.doc)
        BY <1>2, <2>1, <3>1 DEF FileInTurn
      <4>2. c \notin Ended
        BY <2>1 DEF Ended
      <4>3. measure'[c] = file.data.doc
        BY <2>1, <3>1 DEF TypeOK
      <4>4. S \in SUBSET (Ended' \ {c}) /\ WorkOf(S, file.data.doc)'
        BY <1>1, <2>1, <4>1, <4>2
      <4>5. (\E T \in SUBSET (Ended \ {c}) : WorkOf(T, measure[c]))'
        BY <2>1, <4>3, <4>4
      <4>6. QED
        BY <4>5 DEF ReadInTurn
    <3>2. CASE pc'[c] = "failed"
      BY <3>2 DEF ReadInTurn
    <3>3. QED
      BY <2>1, <3>1, <3>2
  <2>5. Mergers'
    BY <1>2, <2>1 DEF TypeOK
  <2>6. QED
    BY <2>2, <2>3, <2>4, <2>5
<1>7. ASSUME NEW c \in Commands, OpenOut(c) \/ FillOut(c) \/ OpenData(c) \/ Stop(c)
      PROVE  FileInTurn' /\ (\A b \in Commands : ReadInTurn(b)') /\ Mergers'
  <2>1. /\ measure' = measure /\ merges' = merges
        /\ pc' = [pc EXCEPT ![c] = pc'[c]] /\ pc[c] # "off"
        /\ pc[c] \in Holding \/ pc'[c] = "failed"
        /\ pc'[c] \in {"merge", "data"} => pc[c] = "merge" \/ merges[c]
    BY <1>7 DEF OpenOut, FillOut, OpenData, Stop, Running, Goes, Keep, TypeOK
  <2>2. file'.data = file.data \/ file'.data = Empty
    BY <1>7 DEF OpenOut, FillOut, OpenData, Opened, Stop, TypeOK
  <2>3. FileInTurn'
    BY <1>4, <2>2 DEF IsJson, Empty
  <2>4. \A b \in Commands : pc'[b] \in Holding => pc[b] \in Holding
    BY <2>1 DEF TypeOK
  <2>5. \A b \in Commands : ReadInTurn(b)'
    BY <1>5, <2>1, <2>4
  <2>6. Mergers'
    BY <1>2, <2>1 DEF TypeOK
  <2>7. QED
    BY <2>3, <2>5, <2>6
<1>8. ASSUME NEW c \in Commands, FillData(c)
      PROVE  FileInTurn' /\ (\A b \in Commands : ReadInTurn(b)') /\ Mergers'
  <2>1. /\ measure' = measure /\ merges' = merges
        /\ pc[c] = "data" /\ pc' = [pc EXCEPT ![c] = "done"]
        /\ input[c] \in Inputs /\ measure[c] \in Document
    BY <1>8 DEF FillData, Goes, Keep, TypeOK
  <2>2. Merge(measure[c], input[c]) \in Document
    BY <2>1, MergeType
  <2>3. IsJson(file'.data) => file'.data.doc = Merge(measure[c], input[c])
    BY <1>8, <2>2, FilledType DEF FillData, TypeOK
  <2>4. PICK S \in SUBSET (Ended \ {c}) : WorkOf(S, measure[c])
    BY <1>2, <2>1 DEF ReadInTurn
  <2>5. WorkOf(S \cup {c}, Merge(measure[c], input[c]))
    BY <2>4, WorkOfMore DEF Ended
  <2>6. c \in Ended
    BY <1>2, <2>1 DEF Ended
  <2>7. Merge(measure[c], input[c])' = Merge(measure[c], input[c])
    BY <1>8 DEF FillData, Keep, Merge
  <2>8. S \cup {c} \in SUBSET Ended' /\ WorkOf(S \cup {c}, Merge(measure[c], input[c]))'
    BY <1>1, <2>4, <2>5, <2>6, <2>7
  <2>9. FileInTurn'
    <3> SUFFICES ASSUME IsJson(file.data)'
                 PROVE  (\E T \in SUBSET Ended : WorkOf(T, file.data.doc))'
      BY DEF FileInTurn
    <3>1. file'.data.doc = Merge(measure[c], input[c])'
      BY <2>3, <2>7 DEF IsJson
    <3>2. QED
      BY <2>8, <3>1
  <2>10. \A b \in Commands : pc'[b] \in Holding => pc[b] \in Holding
    BY <2>1 DEF TypeOK
  <2>11. \A b \in Commands : ReadInTurn(b)'
    BY <1>5, <2>1, <2>10
  <2>12. Mergers'
    BY <1>2, <2>1 DEF TypeOK
  <2>13. QED
    BY <2>9, <2>11, <2>12
<1>9. ASSUME NEW r \in Requests, Post(r) \/ Answer(r)
      PROVE  FileInTurn' /\ (\A b \in Commands : ReadInTurn(b)') /\ Mergers'
  <2>1. UNCHANGED <<file, pc, merges>> /\ \A b \in Commands : measure'[b] = measure[b]
    BY <1>9, StoreAssumption DEF Post, Answer, TypeOK
  <2>2. FileInTurn'
    BY <1>4, <2>1 DEF IsJson
  <2>3. QED
    BY <1>2, <1>5, <2>1, <2>2
<1>10. CASE UNCHANGED vars
  BY <1>2, <1>4, <1>5, <1>10 DEF vars, IsJson
<1>11. QED
  BY <1>6, <1>7, <1>8, <1>9, <1>10 DEF Next

\* A file that can be read is the work of commands in turn.
LEMMA TurnIsWritten == TurnInv => WrittenInTurn
BY DEF TurnInv, WorkOf, WrittenInTurn, Ended, IsJson

\* However commands overlap, empty and fill the file under each other and stop: a
\* document that can be read is what some of those that have merged, one after the
\* other, make of the first document, and never a mixture of two.
THEOREM DocumentsAreInTurn == Spec => []WrittenInTurn
<1>1. Init => TypeOK /\ TurnInv
  BY TypeInit, TurnInit
<1>2. TypeOK /\ TurnInv /\ [Next]_vars => (TypeOK /\ TurnInv)'
  BY TypeStep, TurnStep
<1>3. QED
  BY <1>1, <1>2, TurnIsWritten, PTL DEF Spec
=============================================================================
