---------------------------- MODULE MoeKernelProofs ----------------------------
(***************************************************************************)
(* The theorems about MoeDispatch and MoeCombine.                          *)
(*                                                                         *)
(* Dispatch alone: IInv is an invariant, the safety properties follow from *)
(* it, and with it every step of the kernel is a step of the exchange of   *)
(* AllToAll or leaves it alone.  First come types, then the lemmas that    *)
(* make IInv of MoeDispatchInv inductive: how rounds, halves, flags,       *)
(* experts and cores relate, and one lemma for each conjunct that says a   *)
(* step preserves it.                                                      *)
(*                                                                         *)
(* Then the two kernels in turn: PairInv of MoeCombineInv is an invariant, *)
(* what either kernel reads is therefore of its own round, and every step  *)
(* of the pair is a step of the exchange or leaves it alone.               *)
(***************************************************************************)
EXTENDS MoeCombineInv, MoeRoutingProofs, FiniteSetTheorems

-------------------------------------------------------------------------------
(***************************************************************************)
(* Type correctness.                                                       *)
(***************************************************************************)
\* The half of a round is one of the two.
LEMMA HalvesAreParities == ASSUME NEW k \in Int PROVE HalfOf(k) \in Halves
BY DEF HalfOf, Halves

\* Targets, shares and slices are made of ranks and experts there are.
LEMMA ShapesOK ==
  /\ ExpertNum \in Nat
  /\ \A r \in Ranks, c \in Cores : Targets(r, c) \subseteq Experts
  /\ \A c \in Cores : Share(c) \subseteq Experts
  /\ \A r \in Ranks, c \in Cores : InboxSlice(r, c) \subseteq Ranks \X Experts
<1>1. (R - Shared) * M \in Nat
  BY DispatchAssumption
<1>2. ExpertNum \in Nat
  BY <1>1, DispatchAssumption DEF ExpertNum
<1>3. Shared <= ExpertNum
  BY <1>1, DispatchAssumption DEF ExpertNum
<1>4. ASSUME NEW r \in Ranks, NEW c \in Cores
      PROVE  Targets(r, c) \subseteq Experts
  BY <1>2, <1>3, DispatchAssumption DEF Targets, Experts
<1>5. ASSUME NEW c \in Cores
      PROVE  Share(c) \subseteq Experts
  BY DEF Share, Slice, Experts
<1>6. ASSUME NEW r \in Ranks, NEW c \in Cores
      PROVE  InboxSlice(r, c) \subseteq Ranks \X Experts
  BY DEF InboxSlice, Inbox
<1>7. QED
  BY <1>2, <1>4, <1>5, <1>6

\* Types hold at first, when no core is in a round ...
LEMMA InitTypes == Init => TypeOK /\ Bounded
<1>1. SUFFICES ASSUME Init PROVE TypeOK /\ Bounded
  OBVIOUS
<1>2. 0 \in 0 .. MaxRound /\ -1 \in -1 .. MaxRound - 1
  BY DispatchAssumption
<1>3. \A h \in Halves : h - 2 \in -2 .. MaxRound - 1
  BY DispatchAssumption DEF Halves
<1>4. Bounded
  BY <1>1 DEF Init, Bounded, PerCore
<1>5. /\ window \in
           [Ranks -> [Experts -> [Halves -> [Cores -> -2 .. MaxRound - 1]]]]
      /\ told \in [Ranks -> [Experts -> [Halves -> -2 .. MaxRound - 1]]]
  BY <1>1, <1>3 DEF Init, PerExpert
<1>6. QED
  BY <1>1, <1>2, <1>4, <1>5
     DEF Init, TypeOK, PerCore, PerExpert, Labels, Halves

\* ... and after every step.
LEMMA NextTypes ==
  ASSUME TypeOK, Bounded, [Next]_vars
  PROVE  TypeOK' /\ Bounded'
<1>a. ASSUME NEW r \in Ranks, NEW c \in Cores
      PROVE  /\ round[r][c] \in 0 .. MaxRound
             /\ half[r][c] \in Halves
             /\ target[r][c] \in {0, 1}
             /\ dataState[r][c] \in Halves
             /\ selfState[r][c] \in [Halves -> {0, 1}]
             /\ pc[r][c] # "idle" => round[r][c] < MaxRound
  BY DEF TypeOK, Bounded
<1>b. ASSUME NEW r \in Ranks, NEW c \in Cores, pc[r][c] # "idle"
      PROVE  /\ round[r][c] \in 0 .. MaxRound - 1
             /\ round[r][c] \in -1 .. MaxRound - 1
             /\ round[r][c] \in -2 .. MaxRound - 1
             /\ round[r][c] + 1 \in 0 .. MaxRound
  BY <1>a, <1>b, DispatchAssumption
<1> USE ShapesOK DEF TypeOK, Bounded
<1>1. ASSUME NEW r \in Ranks, NEW c \in Cores, Start(r, c)
      PROVE  TypeOK' /\ Bounded'
  <2> DEFINE h == dataState[r][c]
  <2>1. h \in Halves /\ 1 - h \in Halves
    BY <1>a DEF Halves
  <2>2. selfState[r][c][h] \in {0, 1} /\ 1 - selfState[r][c][h] \in {0, 1}
    <3>1. selfState[r][c][h] \in {0, 1}
      BY <1>a, <2>1
    <3>2. QED
      BY <3>1
  <2>3. Bounded'
    BY <1>1 DEF Start, Goto
  <2>4. dataState' \in [Ranks -> [Cores -> Halves]]
    BY <1>1, <2>1 DEF Start
  <2>5. selfState' \in [Ranks -> [Cores -> [Halves -> {0, 1}]]]
    BY <1>1, <2>1, <2>2 DEF Start
  <2>6. /\ half' \in [Ranks -> [Cores -> Halves]]
        /\ target' \in [Ranks -> [Cores -> {0, 1}]]
    BY <1>1, <2>1, <2>2 DEF Start
  <2>7. QED
    BY <1>1, <2>3, <2>4, <2>5, <2>6 DEF Start, Goto, Labels, memory
<1>2. ASSUME NEW r \in Ranks, NEW c \in Cores, NEW e \in Experts,
             SendTokens(r, c, e)
      PROVE  TypeOK' /\ Bounded'
  <2>1. round[r][c] \in -2 .. MaxRound - 1 /\ half[r][c] \in Halves
    BY <1>2, <1>a, <1>b DEF SendTokens
  <2>2. window' \in
          [Ranks -> [Experts -> [Halves -> [Cores -> -2 .. MaxRound - 1]]]]
    BY <1>2, <2>1 DEF SendTokens
  <2>3. QED
    BY <1>2, <2>2 DEF SendTokens, registers, states
<1>3. ASSUME NEW r \in Ranks, NEW c \in Cores, FinishSend(r, c)
      PROVE  TypeOK' /\ Bounded'
  BY <1>3 DEF FinishSend, Goto, Labels, registers, states, memory
<1>4. ASSUME NEW r \in Ranks, Sync1(r)
      PROVE  TypeOK' /\ Bounded'
  BY <1>4 DEF Sync1, Barrier, Share, Labels, registers, states, memory
<1>5. ASSUME NEW r \in Ranks, NEW c \in Cores, NEW e \in Experts,
             WriteStatus(r, c, e)
      PROVE  TypeOK' /\ Bounded'
  <2>1. round[r][c] \in -2 .. MaxRound - 1 /\ half[r][c] \in Halves
    BY <1>5, <1>a, <1>b DEF WriteStatus
  <2>2. told' \in [Ranks -> [Experts -> [Halves -> -2 .. MaxRound - 1]]]
    BY <1>5, <2>1 DEF WriteStatus
  <2>3. flag' \in [Ranks -> [Experts -> [Halves -> {0, 1}]]]
    BY <1>5, <2>1 DEF WriteStatus
  <2>4. QED
    BY <1>5, <2>2, <2>3 DEF WriteStatus, registers, states
<1>6. ASSUME NEW r \in Ranks, NEW c \in Cores, FinishStatus(r, c)
      PROVE  TypeOK' /\ Bounded'
  BY <1>6 DEF FinishStatus, Goto, Labels, registers, states, memory
<1>7. ASSUME NEW r \in Ranks, NEW c \in Cores, Poll(r, c)
      PROVE  TypeOK' /\ Bounded'
  BY <1>7 DEF Poll, Goto, Labels, registers, states, memory
<1>8. ASSUME NEW r \in Ranks, Sync2(r)
      PROVE  TypeOK' /\ Bounded'
  BY <1>8 DEF Sync2, Barrier, Labels, registers, states, memory
<1>9. ASSUME NEW r \in Ranks, NEW c \in Cores, ReadCounts(r, c)
      PROVE  TypeOK' /\ Bounded'
  BY <1>9 DEF ReadCounts, Goto, Labels, registers, states, memory
<1>10. ASSUME NEW r \in Ranks, NEW c \in Cores, NEW b \in Ranks \X Experts,
              CopyBlock(r, c, b)
       PROVE  TypeOK' /\ Bounded'
  BY <1>10 DEF CopyBlock, registers, states, memory
<1>11. ASSUME NEW r \in Ranks, NEW c \in Cores, FinishCopy(r, c)
       PROVE  TypeOK' /\ Bounded'
  <2>1. round[r][c] \in -1 .. MaxRound - 1
    BY <1>11, <1>b DEF FinishCopy
  <2>2. sendCounts' \in [Ranks -> [Cores -> -1 .. MaxRound - 1]]
    BY <1>11, <2>1 DEF FinishCopy
  <2>3. pc' \in [Ranks -> [Cores -> Labels]] /\ Bounded'
    BY <1>11 DEF FinishCopy, Goto, Labels
  <2>4. QED
    BY <1>11, <2>2, <2>3 DEF FinishCopy, registers, states
<1>12. ASSUME NEW r \in Ranks, Sync3(r)
       PROVE  TypeOK' /\ Bounded'
  BY <1>12 DEF Sync3, Barrier, Labels, registers, states, memory
<1>13. ASSUME NEW r \in Ranks, NEW c \in Cores, Finish(r, c)
       PROVE  TypeOK' /\ Bounded'
  <2>1. round[r][c] + 1 \in 0 .. MaxRound
    BY <1>13, <1>b DEF Finish
  <2>2. round' \in [Ranks -> [Cores -> 0 .. MaxRound]]
    BY <1>13, <2>1 DEF Finish
  <2>3. pc' \in [Ranks -> [Cores -> Labels]] /\ Bounded'
    BY <1>13 DEF Finish, Goto, Labels
  <2>4. QED
    BY <1>13, <2>2, <2>3 DEF Finish, registers, states, memory
<1>14. ASSUME UNCHANGED vars
       PROVE  TypeOK' /\ Bounded'
  BY <1>14 DEF vars
<1>15. QED
  BY <1>1, <1>2, <1>3, <1>4, <1>5, <1>6, <1>7, <1>8, <1>9, <1>10, <1>11,
     <1>12, <1>13, <1>14 DEF Next, SyncAll, Step

\* Registers, words and work lists have their types for any number of ranks, cores,
\* experts and rounds: Init takes only halves and flags that there are.
THEOREM TypeCorrect == Spec => []TypeOK
<1>1. TypeOK /\ Bounded /\ [Next]_vars => (TypeOK /\ Bounded)'
  BY NextTypes
<1>2. QED
  BY InitTypes, <1>1, PTL DEF Spec

-------------------------------------------------------------------------------
(***************************************************************************)
(* Rounds, halves and flags.                                               *)
(***************************************************************************)
\* Consecutive rounds use different halves.
LEMMA RoundFacts ==
  ASSUME NEW n \in Nat
  PROVE  /\ HalfOf(n) \in Halves
         /\ HalfOf(n + 1) = 1 - HalfOf(n)
         /\ FlagOf(n) \in {0, 1}
BY DEF HalfOf, FlagOf, Halves

\* The last round of a half changes only when a round of that half ends.
LEMMA LastFacts ==
  ASSUME NEW n \in Nat
  PROVE  /\ Last(HalfOf(n), n + 1) = n
         /\ Last(HalfOf(n), n + 2) = n
         /\ Last(HalfOf(n), n) = n - 2
         /\ \A h \in Halves : h # HalfOf(n) => Last(h, n + 1) = Last(h, n)
BY DEF HalfOf, Last, Halves

\* The flag differs from the one of the last round of the same half.
LEMMA FlagFacts ==
  ASSUME NEW n \in Nat
  PROVE  FlagOf(n - 2) = 1 - FlagOf(n)
BY DEF FlagOf

-------------------------------------------------------------------------------
(***************************************************************************)
(* Experts, their ranks, and the cores that serve them.                    *)
(***************************************************************************)
\* The sizes the slices are computed from are natural numbers.
LEMMA Sizes ==
  /\ C \in Nat \ {0} /\ R \in Nat \ {0} /\ M \in Nat \ {0} /\ Shared \in Nat
  /\ (R - Shared) * M \in Nat
  /\ ExpertNum = Shared + (R - Shared) * M /\ ExpertNum \in Nat
  /\ \A r \in Ranks : InboxSize(r) \in Nat
BY DispatchAssumption DEF ExpertNum, InboxSize

\* An expert is announced by one core only ...
LEMMA OneAnnouncer ==
  ASSUME NEW c \in Cores, NEW d \in Cores, NEW e \in Share(c), e \in Share(d)
  PROVE  c = d
BY Sizes, SliceDisjoint DEF Share, Cores

\* ... and there is one that announces it.
LEMMA SomeAnnouncer ==
  ASSUME NEW e \in Experts
  PROVE  \E c \in Cores : e \in Share(c)
BY Sizes, SliceCover DEF Share, Cores, Experts

\* A rank has an expert.
LEMMA SomeExpert ==
  ASSUME NEW r \in Ranks
  PROVE  \E e \in Experts : Home(e) = r
<1>1. CASE r < Shared
  BY <1>1, Sizes DEF Ranks, Experts, Home
<1>2. CASE Shared <= r
  <2>1. PICK n \in Nat : r = Shared + n /\ n + 1 <= R - Shared
    <3>1. r - Shared \in Nat /\ r = Shared + (r - Shared)
      BY <1>2, Sizes DEF Ranks
    <3>2. QED
      BY <3>1, Sizes DEF Ranks
  <2>2. n * M \in Nat /\ (n + 1) * M = n * M + M
    BY Sizes
  <2>3. M * (n + 1) <= M * (R - Shared)
    BY <2>1, Sizes, MulMono
  <2>4. M * (n + 1) = (n + 1) * M /\ M * (R - Shared) = (R - Shared) * M
    BY Sizes DEF Ranks
  <2>5. Shared + n * M \in Experts
    BY <2>2, <2>3, <2>4, Sizes DEF Experts
  <2>6. (n * M) \div M = n
    BY Sizes
  <2>7. Home(Shared + n * M) = r
    BY <2>1, <2>2, <2>6, Sizes DEF Home
  <2>8. QED
    BY <2>5, <2>7
<1>3. QED
  BY <1>1, <1>2, Sizes DEF Ranks

\* A status word of a rank is in the slice of one of its cores.
LEMMA InboxCover ==
  ASSUME NEW r \in Ranks, NEW b \in Inbox(r)
  PROVE  \E c \in Cores : b \in InboxSlice(r, c)
<1>1. b[1] \in Ranks /\ b[2] \in Experts /\ Home(b[2]) = r
  BY DEF Inbox
<1>2. StatusIndex(b) \in 0 .. InboxSize(r) - 1
  <2>1. CASE b[2] < Shared
    BY <1>1, <2>1, Sizes DEF StatusIndex, InboxSize, Home, Ranks
  <2>2. CASE ~ (b[2] < Shared)
    <3>1. PICK n \in Nat : n = b[2] - Shared
      BY <1>1, <2>2, Sizes DEF Experts
    <3>2. n % M \in 0 .. M - 1 /\ n \div M \in Nat
      <4>1. n \in Int /\ M \in Nat \ {0}
        BY Sizes
      <4>2. QED
        BY <4>1, DivMod, DivNat, Zenon
    <3>3. ~ (r < Shared)
      BY <1>1, <2>2, <3>1, <3>2, Sizes DEF Home
    <3>4. PICK m \in 0 .. M - 1 : m = n % M
      BY <3>2
    <3>5. StatusIndex(b) = b[1] + m * R
      BY <2>2, <3>1, <3>4 DEF StatusIndex
    <3>6. R * m <= R * (M - 1)
      BY <3>4, Sizes, MulMono
    <3>7. R * (M - 1) = R * M - R /\ m * R = R * m /\ m * R \in Nat
      BY <3>4, Sizes
    <3>8. R * M \in Nat
      BY Sizes
    <3>9. QED
      BY <1>1, <3>3, <3>5, <3>6, <3>7, <3>8, Sizes DEF InboxSize, Ranks
  <2>3. QED
    BY <2>1, <2>2
<1>3. PICK c \in 0 .. C - 1 : StatusIndex(b) \in Slice(InboxSize(r), C, c)
  BY <1>2, Sizes, SliceCover
<1>4. QED
  BY <1>3 DEF InboxSlice, Cores

-------------------------------------------------------------------------------
(***************************************************************************)
(* How the counters of a core relate, and how far apart two ranks are.     *)
(***************************************************************************)
\* A core reads a round only after it has announced it, and before the next one.
LEMMA Counters ==
  ASSUME TypeOK, NEW r \in Ranks, NEW c \in Cores
  PROVE  /\ round[r][c] \in Nat
         /\ Announcing(r, c) \in Nat /\ Reading(r, c) \in Nat
         /\ Reading(r, c) <= Announcing(r, c)
         /\ Announcing(r, c) <= Reading(r, c) + 1
         /\ \A e \in Experts :
              /\ Announced(r, c, e) \in Nat /\ Delivered(r, c, e) \in Nat
              /\ Announced(r, c, e) <= Announcing(r, c)
              /\ Announcing(r, c) <= Delivered(r, c, e)
              /\ Delivered(r, c, e) <= Reading(r, c) + 1
<1>1. round[r][c] \in Nat /\ pc[r][c] \in Labels
  BY DispatchAssumption DEF TypeOK
<1>2. QED
  BY <1>1 DEF Announcing, Reading, Announced, Delivered, Labels

\* No rank is more than one round ahead of another.
LEMMA Apart ==
  ASSUME TypeOK, Lockstep, Ahead,
         NEW r \in Ranks, NEW c \in Cores, NEW s \in Ranks, NEW d \in Cores
  PROVE  /\ Reading(s, d) <= Announcing(r, c)
         /\ Announcing(s, d) <= Announcing(r, c) + 1
<1>1. PICK e \in Experts : Home(e) = s
  BY SomeExpert
<1>2. PICK a \in Cores : e \in Share(a)
  BY SomeAnnouncer
<1>3. Reading(s, d) <= Announced(r, a, e)
  BY <1>1, <1>2 DEF Ahead
<1>4. Announced(r, a, e) <= Announcing(r, a) /\ Announced(r, a, e) \in Nat
  BY Counters
<1>5. Announcing(r, a) = Announcing(r, c)
  BY DEF Lockstep
<1>6. Announcing(s, d) <= Reading(s, d) + 1
  BY Counters
<1>7. /\ Announcing(r, c) \in Nat
      /\ Reading(s, d) \in Nat /\ Announcing(s, d) \in Nat
  BY Counters
<1>8. QED
  BY <1>3, <1>4, <1>5, <1>6, <1>7

\* Of the status words of a rank that reads, each holds the round read, and so
\* do the blocks of tokens.
LEMMA ReadsRound ==
  ASSUME IInv, NEW r \in Ranks, NEW c \in Cores,
         pc[r][c] \in {"counts", "copy"},
         NEW b \in Inbox(r)
  PROVE  /\ told[b[1]][b[2]][half[r][c]] = round[r][c]
         /\ \A d \in Cores : b[2] \in Targets(b[1], d) =>
              window[b[1]][b[2]][half[r][c]][d] = round[r][c]
<1> DEFINE s == b[1]
           e == b[2]
           n == round[r][c]
<1>1. s \in Ranks /\ e \in Experts /\ Home(e) = r
  BY DEF Inbox
<1>2. half[r][c] = HalfOf(n) /\ n \in Nat
  BY Counters DEF IInv, Registers
<1>3. Reading(r, c) = n + 1 /\ Announcing(r, c) = n + 1
  BY DEF Reading, Announcing
<1>4. PICK a \in Cores : e \in Share(a)
  BY <1>1, SomeAnnouncer
<1>5. n + 1 <= Announced(s, a, e)
  BY <1>1, <1>3, <1>4 DEF IInv, Ahead
<1>6. Announcing(s, a) <= n + 2
  BY <1>1, <1>2, <1>3, Apart, Counters DEF IInv
<1>7. /\ Announced(s, a, e) \in Nat /\ Announcing(s, a) \in Nat
      /\ Announced(s, a, e) <= Announcing(s, a)
  BY <1>1, Counters DEF IInv
<1>8. Announced(s, a, e) \in {n + 1, n + 2}
  BY <1>2, <1>5, <1>6, <1>7
<1>9. HalfOf(n) \in Halves
  BY <1>2, RoundFacts
<1>10. told[s][e][HalfOf(n)] = n
  <2>1. told[s][e][HalfOf(n)] = Last(HalfOf(n), Announced(s, a, e))
    BY <1>1, <1>4, <1>9 DEF IInv, StatusWords
  <2>2. QED
    BY <1>2, <1>8, <2>1, LastFacts
<1>11. ASSUME NEW d \in Cores, e \in Targets(s, d)
       PROVE  window[s][e][HalfOf(n)][d] = n
  <2>1. window[s][e][HalfOf(n)][d] = Last(HalfOf(n), Delivered(s, d, e))
    BY <1>1, <1>9, <1>11 DEF IInv, Windows
  <2>2. Announcing(s, d) = Announcing(s, a)
    BY <1>1 DEF IInv, Lockstep
  <2>3. /\ Announcing(s, d) <= Delivered(s, d, e)
        /\ Delivered(s, d, e) <= Reading(s, d) + 1
        /\ Delivered(s, d, e) \in Nat /\ Reading(s, d) \in Nat
    BY <1>1, Counters DEF IInv
  <2>4. Reading(s, d) <= n + 1
    BY <1>1, <1>3, Apart DEF IInv
  <2>5. Delivered(s, d, e) \in {n + 1, n + 2}
    BY <1>2, <1>5, <1>7, <2>2, <2>3, <2>4
  <2>6. QED
    BY <1>2, <2>1, <2>5, LastFacts
<1>12. QED
  BY <1>2, <1>10, <1>11

-------------------------------------------------------------------------------
(***************************************************************************)
(* Each conjunct of the invariant holds after every step.                  *)
(***************************************************************************)
\* Barriers let the cores of a rank pass together.
LEMMA NextLockstep ==
  ASSUME IInv, [Next]_vars
  PROVE  Lockstep'
<1>a. TypeOK /\ Lockstep
  BY DEF IInv
<1> USE DEF TypeOK
<1>1. ASSUME NEW r \in Ranks, NEW c \in Cores, Start(r, c)
      PROVE  Lockstep'
  BY <1>1, <1>a DEF Start, Goto, memory, Lockstep, Announcing, Reading,
     Totalling
<1>2. ASSUME NEW r \in Ranks, NEW c \in Cores, NEW e \in Experts,
             SendTokens(r, c, e)
      PROVE  Lockstep'
  BY <1>2, <1>a DEF SendTokens, registers, states, Lockstep, Announcing,
     Reading, Totalling
<1>3. ASSUME NEW r \in Ranks, NEW c \in Cores, FinishSend(r, c)
      PROVE  Lockstep'
  BY <1>3, <1>a DEF FinishSend, Goto, registers, states, memory, Lockstep,
     Announcing, Reading, Totalling
<1>4. ASSUME NEW r \in Ranks, Sync1(r)
      PROVE  Lockstep'
  BY <1>4, <1>a DEF Sync1, Barrier, registers, states, memory, Lockstep,
     Announcing, Reading, Totalling
<1>5. ASSUME NEW r \in Ranks, NEW c \in Cores, NEW e \in Experts,
             WriteStatus(r, c, e)
      PROVE  Lockstep'
  BY <1>5, <1>a DEF WriteStatus, registers, states, Lockstep, Announcing,
     Reading, Totalling
<1>6. ASSUME NEW r \in Ranks, NEW c \in Cores, FinishStatus(r, c)
      PROVE  Lockstep'
  BY <1>6, <1>a DEF FinishStatus, Goto, registers, states, memory, Lockstep,
     Announcing, Reading, Totalling
<1>7. ASSUME NEW r \in Ranks, NEW c \in Cores, Poll(r, c)
      PROVE  Lockstep'
  BY <1>7, <1>a DEF Poll, Goto, registers, states, memory, Lockstep,
     Announcing, Reading, Totalling
<1>8. ASSUME NEW r \in Ranks, Sync2(r)
      PROVE  Lockstep'
  BY <1>8, <1>a DEF Sync2, Barrier, registers, states, memory, Lockstep,
     Announcing, Reading, Totalling
<1>9. ASSUME NEW r \in Ranks, NEW c \in Cores, ReadCounts(r, c)
      PROVE  Lockstep'
  BY <1>9, <1>a DEF ReadCounts, Goto, registers, states, memory, Lockstep,
     Announcing, Reading, Totalling
<1>10. ASSUME NEW r \in Ranks, NEW c \in Cores, NEW b \in Ranks \X Experts,
              CopyBlock(r, c, b)
       PROVE  Lockstep'
  BY <1>10, <1>a DEF CopyBlock, registers, states, memory, Lockstep,
     Announcing, Reading, Totalling
<1>11. ASSUME NEW r \in Ranks, NEW c \in Cores, FinishCopy(r, c)
       PROVE  Lockstep'
  BY <1>11, <1>a DEF FinishCopy, Goto, registers, states, Lockstep, Announcing,
     Reading, Totalling
<1>12. ASSUME NEW r \in Ranks, Sync3(r)
       PROVE  Lockstep'
  BY <1>12, <1>a DEF Sync3, Barrier, registers, states, memory, Lockstep,
     Announcing, Reading, Totalling
<1>13. ASSUME NEW r \in Ranks, NEW c \in Cores, Finish(r, c)
       PROVE  Lockstep'
  BY <1>13, <1>a DEF Finish, Goto, registers, states, memory, Lockstep,
     Announcing, Reading, Totalling
<1>14. ASSUME UNCHANGED vars
       PROVE  Lockstep'
  BY <1>14, <1>a DEF vars, Lockstep, Announcing, Reading, Totalling
<1>15. QED
  BY <1>1, <1>2, <1>3, <1>4, <1>5, <1>6, <1>7, <1>8, <1>9, <1>10, <1>11,
     <1>12, <1>13, <1>14 DEF Next, SyncAll, Step

\* A core's work lists hold only items of its own slices.
LEMMA NextWorkLists ==
  ASSUME IInv, [Next]_vars
  PROVE  WorkLists'
<1>a. TypeOK /\ WorkLists
  BY DEF IInv
<1> USE DEF TypeOK
<1>1. ASSUME NEW r \in Ranks, NEW c \in Cores, Start(r, c)
      PROVE  WorkLists'
  BY <1>1, <1>a DEF Start, Goto, memory, WorkLists, Share
<1>2. ASSUME NEW r \in Ranks, NEW c \in Cores, NEW e \in Experts,
             SendTokens(r, c, e)
      PROVE  WorkLists'
  BY <1>2, <1>a DEF SendTokens, registers, states, WorkLists, Share
<1>3. ASSUME NEW r \in Ranks, NEW c \in Cores, FinishSend(r, c)
      PROVE  WorkLists'
  BY <1>3, <1>a DEF FinishSend, Goto, registers, states, memory, WorkLists,
     Share
<1>4. ASSUME NEW r \in Ranks, Sync1(r)
      PROVE  WorkLists'
  BY <1>4, <1>a DEF Sync1, Barrier, registers, states, memory, WorkLists, Share
<1>5. ASSUME NEW r \in Ranks, NEW c \in Cores, NEW e \in Experts,
             WriteStatus(r, c, e)
      PROVE  WorkLists'
  BY <1>5, <1>a DEF WriteStatus, registers, states, WorkLists, Share
<1>6. ASSUME NEW r \in Ranks, NEW c \in Cores, FinishStatus(r, c)
      PROVE  WorkLists'
  BY <1>6, <1>a DEF FinishStatus, Goto, registers, states, memory, WorkLists,
     Share
<1>7. ASSUME NEW r \in Ranks, NEW c \in Cores, Poll(r, c)
      PROVE  WorkLists'
  BY <1>7, <1>a DEF Poll, Goto, registers, states, memory, WorkLists, Share
<1>8. ASSUME NEW r \in Ranks, Sync2(r)
      PROVE  WorkLists'
  BY <1>8, <1>a DEF Sync2, Barrier, registers, states, memory, WorkLists, Share
<1>9. ASSUME NEW r \in Ranks, NEW c \in Cores, ReadCounts(r, c)
      PROVE  WorkLists'
  BY <1>9, <1>a DEF ReadCounts, Goto, registers, states, memory, WorkLists,
     Share
<1>10. ASSUME NEW r \in Ranks, NEW c \in Cores, NEW b \in Ranks \X Experts,
              CopyBlock(r, c, b)
       PROVE  WorkLists'
  BY <1>10, <1>a DEF CopyBlock, registers, states, memory, WorkLists, Share
<1>11. ASSUME NEW r \in Ranks, NEW c \in Cores, FinishCopy(r, c)
       PROVE  WorkLists'
  BY <1>11, <1>a DEF FinishCopy, Goto, registers, states, WorkLists, Share
<1>12. ASSUME NEW r \in Ranks, Sync3(r)
       PROVE  WorkLists'
  BY <1>12, <1>a DEF Sync3, Barrier, registers, states, memory, WorkLists,
     Share
<1>13. ASSUME NEW r \in Ranks, NEW c \in Cores, Finish(r, c)
       PROVE  WorkLists'
  BY <1>13, <1>a DEF Finish, Goto, registers, states, memory, WorkLists, Share
<1>14. ASSUME UNCHANGED vars
       PROVE  WorkLists'
  BY <1>14, <1>a DEF vars, WorkLists, Share
<1>15. QED
  BY <1>1, <1>2, <1>3, <1>4, <1>5, <1>6, <1>7, <1>8, <1>9, <1>10, <1>11,
     <1>12, <1>13, <1>14 DEF Next, SyncAll, Step

\* Counts are written between the copies and Sync3.
LEMMA NextCountWords ==
  ASSUME IInv, [Next]_vars
  PROVE  CountWords'
<1>a. TypeOK /\ CountWords
  BY DEF IInv
<1>b. \A r \in Ranks, c \in Cores : round[r][c] \in Nat
  BY <1>a, Counters
<1> USE DEF TypeOK
<1>1. ASSUME NEW r \in Ranks, NEW c \in Cores, Start(r, c)
      PROVE  CountWords'
  BY <1>1, <1>a, DispatchAssumption DEF Start, Goto, memory, CountWords,
     Counted
<1>2. ASSUME NEW r \in Ranks, NEW c \in Cores, NEW e \in Experts,
             SendTokens(r, c, e)
      PROVE  CountWords'
  BY <1>2, <1>a, DispatchAssumption DEF SendTokens, registers, states,
     CountWords, Counted
<1>3. ASSUME NEW r \in Ranks, NEW c \in Cores, FinishSend(r, c)
      PROVE  CountWords'
  BY <1>3, <1>a, DispatchAssumption DEF FinishSend, Goto, registers, states,
     memory, CountWords, Counted
<1>4. ASSUME NEW r \in Ranks, Sync1(r)
      PROVE  CountWords'
  BY <1>4, <1>a, DispatchAssumption DEF Sync1, Barrier, registers, states,
     memory, CountWords, Counted
<1>5. ASSUME NEW r \in Ranks, NEW c \in Cores, NEW e \in Experts,
             WriteStatus(r, c, e)
      PROVE  CountWords'
  BY <1>5, <1>a, DispatchAssumption DEF WriteStatus, registers, states,
     CountWords, Counted
<1>6. ASSUME NEW r \in Ranks, NEW c \in Cores, FinishStatus(r, c)
      PROVE  CountWords'
  BY <1>6, <1>a, DispatchAssumption DEF FinishStatus, Goto, registers, states,
     memory, CountWords, Counted
<1>7. ASSUME NEW r \in Ranks, NEW c \in Cores, Poll(r, c)
      PROVE  CountWords'
  BY <1>7, <1>a, DispatchAssumption DEF Poll, Goto, registers, states, memory,
     CountWords, Counted
<1>8. ASSUME NEW r \in Ranks, Sync2(r)
      PROVE  CountWords'
  BY <1>8, <1>a, DispatchAssumption DEF Sync2, Barrier, registers, states,
     memory, CountWords, Counted
<1>9. ASSUME NEW r \in Ranks, NEW c \in Cores, ReadCounts(r, c)
      PROVE  CountWords'
  BY <1>9, <1>a, DispatchAssumption DEF ReadCounts, Goto, registers, states,
     memory, CountWords, Counted
<1>10. ASSUME NEW r \in Ranks, NEW c \in Cores, NEW b \in Ranks \X Experts,
              CopyBlock(r, c, b)
       PROVE  CountWords'
  BY <1>10, <1>a, DispatchAssumption DEF CopyBlock, registers, states, memory,
     CountWords, Counted
<1>11. ASSUME NEW r \in Ranks, NEW c \in Cores, FinishCopy(r, c)
       PROVE  CountWords'
  <2>1. ASSUME NEW s \in Ranks, NEW d \in Cores, InboxSlice(s, d) # {}
        PROVE  sendCounts'[s][d] = Counted(s, d)' - 1
    <3>1. CASE s = r /\ d = c
      BY <1>11, <1>a, <1>b, <2>1, <3>1 DEF FinishCopy, Goto, Counted
    <3>2. CASE ~ (s = r /\ d = c)
      BY <1>11, <1>a, <1>b, <2>1, <3>2 DEF FinishCopy, Goto, Counted,
         CountWords
    <3>3. QED
      BY <3>1, <3>2
  <2>2. QED
    BY <2>1 DEF CountWords
<1>12. ASSUME NEW r \in Ranks, Sync3(r)
       PROVE  CountWords'
  BY <1>12, <1>a, DispatchAssumption DEF Sync3, Barrier, registers, states,
     memory, CountWords, Counted
<1>13. ASSUME NEW r \in Ranks, NEW c \in Cores, Finish(r, c)
       PROVE  CountWords'
  <2>1. \A s \in Ranks, d \in Cores : Counted(s, d)' = Counted(s, d)
    BY <1>13, <1>a, <1>b DEF Finish, Goto, Counted
  <2>2. QED
    BY <1>13, <1>a, <2>1 DEF Finish, memory, CountWords
<1>14. ASSUME UNCHANGED vars
       PROVE  CountWords'
  BY <1>14, <1>a, DispatchAssumption DEF vars, CountWords, Counted
<1>15. QED
  BY <1>1, <1>2, <1>3, <1>4, <1>5, <1>6, <1>7, <1>8, <1>9, <1>10, <1>11,
     <1>12, <1>13, <1>14 DEF Next, SyncAll, Step

\* Init of either kernel keeps the words of the next round in step with the core's.
LEMMA SwitchRegisters ==
  ASSUME TypeOK, Registers, NEW r \in Ranks, NEW c \in Cores, Switches(r, c)
  PROVE  Registers'
<1>b. \A s \in Ranks, d \in Cores : round[s][d] \in Nat
  BY Counters
<1> DEFINE n == round[r][c]
           h == HalfOf(n)
<1>1. n \in Nat /\ h \in Halves /\ HalfOf(n + 1) = 1 - h
  BY <1>b, RoundFacts
<1>2. pc[r][c] = "idle" /\ Started(r, c) = n
  BY <1>b DEF Switches, Started
<1>3. dataState[r][c] = h /\ selfState[r][c][h] = FlagOf(Last(h, n))
  BY <1>1, <1>2 DEF Registers
<1>4. selfState[r][c][h] = 1 - FlagOf(n)
  BY <1>1, <1>3, LastFacts, FlagFacts
<1>5. 1 - selfState[r][c][h] = FlagOf(n)
  BY <1>1, <1>4, RoundFacts
<1> USE DEF TypeOK
<1>6. /\ Started(r, c)' = n + 1
      /\ pc'[r][c] = "send" /\ round'[r][c] = n
  BY <1>b DEF Switches, Started, Goto
<1>7. /\ dataState'[r][c] = HalfOf(n + 1)
      /\ half'[r][c] = h /\ target'[r][c] = FlagOf(n)
  BY <1>1, <1>3, <1>5 DEF Switches
<1>8. ASSUME NEW k \in Halves
      PROVE  selfState'[r][c][k] = FlagOf(Last(k, n + 1))
  <2>1. CASE k = h
    <3>1. selfState'[r][c][k] = FlagOf(n)
      BY <1>1, <1>3, <1>5, <2>1 DEF Switches
    <3>2. QED
      BY <1>1, <2>1, <3>1, LastFacts
  <2>2. CASE k # h
    <3>1. selfState'[r][c][k] = selfState[r][c][k]
      BY <1>3, <2>2 DEF Switches
    <3>2. selfState[r][c][k] = FlagOf(Last(k, n))
      BY <1>2 DEF Registers
    <3>3. QED
      BY <1>1, <2>2, <3>1, <3>2, LastFacts
  <2>3. QED
    BY <2>1, <2>2
<1>9. ASSUME NEW s \in Ranks, NEW d \in Cores, ~ (s = r /\ d = c)
      PROVE  /\ dataState'[s][d] = dataState[s][d]
             /\ selfState'[s][d] = selfState[s][d]
             /\ half'[s][d] = half[s][d] /\ target'[s][d] = target[s][d]
             /\ pc'[s][d] = pc[s][d] /\ round'[s][d] = round[s][d]
  BY <1>9 DEF Switches, Goto
<1>10. ASSUME NEW s \in Ranks, NEW d \in Cores
       PROVE  /\ dataState'[s][d] = HalfOf(Started(s, d)')
              /\ \A k \in Halves :
                   selfState'[s][d][k] = FlagOf(Last(k, Started(s, d)'))
              /\ pc'[s][d] # "idle" =>
                   /\ half'[s][d] = HalfOf(round'[s][d])
                   /\ target'[s][d] = FlagOf(round'[s][d])
  <2>1. CASE s = r /\ d = c
    BY <1>6, <1>7, <1>8, <2>1
  <2>2. CASE ~ (s = r /\ d = c)
    <3>1. Started(s, d)' = Started(s, d)
      BY <1>9, <2>2 DEF Started
    <3>2. QED
      BY <1>9, <2>2, <3>1 DEF Registers
  <2>3. QED
    BY <2>1, <2>2
<1>11. QED
  BY <1>10 DEF Registers

\* Halves and flags alternate with the rounds.
LEMMA NextRegisters ==
  ASSUME IInv, [Next]_vars
  PROVE  Registers'
<1>a. TypeOK /\ Registers
  BY DEF IInv
<1>b. \A r \in Ranks, c \in Cores : round[r][c] \in Nat
  BY <1>a, Counters
<1> USE DEF TypeOK
<1>1. ASSUME NEW r \in Ranks, NEW c \in Cores, Start(r, c)
      PROVE  Registers'
  BY <1>1, <1>a, SwitchRegisters, Zenon DEF Start, Switches, memory
<1>2. ASSUME NEW r \in Ranks, NEW c \in Cores, NEW e \in Experts,
             SendTokens(r, c, e)
      PROVE  Registers'
  BY <1>2, <1>a DEF SendTokens, registers, states, Registers, Started
<1>3. ASSUME NEW r \in Ranks, NEW c \in Cores, FinishSend(r, c)
      PROVE  Registers'
  BY <1>3, <1>a DEF FinishSend, Goto, registers, states, memory, Registers,
     Started
<1>4. ASSUME NEW r \in Ranks, Sync1(r)
      PROVE  Registers'
  BY <1>4, <1>a DEF Sync1, Barrier, registers, states, memory, Registers,
     Started
<1>5. ASSUME NEW r \in Ranks, NEW c \in Cores, NEW e \in Experts,
             WriteStatus(r, c, e)
      PROVE  Registers'
  BY <1>5, <1>a DEF WriteStatus, registers, states, Registers, Started
<1>6. ASSUME NEW r \in Ranks, NEW c \in Cores, FinishStatus(r, c)
      PROVE  Registers'
  BY <1>6, <1>a DEF FinishStatus, Goto, registers, states, memory, Registers,
     Started
<1>7. ASSUME NEW r \in Ranks, NEW c \in Cores, Poll(r, c)
      PROVE  Registers'
  BY <1>7, <1>a DEF Poll, Goto, registers, states, memory, Registers, Started
<1>8. ASSUME NEW r \in Ranks, Sync2(r)
      PROVE  Registers'
  BY <1>8, <1>a DEF Sync2, Barrier, registers, states, memory, Registers,
     Started
<1>9. ASSUME NEW r \in Ranks, NEW c \in Cores, ReadCounts(r, c)
      PROVE  Registers'
  BY <1>9, <1>a DEF ReadCounts, Goto, registers, states, memory, Registers,
     Started
<1>10. ASSUME NEW r \in Ranks, NEW c \in Cores, NEW b \in Ranks \X Experts,
              CopyBlock(r, c, b)
       PROVE  Registers'
  BY <1>10, <1>a DEF CopyBlock, registers, states, memory, Registers, Started
<1>11. ASSUME NEW r \in Ranks, NEW c \in Cores, FinishCopy(r, c)
       PROVE  Registers'
  BY <1>11, <1>a DEF FinishCopy, Goto, registers, states, Registers, Started
<1>12. ASSUME NEW r \in Ranks, Sync3(r)
       PROVE  Registers'
  BY <1>12, <1>a DEF Sync3, Barrier, registers, states, memory, Registers,
     Started
<1>13. ASSUME NEW r \in Ranks, NEW c \in Cores, Finish(r, c)
       PROVE  Registers'
  <2>1. \A s \in Ranks, d \in Cores : Started(s, d)' = Started(s, d)
    BY <1>13, <1>a, <1>b DEF Finish, Goto, Started
  <2>2. QED
    BY <1>13, <1>a, <2>1 DEF Finish, Goto, registers, states, Registers
<1>14. ASSUME UNCHANGED vars
       PROVE  Registers'
  BY <1>14, <1>a DEF vars, Registers, Started
<1>15. QED
  BY <1>1, <1>2, <1>3, <1>4, <1>5, <1>6, <1>7, <1>8, <1>9, <1>10, <1>11,
     <1>12, <1>13, <1>14 DEF Next, SyncAll, Step

\* A block of tokens changes only when its sender delivers.
LEMMA NextWindows ==
  ASSUME IInv, [Next]_vars
  PROVE  Windows'
<1>a. TypeOK /\ Windows /\ Registers
  BY DEF IInv
<1>b. \A r \in Ranks, c \in Cores :
        round[r][c] \in Nat /\ Targets(r, c) \subseteq Experts
  BY <1>a, Counters, ShapesOK
<1> USE DEF TypeOK
<1>1. ASSUME NEW r \in Ranks, NEW c \in Cores, Start(r, c)
      PROVE  Windows'
  <2>1. \A s \in Ranks, d \in Cores : \A x \in Targets(s, d) :
          Delivered(s, d, x)' = Delivered(s, d, x)
    BY <1>1, <1>a, <1>b DEF Start, Goto, memory, Delivered
  <2>2. UNCHANGED window
    BY <1>1 DEF Start, Goto, memory
  <2>3. QED
    BY <1>a, <2>1, <2>2 DEF Windows
<1>2. ASSUME NEW r \in Ranks, NEW c \in Cores, NEW e \in Experts,
             SendTokens(r, c, e)
      PROVE  Windows'
  <2> DEFINE n == round[r][c]
  <2>1. /\ n \in Nat /\ half[r][c] = HalfOf(n) /\ HalfOf(n) \in Halves
        /\ pc[r][c] = "send" /\ e \in todo[r][c]
    BY <1>2, <1>a, <1>b, RoundFacts DEF SendTokens, Registers
  <2>2. Delivered(r, c, e) = n /\ Delivered(r, c, e)' = n + 1
    BY <1>2, <1>a, <2>1 DEF SendTokens, Delivered
  <2>3. ASSUME NEW s \in Ranks, NEW d \in Cores, NEW h \in Halves,
               NEW x \in Targets(s, d)
        PROVE  window'[s][x][h][d] = Last(h, Delivered(s, d, x)')
    <3>1. x \in Experts
      BY <1>b
    <3>2. CASE s = r /\ d = c /\ x = e
      <4>1. CASE h = HalfOf(n)
        <5>1. window'[s][x][h][d] = n
          BY <1>2, <1>a, <2>1, <3>2, <4>1 DEF SendTokens
        <5>2. QED
          BY <2>1, <2>2, <3>2, <4>1, <5>1, LastFacts
      <4>2. CASE h # HalfOf(n)
        <5>1. window'[s][x][h][d] = window[s][x][h][d]
          BY <1>2, <1>a, <2>1, <3>1, <4>2 DEF SendTokens
        <5>2. window[s][x][h][d] = Last(h, n)
          BY <1>a, <2>2, <3>2 DEF Windows
        <5>3. QED
          BY <2>1, <2>2, <3>2, <4>2, <5>1, <5>2, LastFacts
      <4>3. QED
        BY <4>1, <4>2
    <3>3. CASE ~ (s = r /\ d = c /\ x = e)
      <4>1. window'[s][x][h][d] = window[s][x][h][d]
        BY <1>2, <1>a, <2>1, <3>1, <3>3 DEF SendTokens
      <4>2. Delivered(s, d, x)' = Delivered(s, d, x)
        BY <1>2, <1>a, <3>1, <3>3 DEF SendTokens, Delivered
      <4>3. QED
        BY <1>a, <4>1, <4>2 DEF Windows
    <3>4. QED
      BY <3>2, <3>3
  <2>4. QED
    BY <2>3 DEF Windows
<1>3. ASSUME NEW r \in Ranks, NEW c \in Cores, FinishSend(r, c)
      PROVE  Windows'
  <2>1. \A s \in Ranks, d \in Cores : \A x \in Targets(s, d) :
          Delivered(s, d, x)' = Delivered(s, d, x)
    BY <1>3, <1>a, <1>b DEF FinishSend, Goto, registers, states, memory,
       Delivered
  <2>2. UNCHANGED window
    BY <1>3 DEF FinishSend, Goto, registers, states, memory
  <2>3. QED
    BY <1>a, <2>1, <2>2 DEF Windows
<1>4. ASSUME NEW r \in Ranks, Sync1(r)
      PROVE  Windows'
  <2>1. \A s \in Ranks, d \in Cores : \A x \in Targets(s, d) :
          Delivered(s, d, x)' = Delivered(s, d, x)
    BY <1>4, <1>a, <1>b DEF Sync1, Barrier, registers, states, memory,
       Delivered
  <2>2. UNCHANGED window
    BY <1>4 DEF Sync1, Barrier, registers, states, memory
  <2>3. QED
    BY <1>a, <2>1, <2>2 DEF Windows
<1>5. ASSUME NEW r \in Ranks, NEW c \in Cores, NEW e \in Experts,
             WriteStatus(r, c, e)
      PROVE  Windows'
  <2>1. \A s \in Ranks, d \in Cores : \A x \in Targets(s, d) :
          Delivered(s, d, x)' = Delivered(s, d, x)
    BY <1>5, <1>a, <1>b DEF WriteStatus, registers, states, Delivered
  <2>2. UNCHANGED window
    BY <1>5 DEF WriteStatus, registers, states
  <2>3. QED
    BY <1>a, <2>1, <2>2 DEF Windows
<1>6. ASSUME NEW r \in Ranks, NEW c \in Cores, FinishStatus(r, c)
      PROVE  Windows'
  <2>1. \A s \in Ranks, d \in Cores : \A x \in Targets(s, d) :
          Delivered(s, d, x)' = Delivered(s, d, x)
    BY <1>6, <1>a, <1>b DEF FinishStatus, Goto, registers, states, memory,
       Delivered
  <2>2. UNCHANGED window
    BY <1>6 DEF FinishStatus, Goto, registers, states, memory
  <2>3. QED
    BY <1>a, <2>1, <2>2 DEF Windows
<1>7. ASSUME NEW r \in Ranks, NEW c \in Cores, Poll(r, c)
      PROVE  Windows'
  <2>1. \A s \in Ranks, d \in Cores : \A x \in Targets(s, d) :
          Delivered(s, d, x)' = Delivered(s, d, x)
    BY <1>7, <1>a, <1>b DEF Poll, Goto, registers, states, memory, Delivered
  <2>2. UNCHANGED window
    BY <1>7 DEF Poll, Goto, registers, states, memory
  <2>3. QED
    BY <1>a, <2>1, <2>2 DEF Windows
<1>8. ASSUME NEW r \in Ranks, Sync2(r)
      PROVE  Windows'
  <2>1. \A s \in Ranks, d \in Cores : \A x \in Targets(s, d) :
          Delivered(s, d, x)' = Delivered(s, d, x)
    BY <1>8, <1>a, <1>b DEF Sync2, Barrier, registers, states, memory,
       Delivered
  <2>2. UNCHANGED window
    BY <1>8 DEF Sync2, Barrier, registers, states, memory
  <2>3. QED
    BY <1>a, <2>1, <2>2 DEF Windows
<1>9. ASSUME NEW r \in Ranks, NEW c \in Cores, ReadCounts(r, c)
      PROVE  Windows'
  <2>1. \A s \in Ranks, d \in Cores : \A x \in Targets(s, d) :
          Delivered(s, d, x)' = Delivered(s, d, x)
    BY <1>9, <1>a, <1>b DEF ReadCounts, Goto, registers, states, memory,
       Delivered
  <2>2. UNCHANGED window
    BY <1>9 DEF ReadCounts, Goto, registers, states, memory
  <2>3. QED
    BY <1>a, <2>1, <2>2 DEF Windows
<1>10. ASSUME NEW r \in Ranks, NEW c \in Cores, NEW b \in Ranks \X Experts,
              CopyBlock(r, c, b)
       PROVE  Windows'
  <2>1. \A s \in Ranks, d \in Cores : \A x \in Targets(s, d) :
          Delivered(s, d, x)' = Delivered(s, d, x)
    BY <1>10, <1>a, <1>b DEF CopyBlock, registers, states, memory, Delivered
  <2>2. UNCHANGED window
    BY <1>10 DEF CopyBlock, registers, states, memory
  <2>3. QED
    BY <1>a, <2>1, <2>2 DEF Windows
<1>11. ASSUME NEW r \in Ranks, NEW c \in Cores, FinishCopy(r, c)
       PROVE  Windows'
  <2>1. \A s \in Ranks, d \in Cores : \A x \in Targets(s, d) :
          Delivered(s, d, x)' = Delivered(s, d, x)
    BY <1>11, <1>a, <1>b DEF FinishCopy, Goto, registers, states, Delivered
  <2>2. UNCHANGED window
    BY <1>11 DEF FinishCopy, Goto, registers, states
  <2>3. QED
    BY <1>a, <2>1, <2>2 DEF Windows
<1>12. ASSUME NEW r \in Ranks, Sync3(r)
       PROVE  Windows'
  <2>1. \A s \in Ranks, d \in Cores : \A x \in Targets(s, d) :
          Delivered(s, d, x)' = Delivered(s, d, x)
    BY <1>12, <1>a, <1>b DEF Sync3, Barrier, registers, states, memory,
       Delivered
  <2>2. UNCHANGED window
    BY <1>12 DEF Sync3, Barrier, registers, states, memory
  <2>3. QED
    BY <1>a, <2>1, <2>2 DEF Windows
<1>13. ASSUME NEW r \in Ranks, NEW c \in Cores, Finish(r, c)
       PROVE  Windows'
  <2>1. \A s \in Ranks, d \in Cores : \A x \in Targets(s, d) :
          Delivered(s, d, x)' = Delivered(s, d, x)
    BY <1>13, <1>a, <1>b DEF Finish, Goto, registers, states, memory, Delivered
  <2>2. UNCHANGED window
    BY <1>13 DEF Finish, Goto, registers, states, memory
  <2>3. QED
    BY <1>a, <2>1, <2>2 DEF Windows
<1>14. ASSUME UNCHANGED vars
       PROVE  Windows'
  BY <1>14, <1>a DEF vars, Windows, Delivered
<1>15. QED
  BY <1>1, <1>2, <1>3, <1>4, <1>5, <1>6, <1>7, <1>8, <1>9, <1>10, <1>11,
     <1>12, <1>13, <1>14 DEF Next, SyncAll, Step

\* A status word changes only when the one core that writes it announces.
LEMMA NextStatusWords ==
  ASSUME IInv, [Next]_vars
  PROVE  StatusWords'
<1>a. TypeOK /\ StatusWords /\ Registers /\ WorkLists
  BY DEF IInv
<1>b. \A r \in Ranks, c \in Cores :
        round[r][c] \in Nat /\ Share(c) \subseteq Experts
  BY <1>a, Counters, ShapesOK
<1> USE DEF TypeOK
<1>1. ASSUME NEW r \in Ranks, NEW c \in Cores, Start(r, c)
      PROVE  StatusWords'
  <2>1. \A s \in Ranks, d \in Cores : \A x \in Share(d) :
          Announced(s, d, x)' = Announced(s, d, x)
    BY <1>1, <1>a, <1>b DEF Start, Goto, memory, Announced
  <2>2. UNCHANGED <<flag, told>>
    BY <1>1 DEF Start, Goto, memory
  <2>3. QED
    BY <1>a, <2>1, <2>2 DEF StatusWords
<1>2. ASSUME NEW r \in Ranks, NEW c \in Cores, NEW e \in Experts,
             SendTokens(r, c, e)
      PROVE  StatusWords'
  <2>1. \A s \in Ranks, d \in Cores : \A x \in Share(d) :
          Announced(s, d, x)' = Announced(s, d, x)
    BY <1>2, <1>a, <1>b DEF SendTokens, registers, states, Announced
  <2>2. UNCHANGED <<flag, told>>
    BY <1>2 DEF SendTokens, registers, states
  <2>3. QED
    BY <1>a, <2>1, <2>2 DEF StatusWords
<1>3. ASSUME NEW r \in Ranks, NEW c \in Cores, FinishSend(r, c)
      PROVE  StatusWords'
  <2>1. \A s \in Ranks, d \in Cores : \A x \in Share(d) :
          Announced(s, d, x)' = Announced(s, d, x)
    BY <1>3, <1>a, <1>b DEF FinishSend, Goto, registers, states, memory,
       Announced
  <2>2. UNCHANGED <<flag, told>>
    BY <1>3 DEF FinishSend, Goto, registers, states, memory
  <2>3. QED
    BY <1>a, <2>1, <2>2 DEF StatusWords
<1>4. ASSUME NEW r \in Ranks, Sync1(r)
      PROVE  StatusWords'
  <2>1. \A s \in Ranks, d \in Cores : \A x \in Share(d) :
          Announced(s, d, x)' = Announced(s, d, x)
    BY <1>4, <1>a, <1>b DEF Sync1, Barrier, registers, states, memory, Share,
       Announced
  <2>2. UNCHANGED <<flag, told>>
    BY <1>4 DEF Sync1, Barrier, registers, states, memory, Share
  <2>3. QED
    BY <1>a, <2>1, <2>2 DEF StatusWords
<1>5. ASSUME NEW r \in Ranks, NEW c \in Cores, NEW e \in Experts,
             WriteStatus(r, c, e)
      PROVE  StatusWords'
  <2> DEFINE n == round[r][c]
  <2>1. /\ n \in Nat /\ half[r][c] = HalfOf(n) /\ HalfOf(n) \in Halves
        /\ target[r][c] = FlagOf(n)
        /\ pc[r][c] = "status" /\ e \in todo[r][c] /\ e \in Share(c)
    BY <1>5, <1>a, <1>b, RoundFacts DEF WriteStatus, Registers, WorkLists
  <2>2. Announced(r, c, e) = n /\ Announced(r, c, e)' = n + 1
    BY <1>5, <1>a, <2>1 DEF WriteStatus, Announced
  <2>3. ASSUME NEW s \in Ranks, NEW d \in Cores, NEW h \in Halves,
               NEW x \in Share(d)
        PROVE  /\ told'[s][x][h] = Last(h, Announced(s, d, x)')
               /\ flag'[s][x][h] = FlagOf(told'[s][x][h])
    <3>1. x \in Experts
      BY <1>b
    <3>2. CASE s = r /\ x = e
      <4>1. d = c
        BY <2>1, <3>2, OneAnnouncer
      <4>2. CASE h = HalfOf(n)
        <5>1. told'[s][x][h] = n /\ flag'[s][x][h] = FlagOf(n)
          BY <1>5, <1>a, <2>1, <3>2, <4>2 DEF WriteStatus
        <5>2. QED
          BY <2>1, <2>2, <3>2, <4>1, <4>2, <5>1, LastFacts
      <4>3. CASE h # HalfOf(n)
        <5>1. /\ told'[s][x][h] = told[s][x][h]
              /\ flag'[s][x][h] = flag[s][x][h]
          BY <1>5, <1>a, <2>1, <3>1, <4>3 DEF WriteStatus
        <5>2. /\ told[s][x][h] = Last(h, n)
              /\ flag[s][x][h] = FlagOf(told[s][x][h])
          BY <1>a, <2>2, <3>2, <4>1 DEF StatusWords
        <5>3. QED
          BY <2>1, <2>2, <3>2, <4>1, <4>3, <5>1, <5>2, LastFacts
      <4>4. QED
        BY <4>2, <4>3
    <3>3. CASE ~ (s = r /\ x = e)
      <4>1. told'[s][x][h] = told[s][x][h] /\ flag'[s][x][h] = flag[s][x][h]
        BY <1>5, <1>a, <2>1, <3>1, <3>3 DEF WriteStatus
      <4>2. Announced(s, d, x)' = Announced(s, d, x)
        BY <1>5, <1>a, <3>1, <3>3 DEF WriteStatus, Announced
      <4>3. QED
        BY <1>a, <4>1, <4>2 DEF StatusWords
    <3>4. QED
      BY <3>2, <3>3
  <2>4. QED
    BY <2>3 DEF StatusWords
<1>6. ASSUME NEW r \in Ranks, NEW c \in Cores, FinishStatus(r, c)
      PROVE  StatusWords'
  <2>1. \A s \in Ranks, d \in Cores : \A x \in Share(d) :
          Announced(s, d, x)' = Announced(s, d, x)
    BY <1>6, <1>a, <1>b DEF FinishStatus, Goto, registers, states, memory,
       Announced
  <2>2. UNCHANGED <<flag, told>>
    BY <1>6 DEF FinishStatus, Goto, registers, states, memory
  <2>3. QED
    BY <1>a, <2>1, <2>2 DEF StatusWords
<1>7. ASSUME NEW r \in Ranks, NEW c \in Cores, Poll(r, c)
      PROVE  StatusWords'
  <2>1. \A s \in Ranks, d \in Cores : \A x \in Share(d) :
          Announced(s, d, x)' = Announced(s, d, x)
    BY <1>7, <1>a, <1>b DEF Poll, Goto, registers, states, memory, Announced
  <2>2. UNCHANGED <<flag, told>>
    BY <1>7 DEF Poll, Goto, registers, states, memory
  <2>3. QED
    BY <1>a, <2>1, <2>2 DEF StatusWords
<1>8. ASSUME NEW r \in Ranks, Sync2(r)
      PROVE  StatusWords'
  <2>1. \A s \in Ranks, d \in Cores : \A x \in Share(d) :
          Announced(s, d, x)' = Announced(s, d, x)
    BY <1>8, <1>a, <1>b DEF Sync2, Barrier, registers, states, memory,
       Announced
  <2>2. UNCHANGED <<flag, told>>
    BY <1>8 DEF Sync2, Barrier, registers, states, memory
  <2>3. QED
    BY <1>a, <2>1, <2>2 DEF StatusWords
<1>9. ASSUME NEW r \in Ranks, NEW c \in Cores, ReadCounts(r, c)
      PROVE  StatusWords'
  <2>1. \A s \in Ranks, d \in Cores : \A x \in Share(d) :
          Announced(s, d, x)' = Announced(s, d, x)
    BY <1>9, <1>a, <1>b DEF ReadCounts, Goto, registers, states, memory,
       Announced
  <2>2. UNCHANGED <<flag, told>>
    BY <1>9 DEF ReadCounts, Goto, registers, states, memory
  <2>3. QED
    BY <1>a, <2>1, <2>2 DEF StatusWords
<1>10. ASSUME NEW r \in Ranks, NEW c \in Cores, NEW b \in Ranks \X Experts,
              CopyBlock(r, c, b)
       PROVE  StatusWords'
  <2>1. \A s \in Ranks, d \in Cores : \A x \in Share(d) :
          Announced(s, d, x)' = Announced(s, d, x)
    BY <1>10, <1>a, <1>b DEF CopyBlock, registers, states, memory, Announced
  <2>2. UNCHANGED <<flag, told>>
    BY <1>10 DEF CopyBlock, registers, states, memory
  <2>3. QED
    BY <1>a, <2>1, <2>2 DEF StatusWords
<1>11. ASSUME NEW r \in Ranks, NEW c \in Cores, FinishCopy(r, c)
       PROVE  StatusWords'
  <2>1. \A s \in Ranks, d \in Cores : \A x \in Share(d) :
          Announced(s, d, x)' = Announced(s, d, x)
    BY <1>11, <1>a, <1>b DEF FinishCopy, Goto, registers, states, Announced
  <2>2. UNCHANGED <<flag, told>>
    BY <1>11 DEF FinishCopy, Goto, registers, states
  <2>3. QED
    BY <1>a, <2>1, <2>2 DEF StatusWords
<1>12. ASSUME NEW r \in Ranks, Sync3(r)
       PROVE  StatusWords'
  <2>1. \A s \in Ranks, d \in Cores : \A x \in Share(d) :
          Announced(s, d, x)' = Announced(s, d, x)
    BY <1>12, <1>a, <1>b DEF Sync3, Barrier, registers, states, memory,
       Announced
  <2>2. UNCHANGED <<flag, told>>
    BY <1>12 DEF Sync3, Barrier, registers, states, memory
  <2>3. QED
    BY <1>a, <2>1, <2>2 DEF StatusWords
<1>13. ASSUME NEW r \in Ranks, NEW c \in Cores, Finish(r, c)
       PROVE  StatusWords'
  <2>1. \A s \in Ranks, d \in Cores : \A x \in Share(d) :
          Announced(s, d, x)' = Announced(s, d, x)
    BY <1>13, <1>a, <1>b DEF Finish, Goto, registers, states, memory, Announced
  <2>2. UNCHANGED <<flag, told>>
    BY <1>13 DEF Finish, Goto, registers, states, memory
  <2>3. QED
    BY <1>a, <2>1, <2>2 DEF StatusWords
<1>14. ASSUME UNCHANGED vars
       PROVE  StatusWords'
  BY <1>14, <1>a DEF vars, StatusWords, Announced
<1>15. QED
  BY <1>1, <1>2, <1>3, <1>4, <1>5, <1>6, <1>7, <1>8, <1>9, <1>10, <1>11,
     <1>12, <1>13, <1>14 DEF Next, SyncAll, Step

\* What has been announced stays announced.
LEMMA AnnouncedGrows ==
  ASSUME TypeOK, [Next]_vars
  PROVE  \A s \in Ranks, d \in Cores, x \in Experts :
           Announced(s, d, x) <= Announced(s, d, x)'
<1> USE DispatchAssumption DEF TypeOK
<1>1. ASSUME NEW r \in Ranks, NEW c \in Cores, Start(r, c)
      PROVE  \A s \in Ranks, d \in Cores, x \in Experts :
           Announced(s, d, x) <= Announced(s, d, x)'
  BY <1>1 DEF Start, Goto, memory, Announced
<1>2. ASSUME NEW r \in Ranks, NEW c \in Cores, NEW e \in Experts,
             SendTokens(r, c, e)
      PROVE  \A s \in Ranks, d \in Cores, x \in Experts :
           Announced(s, d, x) <= Announced(s, d, x)'
  BY <1>2 DEF SendTokens, registers, states, Announced
<1>3. ASSUME NEW r \in Ranks, NEW c \in Cores, FinishSend(r, c)
      PROVE  \A s \in Ranks, d \in Cores, x \in Experts :
           Announced(s, d, x) <= Announced(s, d, x)'
  BY <1>3 DEF FinishSend, Goto, registers, states, memory, Announced
<1>4. ASSUME NEW r \in Ranks, Sync1(r)
      PROVE  \A s \in Ranks, d \in Cores, x \in Experts :
           Announced(s, d, x) <= Announced(s, d, x)'
  BY <1>4 DEF Sync1, Barrier, registers, states, memory, Announced
<1>5. ASSUME NEW r \in Ranks, NEW c \in Cores, NEW e \in Experts,
             WriteStatus(r, c, e)
      PROVE  \A s \in Ranks, d \in Cores, x \in Experts :
           Announced(s, d, x) <= Announced(s, d, x)'
  BY <1>5 DEF WriteStatus, registers, states, Announced
<1>6. ASSUME NEW r \in Ranks, NEW c \in Cores, FinishStatus(r, c)
      PROVE  \A s \in Ranks, d \in Cores, x \in Experts :
           Announced(s, d, x) <= Announced(s, d, x)'
  BY <1>6 DEF FinishStatus, Goto, registers, states, memory, Announced
<1>7. ASSUME NEW r \in Ranks, NEW c \in Cores, Poll(r, c)
      PROVE  \A s \in Ranks, d \in Cores, x \in Experts :
           Announced(s, d, x) <= Announced(s, d, x)'
  BY <1>7 DEF Poll, Goto, registers, states, memory, Announced
<1>8. ASSUME NEW r \in Ranks, Sync2(r)
      PROVE  \A s \in Ranks, d \in Cores, x \in Experts :
           Announced(s, d, x) <= Announced(s, d, x)'
  BY <1>8 DEF Sync2, Barrier, registers, states, memory, Announced
<1>9. ASSUME NEW r \in Ranks, NEW c \in Cores, ReadCounts(r, c)
      PROVE  \A s \in Ranks, d \in Cores, x \in Experts :
           Announced(s, d, x) <= Announced(s, d, x)'
  BY <1>9 DEF ReadCounts, Goto, registers, states, memory, Announced
<1>10. ASSUME NEW r \in Ranks, NEW c \in Cores, NEW b \in Ranks \X Experts,
              CopyBlock(r, c, b)
       PROVE  \A s \in Ranks, d \in Cores, x \in Experts :
           Announced(s, d, x) <= Announced(s, d, x)'
  BY <1>10 DEF CopyBlock, registers, states, memory, Announced
<1>11. ASSUME NEW r \in Ranks, NEW c \in Cores, FinishCopy(r, c)
       PROVE  \A s \in Ranks, d \in Cores, x \in Experts :
           Announced(s, d, x) <= Announced(s, d, x)'
  BY <1>11 DEF FinishCopy, Goto, registers, states, Announced
<1>12. ASSUME NEW r \in Ranks, Sync3(r)
       PROVE  \A s \in Ranks, d \in Cores, x \in Experts :
           Announced(s, d, x) <= Announced(s, d, x)'
  BY <1>12 DEF Sync3, Barrier, registers, states, memory, Announced
<1>13. ASSUME NEW r \in Ranks, NEW c \in Cores, Finish(r, c)
       PROVE  \A s \in Ranks, d \in Cores, x \in Experts :
           Announced(s, d, x) <= Announced(s, d, x)'
  BY <1>13 DEF Finish, Goto, registers, states, memory, Announced
<1>14. ASSUME UNCHANGED vars
       PROVE  \A s \in Ranks, d \in Cores, x \in Experts :
           Announced(s, d, x) <= Announced(s, d, x)'
  BY <1>14 DEF vars, Announced
<1>15. QED
  BY <1>1, <1>2, <1>3, <1>4, <1>5, <1>6, <1>7, <1>8, <1>9, <1>10, <1>11,
     <1>12, <1>13, <1>14 DEF Next, SyncAll, Step

\* A core begins to read only together with the others of its rank, at Sync2.
LEMMA ReadingSteps ==
  ASSUME TypeOK, [Next]_vars, NEW p \in Ranks, NEW q \in Cores
  PROVE  \/ Reading(p, q)' = Reading(p, q)
         \/ /\ \A d \in Cores : pc[p][d] = "sync2"
            /\ Reading(p, q)' = round[p][q] + 1
<1> USE DispatchAssumption DEF TypeOK
<1> DEFINE Goal ==
             \/ Reading(p, q)' = Reading(p, q)
             \/ /\ \A d \in Cores : pc[p][d] = "sync2"
                /\ Reading(p, q)' = round[p][q] + 1
<1> SUFFICES Goal
  OBVIOUS
<1>1. ASSUME NEW r \in Ranks, NEW c \in Cores, Start(r, c)
      PROVE  Goal
  BY <1>1 DEF Start, Goto, memory, Reading
<1>2. ASSUME NEW r \in Ranks, NEW c \in Cores, NEW e \in Experts,
             SendTokens(r, c, e)
      PROVE  Goal
  BY <1>2 DEF SendTokens, registers, states, Reading
<1>3. ASSUME NEW r \in Ranks, NEW c \in Cores, FinishSend(r, c)
      PROVE  Goal
  BY <1>3 DEF FinishSend, Goto, registers, states, memory, Reading
<1>4. ASSUME NEW r \in Ranks, Sync1(r)
      PROVE  Goal
  BY <1>4 DEF Sync1, Barrier, registers, states, memory, Reading
<1>5. ASSUME NEW r \in Ranks, NEW c \in Cores, NEW e \in Experts,
             WriteStatus(r, c, e)
      PROVE  Goal
  BY <1>5 DEF WriteStatus, registers, states, Reading
<1>6. ASSUME NEW r \in Ranks, NEW c \in Cores, FinishStatus(r, c)
      PROVE  Goal
  BY <1>6 DEF FinishStatus, Goto, registers, states, memory, Reading
<1>7. ASSUME NEW r \in Ranks, NEW c \in Cores, Poll(r, c)
      PROVE  Goal
  BY <1>7 DEF Poll, Goto, registers, states, memory, Reading
<1>8. ASSUME NEW r \in Ranks, Sync2(r)
      PROVE  Goal
  BY <1>8 DEF Sync2, Barrier, registers, states, memory, Reading
<1>9. ASSUME NEW r \in Ranks, NEW c \in Cores, ReadCounts(r, c)
      PROVE  Goal
  BY <1>9 DEF ReadCounts, Goto, registers, states, memory, Reading
<1>10. ASSUME NEW r \in Ranks, NEW c \in Cores, NEW b \in Ranks \X Experts,
              CopyBlock(r, c, b)
       PROVE  Goal
  BY <1>10 DEF CopyBlock, registers, states, memory, Reading
<1>11. ASSUME NEW r \in Ranks, NEW c \in Cores, FinishCopy(r, c)
       PROVE  Goal
  BY <1>11 DEF FinishCopy, Goto, registers, states, Reading
<1>12. ASSUME NEW r \in Ranks, Sync3(r)
       PROVE  Goal
  BY <1>12 DEF Sync3, Barrier, registers, states, memory, Reading
<1>13. ASSUME NEW r \in Ranks, NEW c \in Cores, Finish(r, c)
       PROVE  Goal
  BY <1>13 DEF Finish, Goto, registers, states, memory, Reading
<1>14. ASSUME UNCHANGED vars
       PROVE  Goal
  BY <1>14 DEF vars, Reading
<1> HIDE DEF Goal
<1>15. QED
  BY <1>1, <1>2, <1>3, <1>4, <1>5, <1>6, <1>7, <1>8, <1>9, <1>10, <1>11,
     <1>12, <1>13, <1>14 DEF Next, SyncAll, Step

\* A core comes to Sync2 only by polling, and stays in its round there.
LEMMA PollSteps ==
  ASSUME TypeOK, [Next]_vars, NEW p \in Ranks, NEW q \in Cores,
         pc'[p][q] = "sync2"
  PROVE  /\ round'[p][q] = round[p][q]
         /\ pc[p][q] = "sync2" \/ Poll(p, q)
<1> USE DEF TypeOK
<1> DEFINE Goal ==
             /\ round'[p][q] = round[p][q]
             /\ pc[p][q] = "sync2" \/ Poll(p, q)
<1> SUFFICES Goal
  OBVIOUS
<1>1. ASSUME NEW r \in Ranks, NEW c \in Cores, Start(r, c)
      PROVE  Goal
  BY <1>1 DEF Start, Goto, memory
<1>2. ASSUME NEW r \in Ranks, NEW c \in Cores, NEW e \in Experts,
             SendTokens(r, c, e)
      PROVE  Goal
  BY <1>2 DEF SendTokens, registers, states
<1>3. ASSUME NEW r \in Ranks, NEW c \in Cores, FinishSend(r, c)
      PROVE  Goal
  BY <1>3 DEF FinishSend, Goto, registers, states, memory
<1>4. ASSUME NEW r \in Ranks, Sync1(r)
      PROVE  Goal
  BY <1>4 DEF Sync1, Barrier, registers, states, memory
<1>5. ASSUME NEW r \in Ranks, NEW c \in Cores, NEW e \in Experts,
             WriteStatus(r, c, e)
      PROVE  Goal
  BY <1>5 DEF WriteStatus, registers, states
<1>6. ASSUME NEW r \in Ranks, NEW c \in Cores, FinishStatus(r, c)
      PROVE  Goal
  BY <1>6 DEF FinishStatus, Goto, registers, states, memory
<1>7. ASSUME NEW r \in Ranks, NEW c \in Cores, Poll(r, c)
      PROVE  Goal
  BY <1>7 DEF Poll, Goto, registers, states, memory
<1>8. ASSUME NEW r \in Ranks, Sync2(r)
      PROVE  Goal
  BY <1>8 DEF Sync2, Barrier, registers, states, memory
<1>9. ASSUME NEW r \in Ranks, NEW c \in Cores, ReadCounts(r, c)
      PROVE  Goal
  BY <1>9 DEF ReadCounts, Goto, registers, states, memory
<1>10. ASSUME NEW r \in Ranks, NEW c \in Cores, NEW b \in Ranks \X Experts,
              CopyBlock(r, c, b)
       PROVE  Goal
  BY <1>10 DEF CopyBlock, registers, states, memory
<1>11. ASSUME NEW r \in Ranks, NEW c \in Cores, FinishCopy(r, c)
       PROVE  Goal
  BY <1>11 DEF FinishCopy, Goto, registers, states
<1>12. ASSUME NEW r \in Ranks, Sync3(r)
       PROVE  Goal
  BY <1>12 DEF Sync3, Barrier, registers, states, memory
<1>13. ASSUME NEW r \in Ranks, NEW c \in Cores, Finish(r, c)
       PROVE  Goal
  BY <1>13 DEF Finish, Goto, registers, states, memory
<1>14. ASSUME UNCHANGED vars
       PROVE  Goal
  BY <1>14 DEF vars
<1> HIDE DEF Goal
<1>15. QED
  BY <1>1, <1>2, <1>3, <1>4, <1>5, <1>6, <1>7, <1>8, <1>9, <1>10, <1>11,
     <1>12, <1>13, <1>14 DEF Next, SyncAll, Step

\* Flags of a slice that add up to the target are all what it is.
LEMMA AllOrNone ==
  ASSUME NEW slice, IsFiniteSet(slice), NEW raised \in SUBSET slice,
         NEW t \in {0, 1}, Cardinality(raised) = t * Cardinality(slice)
  PROVE  /\ t = 1 => raised = slice
         /\ t = 0 => raised = {}
<1>1. IsFiniteSet(raised) /\ Cardinality(slice) \in Nat
  BY FS_Subset, FS_CardinalityType
<1>2. ASSUME t = 1 PROVE raised = slice
  <2>1. Cardinality(raised) = Cardinality(slice)
    BY <1>1, <1>2
  <2>2. QED
    BY <2>1, FS_Subset
<1>3. ASSUME t = 0 PROVE raised = {}
  <2>1. Cardinality(raised) = 0
    BY <1>1, <1>3
  <2>2. QED
    BY <1>1, <2>1, FS_EmptySet
<1>4. QED
  BY <1>2, <1>3

\* There are finitely many ranks and status words.
LEMMA Finite ==
  /\ IsFiniteSet(Ranks)
  /\ \A r \in Ranks, c \in Cores : IsFiniteSet(InboxSlice(r, c))
<1>1. IsFiniteSet(Ranks) /\ IsFiniteSet(Experts)
  <2>1. R - 1 \in Int /\ ExpertNum - 1 \in Int /\ 0 \in Int
    BY Sizes
  <2>2. QED
    BY <2>1, FS_Interval DEF Ranks, Experts
<1>2. ASSUME NEW r \in Ranks, NEW c \in Cores
      PROVE  IsFiniteSet(InboxSlice(r, c))
  <2>1. InboxSlice(r, c) \in SUBSET (Ranks \X Experts)
    BY DEF InboxSlice, Inbox
  <2>2. QED
    BY <1>1, <2>1, FS_Product, FS_Subset
<1>3. QED
  BY <1>1, <1>2

\* A slice whose flags add up to the target holds only flags of this round, as
\* the ones of the last use of the half differ from the target.
LEMMA PollSound ==
  ASSUME IInv, NEW r \in Ranks, NEW c \in Cores, Poll(r, c),
         NEW b \in InboxSlice(r, c), NEW d \in Cores, b[2] \in Share(d)
  PROVE  round[r][c] < Announced(b[1], d, b[2])
<1> DEFINE s == b[1]
           e == b[2]
           n == round[r][c]
           slice == InboxSlice(r, c)
           raised == {a \in slice : flag[a[1]][a[2]][half[r][c]] = 1}
<1>1. s \in Ranks /\ e \in Experts /\ Home(e) = r
  BY DEF InboxSlice, Inbox
<1>2. TypeOK /\ Registers /\ StatusWords /\ Ahead /\ Lockstep
  BY DEF IInv
<1>3. /\ pc[r][c] = "wait"
      /\ Cardinality(raised) = target[r][c] * Cardinality(slice)
  BY DEF Poll
<1>4. /\ n \in Nat /\ half[r][c] = HalfOf(n) /\ HalfOf(n) \in Halves
      /\ target[r][c] = FlagOf(n) /\ FlagOf(n) \in {0, 1}
  BY <1>2, <1>3, Counters, RoundFacts DEF Registers
<1>5. flag[s][e][HalfOf(n)] = FlagOf(n)
  <2>1. /\ FlagOf(n) = 1 => raised = slice
        /\ FlagOf(n) = 0 => raised = {}
    <3>1. IsFiniteSet(slice) /\ raised \in SUBSET slice
      BY Finite
    <3>2. Cardinality(raised) = FlagOf(n) * Cardinality(slice)
      BY <1>3, <1>4
    <3> HIDE DEF slice, raised
    <3>3. QED
      BY <1>4, <3>1, <3>2, AllOrNone
  <2>2. flag[s][e][HalfOf(n)] \in {0, 1}
    BY <1>1, <1>2, <1>4 DEF TypeOK
  <2>3. b \in raised <=> flag[s][e][HalfOf(n)] = 1
    BY <1>4
  <2>4. QED
    BY <1>4, <2>1, <2>2, <2>3
<1>6. /\ flag[s][e][HalfOf(n)] = FlagOf(told[s][e][HalfOf(n)])
      /\ told[s][e][HalfOf(n)] = Last(HalfOf(n), Announced(s, d, e))
  BY <1>1, <1>2, <1>4 DEF StatusWords
<1>7. n <= Announced(s, d, e) /\ Announced(s, d, e) \in Nat
  <2>1. Reading(r, c) = n
    BY <1>3, <1>4 DEF Reading
  <2>2. QED
    BY <1>1, <1>2, <2>1, Counters DEF Ahead
<1>8. ASSUME Announced(s, d, e) = n PROVE FALSE
  <2>1. told[s][e][HalfOf(n)] = n - 2
    BY <1>4, <1>6, <1>8, LastFacts
  <2>2. FlagOf(n - 2) = 1 - FlagOf(n)
    BY <1>4, FlagFacts
  <2>3. FlagOf(n) = 1 - FlagOf(n)
    BY <1>5, <1>6, <2>1, <2>2
  <2>4. QED
    BY <1>4, <2>3
<1>9. QED
  BY <1>4, <1>7, <1>8

\* What a rank has begun to read had been announced, since each of its cores had
\* polled its slice, and stays announced.
LEMMA NextAhead ==
  ASSUME IInv, [Next]_vars
  PROVE  Ahead'
<1>1. TypeOK /\ Ahead /\ Polled /\ Lockstep
  BY DEF IInv
<1>2. SUFFICES ASSUME NEW r \in Ranks, NEW s \in Ranks, NEW d \in Cores,
                      NEW e \in Share(d), Home(e) = r, NEW c \in Cores
               PROVE  Reading(r, c)' <= Announced(s, d, e)'
  BY DEF Ahead, Share
<1>3. e \in Experts
  BY ShapesOK
<1>4. Announced(s, d, e) <= Announced(s, d, e)'
  BY <1>1, <1>3, AnnouncedGrows
<1>5. /\ Announced(s, d, e) \in Nat /\ Announced(s, d, e)' \in Nat
      /\ Reading(r, c) \in Nat /\ round[r][c] \in Nat
  <2>1. TypeOK'
    BY NextTypes DEF IInv
  <2>2. Announced(s, d, e)' \in Nat
    BY <1>3, <2>1, DispatchAssumption DEF TypeOK, Announced
  <2>3. QED
    BY <1>1, <1>3, <2>2, Counters
<1>6. CASE Reading(r, c)' = Reading(r, c)
  <2>1. Reading(r, c) <= Announced(s, d, e)
    BY <1>1, <1>2 DEF Ahead
  <2>2. QED
    BY <1>4, <1>5, <1>6, <2>1
<1>7. CASE /\ \A q \in Cores : pc[r][q] = "sync2"
           /\ Reading(r, c)' = round[r][c] + 1
  <2>1. <<s, e>> \in Inbox(r)
    BY <1>2, <1>3 DEF Inbox
  <2>2. PICK a \in Cores : <<s, e>> \in InboxSlice(r, a)
    BY <2>1, InboxCover
  <2>3. round[r][a] < Announced(s, d, e)
    BY <1>1, <1>2, <1>7, <2>2 DEF Polled
  <2>4. Reading(r, a) = Reading(r, c)
    BY <1>1 DEF Lockstep
  <2>5. round[r][a] = round[r][c]
    BY <1>1, <1>7, <2>4, Counters DEF Reading
  <2>6. QED
    BY <1>4, <1>5, <1>7, <2>3, <2>5
<1>8. QED
  BY <1>1, <1>6, <1>7, ReadingSteps

\* What a core has polled had been announced, and stays announced.
LEMMA NextPolled ==
  ASSUME IInv, [Next]_vars
  PROVE  Polled'
<1>1. TypeOK /\ Polled
  BY DEF IInv
<1>2. SUFFICES ASSUME NEW r \in Ranks, NEW c \in Cores, pc'[r][c] = "sync2",
                      NEW b \in InboxSlice(r, c), NEW d \in Cores,
                      b[2] \in Share(d)
               PROVE  round'[r][c] < Announced(b[1], d, b[2])'
  BY DEF Polled, Share, InboxSlice, Inbox
<1>3. b[1] \in Ranks /\ b[2] \in Experts
  BY DEF InboxSlice, Inbox
<1>4. /\ round'[r][c] = round[r][c]
      /\ pc[r][c] = "sync2" \/ Poll(r, c)
  BY <1>1, <1>2, PollSteps
<1>5. round[r][c] < Announced(b[1], d, b[2])
  <2>1. CASE pc[r][c] = "sync2"
    BY <1>1, <1>2, <2>1 DEF Polled
  <2>2. CASE Poll(r, c)
    BY <1>2, <2>2, PollSound
  <2>3. QED
    BY <1>4, <2>1, <2>2
<1>6. Announced(b[1], d, b[2]) <= Announced(b[1], d, b[2])'
  BY <1>1, <1>3, AnnouncedGrows
<1>7. /\ round[r][c] \in Nat /\ Announced(b[1], d, b[2]) \in Nat
      /\ Announced(b[1], d, b[2])' \in Nat
  <2>1. TypeOK'
    BY NextTypes DEF IInv
  <2>2. Announced(b[1], d, b[2])' \in Nat
    BY <1>3, <2>1, DispatchAssumption DEF TypeOK, Announced
  <2>3. QED
    BY <1>1, <1>3, <2>2, Counters
<1>8. QED
  BY <1>4, <1>5, <1>6, <1>7

-------------------------------------------------------------------------------
(***************************************************************************)
(* The invariant.                                                          *)
(***************************************************************************)
\* Before the first round a half holds what the round two before its first
\* would have left there.
LEMMA BeforeFirst ==
  ASSUME NEW h \in Halves
  PROVE  /\ Last(h, 0) = h - 2
         /\ FlagOf(h - 2) = 0
         /\ HalfOf(0) = 0
<1>a. ASSUME NEW n \in Nat
      PROVE  (n - 1) % 2 = 1 - (n % 2)
  OBVIOUS
<1>1. ASSUME NEW n \in Nat, n = 0
      PROVE  /\ HalfOf(n) = 0
             /\ Last(h, n) = h - 2
  <2>1. (n - 1) % 2 = 1 - (n % 2)
    BY <1>a
  <2>2. n % 2 = 0
    BY <1>1
  <2>3. QED
    BY <1>1, <2>1, <2>2 DEF HalfOf, Last, Halves
<1>2. HalfOf(0) = 0 /\ Last(h, 0) = h - 2
  BY <1>1
<1>3. ASSUME NEW n \in Int, n = -1 \/ n = -2
      PROVE  FlagOf(n) = 0
  BY <1>3 DEF FlagOf
<1>4. h - 2 = -2 \/ h - 2 = -1
  BY DEF Halves
<1>5. QED
  BY <1>2, <1>3, <1>4

\* Zeroed windows and words satisfy the invariant.
LEMMA InitIInv == Init => IInv
<1>1. SUFFICES ASSUME Init PROVE IInv
  OBVIOUS
<1>2. TypeOK /\ Bounded
  BY <1>1, InitTypes
<1>3. ASSUME NEW r \in Ranks, NEW c \in Cores
      PROVE  pc[r][c] = "idle" /\ round[r][c] = 0
  BY <1>1 DEF Init, PerCore
<1>4. ASSUME NEW r \in Ranks, NEW c \in Cores
      PROVE  /\ Announcing(r, c) = 0 /\ Reading(r, c) = 0
             /\ Started(r, c) = 0 /\ Counted(r, c) = 0 /\ Totalling(r, c) = 0
             /\ \A e \in Experts : /\ Delivered(r, c, e) = 0
                                   /\ Announced(r, c, e) = 0
  BY <1>3 DEF Announcing, Reading, Started, Counted, Totalling, Delivered,
              Announced
<1>5. Lockstep
  BY <1>4 DEF Lockstep
<1>6. Registers
  BY <1>1, <1>3, <1>4, BeforeFirst DEF Registers, Init, PerCore, Halves
<1>7. WorkLists
  BY <1>3 DEF WorkLists
<1>8. Windows
  <2>1. ASSUME NEW s \in Ranks, NEW c \in Cores, NEW h \in Halves,
               NEW e \in Targets(s, c)
        PROVE  window[s][e][h][c] = Last(h, Delivered(s, c, e))
    BY <1>1, <1>4, BeforeFirst, ShapesOK DEF Init, PerExpert
  <2>2. QED
    BY <2>1 DEF Windows
<1>9. StatusWords
  <2>1. ASSUME NEW s \in Ranks, NEW c \in Cores, NEW h \in Halves,
               NEW e \in Share(c)
        PROVE  /\ told[s][e][h] = Last(h, Announced(s, c, e))
               /\ flag[s][e][h] = FlagOf(told[s][e][h])
    BY <1>1, <1>4, BeforeFirst, ShapesOK DEF Init, PerExpert
  <2>2. QED
    BY <2>1 DEF StatusWords
<1>10. CountWords
  BY <1>1, <1>4 DEF CountWords, Init, PerCore
<1>11. Ahead
  BY <1>4, ShapesOK DEF Ahead
<1>12. Polled
  BY <1>3 DEF Polled
<1>13. QED
  BY <1>2, <1>5, <1>6, <1>7, <1>8, <1>9, <1>10, <1>11, <1>12 DEF IInv

\* Every step preserves it, one conjunct at a time.
LEMMA NextIInv ==
  ASSUME IInv, [Next]_vars
  PROVE  IInv'
<1>1. TypeOK' /\ Bounded'
  BY NextTypes DEF IInv
<1>2. QED
  BY <1>1, NextLockstep, NextRegisters, NextWorkLists, NextWindows,
     NextStatusWords, NextCountWords, NextAhead, NextPolled DEF IInv

\* Every word of memory and every register always holds what IInv says it does,
\* and no rank reads what has not been announced.
THEOREM DispatchInvariant == Spec => []IInv
<1>1. Init => IInv
  BY InitIInv
<1>2. IInv /\ [Next]_vars => IInv'
  BY NextIInv
<1>3. QED
  BY <1>1, <1>2, PTL DEF Spec

-------------------------------------------------------------------------------
(***************************************************************************)
(* What follows from it.                                                   *)
(***************************************************************************)
\* Status words that are read hold the round read, as ReadsRound says.
LEMMA SafeCounts == IInv => CountsFresh
BY ReadsRound DEF CountsFresh

\* Blocks that are copied hold the round read, as ReadsRound says.
LEMMA SafeTokens == IInv => TokensIntact
<1>1. SUFFICES ASSUME IInv, NEW r \in Ranks, NEW c \in Cores, pc[r][c] = "copy",
                      NEW b \in unread[r][c], NEW d \in Cores,
                      b[2] \in Targets(b[1], d)
               PROVE  window[b[1]][b[2]][half[r][c]][d] = round[r][c]
  BY DEF TokensIntact
<1>2. b \in Inbox(r)
  BY <1>1 DEF IInv, WorkLists, InboxSlice
<1>3. QED
  BY <1>1, <1>2, ReadsRound

\* Sync3 lets a core pass only when all have counted, and the next round starts
\* to count only after all have passed Sync2 of it.
LEMMA SafeTotals == IInv => TotalsComplete
<1>1. SUFFICES ASSUME IInv, NEW r \in Ranks, NEW c \in Cores, NEW d \in Cores,
                      pc[r][c] = "totals", r >= Shared, M > 1,
                      InboxSlice(r, d) # {}
               PROVE  sendCounts[r][d] = round[r][c]
  BY DEF TotalsComplete
<1>2. sendCounts[r][d] = Counted(r, d) - 1
  BY <1>1 DEF IInv, CountWords
<1>3. Totalling(r, c) = Totalling(r, d) /\ Reading(r, c) = Reading(r, d)
  BY <1>1 DEF IInv, Lockstep
<1>4. round[r][c] \in Nat /\ round[r][d] \in Nat
  BY <1>1, Counters DEF IInv
<1>5. QED
  BY <1>1, <1>2, <1>3, <1>4 DEF Counted, Totalling, Reading

\* Neither counter of a rank is more than one ahead of another rank's.
LEMMA SafeSteps == IInv => RanksInStep
<1>1. SUFFICES ASSUME IInv, NEW r \in Ranks, NEW s \in Ranks
               PROVE  /\ Contributed(r) <= Contributed(s) + 1
                      /\ Received(r) <= Contributed(s)
  BY DEF RanksInStep, Exchange!InStep
<1>2. 0 \in Cores
  BY Sizes DEF Cores
<1>3. /\ Announcing(r, 0) <= Announcing(s, 0) + 1
      /\ Reading(r, 0) <= Announcing(s, 0)
  BY <1>1, <1>2, Apart DEF IInv
<1>4. QED
  BY <1>3 DEF Contributed, Received, Announcing, Reading

\* A core only reads counts of its own round, whatever its rank's other cores
\* and the other ranks are doing.
THEOREM CountsAreFresh == Spec => []CountsFresh
BY DispatchInvariant, SafeCounts, PTL

\* No sender overwrites a block of tokens that has not been copied out, although
\* none waits for the receiver.
THEOREM TokensAreIntact == Spec => []TokensIntact
BY DispatchInvariant, SafeTokens, PTL

\* The totals of a rank are the sums of counts of one and the same round.
THEOREM TotalsAreComplete == Spec => []TotalsComplete
BY DispatchInvariant, SafeTotals, PTL

\* No rank ever runs more than one round ahead of another.
THEOREM RanksStayInStep == Spec => []RanksInStep
BY DispatchInvariant, SafeSteps, PTL

-------------------------------------------------------------------------------
(***************************************************************************)
(* The safety part of ImplementsExchange.                                  *)
(***************************************************************************)
\* The counters the refinement maps to are those of the invariant.
LEMMA Mapping ==
  ASSUME NEW r \in Ranks
  PROVE  /\ Contributed(r) = Announcing(r, 0)
         /\ Received(r) = Reading(r, 0)
BY DEF Contributed, Received, Announcing, Reading

\* The kernel starts where the exchange does.
LEMMA InitExchange == Init => Exchange!Init
<1>1. SUFFICES ASSUME Init, NEW r \in Ranks
               PROVE  Contributed(r) = 0 /\ Received(r) = 0
  BY DEF Exchange!Init
<1>2. 0 \in Cores
  BY Sizes DEF Cores
<1>3. QED
  BY <1>1, <1>2 DEF Init, PerCore, Contributed, Received

\* A step in which no counter of the exchange changes is a stutter of it.
LEMMA Stutter ==
  ASSUME \A r \in Ranks : /\ Contributed(r)' = Contributed(r)
                          /\ Received(r)' = Received(r)
  PROVE  UNCHANGED Exchange!vars
BY DEF Exchange!vars

\* Sync1 contributes: the rank has received the round before.
LEMMA Sync1Sends ==
  ASSUME IInv, NEW r \in Ranks, Sync1(r)
  PROVE  Exchange!Send(r)
<1>1. 0 \in Cores
  BY Sizes DEF Cores
<1>2. /\ pc[r][0] = "sync1" /\ pc'[r][0] = "status"
      /\ \A s \in Ranks : s # r => pc'[s] = pc[s]
      /\ round' = round
  BY <1>1 DEF Sync1, Barrier, IInv, TypeOK
<1>3. round[r][0] \in 0 .. MaxRound /\ round[r][0] < MaxRound
  BY <1>1, <1>2 DEF IInv, Bounded, TypeOK
<1>4. /\ Contributed(r) = round[r][0] /\ Received(r) = round[r][0]
      /\ Contributed(r)' = round[r][0] + 1 /\ Received(r)' = round[r][0]
  BY <1>2, <1>3 DEF Contributed, Received
<1>5. \A s \in Ranks : s # r => /\ Contributed(s)' = Contributed(s)
                                /\ Received(s)' = Received(s)
  BY <1>2 DEF Contributed, Received
<1>6. QED
  BY <1>3, <1>4, <1>5 DEF Exchange!Send

\* Sync2 receives: each core of the rank has polled its slice, so every rank has
\* contributed.
LEMMA Sync2Receives ==
  ASSUME IInv, NEW r \in Ranks, Sync2(r)
  PROVE  Exchange!Receive(r)
<1>1. 0 \in Cores
  BY Sizes DEF Cores
<1>2. /\ \A c \in Cores : pc[r][c] = "sync2"
      /\ pc'[r][0] = "counts"
      /\ \A s \in Ranks : s # r => pc'[s] = pc[s]
      /\ round' = round
  BY <1>1 DEF Sync2, Barrier, IInv, TypeOK
<1>3. round[r][0] \in Nat
  BY <1>1, Counters DEF IInv
<1>4. /\ Contributed(r) = round[r][0] + 1 /\ Received(r) = round[r][0]
      /\ Contributed(r)' = round[r][0] + 1 /\ Received(r)' = round[r][0] + 1
  BY <1>1, <1>2, <1>3 DEF Contributed, Received
<1>5. \A s \in Ranks : s # r => /\ Contributed(s)' = Contributed(s)
                                /\ Received(s)' = Received(s)
  BY <1>2 DEF Contributed, Received
<1>6. ASSUME NEW s \in Ranks
      PROVE  Received(r) < Contributed(s)
  <2>1. PICK e \in Experts : Home(e) = r
    BY SomeExpert
  <2>2. PICK d \in Cores : e \in Share(d)
    BY SomeAnnouncer
  <2>3. <<s, e>> \in Inbox(r)
    BY <2>1 DEF Inbox
  <2>4. PICK c \in Cores : <<s, e>> \in InboxSlice(r, c)
    BY <2>3, InboxCover
  <2>5. round[r][c] < Announced(s, d, e)
    BY <1>2, <2>2, <2>4 DEF IInv, Polled
  <2>6. round[r][c] = round[r][0]
    <3>1. Reading(r, c) = Reading(r, 0)
      BY <1>1 DEF IInv, Lockstep
    <3>2. round[r][c] \in Nat
      BY Counters DEF IInv
    <3>3. QED
      BY <1>1, <1>2, <1>3, <3>1, <3>2 DEF Reading
  <2>7. /\ Announced(s, d, e) \in Nat /\ Announcing(s, d) \in Nat
        /\ Announced(s, d, e) <= Announcing(s, d)
    BY Counters DEF IInv
  <2>8. Announcing(s, d) = Contributed(s)
    BY <1>1, Mapping DEF IInv, Lockstep
  <2>9. QED
    BY <1>3, <1>4, <2>5, <2>6, <2>7, <2>8
<1>7. QED
  BY <1>4, <1>5, <1>6 DEF Exchange!Receive

\* Every step of the kernel is a step of the exchange, or leaves it alone.
LEMMA NextExchange ==
  ASSUME IInv, [Next]_vars
  PROVE  [Exchange!Next]_(Exchange!vars)
<1> DEFINE Same == \A s \in Ranks : /\ Contributed(s)' = Contributed(s)
                                    /\ Received(s)' = Received(s)
           Goal == [Exchange!Next]_(Exchange!vars)
<1>a. /\ \A s \in Ranks : pc[s][0] \in Labels /\ round[s][0] \in Nat
      /\ 0 \in Cores
  BY Sizes, Counters DEF IInv, TypeOK, Cores
<1>1. ASSUME NEW r \in Ranks, NEW c \in Cores, Start(r, c)
      PROVE  Same
  BY <1>1, <1>a DEF Start, Goto, Contributed, Received, IInv, TypeOK
<1>2. ASSUME NEW r \in Ranks, NEW c \in Cores, NEW e \in Experts,
             SendTokens(r, c, e)
      PROVE  Same
  BY <1>2, <1>a DEF SendTokens, Contributed, Received, IInv, TypeOK
<1>3. ASSUME NEW r \in Ranks, NEW c \in Cores, FinishSend(r, c)
      PROVE  Same
  BY <1>3, <1>a DEF FinishSend, Goto, Contributed, Received, IInv, TypeOK
<1>4. ASSUME NEW r \in Ranks, Sync1(r) PROVE Goal
  BY <1>4, Sync1Sends DEF Exchange!Next
<1>5. ASSUME NEW r \in Ranks, NEW c \in Cores, NEW e \in Experts,
             WriteStatus(r, c, e)
      PROVE  Same
  BY <1>5, <1>a DEF WriteStatus, Contributed, Received, IInv, TypeOK
<1>6. ASSUME NEW r \in Ranks, NEW c \in Cores, FinishStatus(r, c)
      PROVE  Same
  BY <1>6, <1>a DEF FinishStatus, Goto, Contributed, Received, IInv, TypeOK
<1>7. ASSUME NEW r \in Ranks, NEW c \in Cores, Poll(r, c)
      PROVE  Same
  BY <1>7, <1>a DEF Poll, Goto, Contributed, Received, IInv, TypeOK
<1>8. ASSUME NEW r \in Ranks, Sync2(r) PROVE Goal
  BY <1>8, Sync2Receives DEF Exchange!Next
<1>9. ASSUME NEW r \in Ranks, NEW c \in Cores, ReadCounts(r, c)
      PROVE  Same
  BY <1>9, <1>a DEF ReadCounts, Goto, Contributed, Received, IInv, TypeOK
<1>10. ASSUME NEW r \in Ranks, NEW c \in Cores, NEW b \in Ranks \X Experts,
              CopyBlock(r, c, b)
       PROVE  Same
  BY <1>10, <1>a DEF CopyBlock, Contributed, Received, IInv, TypeOK
<1>11. ASSUME NEW r \in Ranks, NEW c \in Cores, FinishCopy(r, c)
       PROVE  Same
  BY <1>11, <1>a DEF FinishCopy, Goto, Contributed, Received, IInv, TypeOK
<1>12. ASSUME NEW r \in Ranks, Sync3(r)
       PROVE  Same
  BY <1>12, <1>a DEF Sync3, Barrier, Contributed, Received, IInv, TypeOK
<1>13. ASSUME NEW r \in Ranks, NEW c \in Cores, Finish(r, c)
       PROVE  Same
  BY <1>13, <1>a DEF Finish, Goto, Contributed, Received, IInv, TypeOK
<1>14. ASSUME UNCHANGED vars
       PROVE  Same
  BY <1>14 DEF vars, Contributed, Received
<1>15. Same => Goal
  BY Stutter
<1> HIDE DEF Same, Goal
<1>16. Goal
  BY <1>1, <1>2, <1>3, <1>4, <1>5, <1>6, <1>7, <1>8, <1>9, <1>10, <1>11,
     <1>12, <1>13, <1>14, <1>15 DEF Next, SyncAll, Step
<1>17. QED
  BY <1>16 DEF Goal

\* Without its fairness, the exchange is implemented by the windows, flags and
\* barriers for any number of ranks, cores, experts and rounds.
THEOREM ExchangeIsImplemented ==
  Spec => Exchange!Init /\ [][Exchange!Next]_(Exchange!vars)
<1>1. Init => Exchange!Init
  BY InitExchange
<1>2. IInv /\ [Next]_vars => [Exchange!Next]_(Exchange!vars)
  BY NextExchange
<1>3. QED
  BY <1>1, <1>2, DispatchInvariant, PTL DEF Spec

-------------------------------------------------------------------------------
(***************************************************************************)
(* Ranks as items of a work list.                                          *)
(***************************************************************************)
\* A rank serves and polls with each core only ranks there are, which are fewer
\* than the experts.
LEMMA PeersOK ==
  /\ Ranks \subseteq Experts
  /\ \A c \in Cores : Peers(c) \subseteq Ranks /\ Peers(c) \subseteq Experts
<1>1. (R - Shared) * 1 <= (R - Shared) * M
  BY Sizes, MulMono, DispatchAssumption
<1>2. R <= ExpertNum
  BY <1>1, Sizes, DispatchAssumption
<1>3. Ranks \subseteq Experts
  BY <1>2, Sizes DEF Ranks, Experts
<1>4. QED
  BY <1>3 DEF Peers, Slice, Ranks

\* A rank belongs to one core ...
LEMMA OnePeer ==
  ASSUME NEW c \in Cores, NEW d \in Cores, NEW q \in Peers(c), q \in Peers(d)
  PROVE  c = d
BY Sizes, SliceDisjoint DEF Peers, Cores

\* ... and there is one it belongs to.
LEMMA SomePeer ==
  ASSUME NEW q \in Ranks
  PROVE  \E c \in Cores : q \in Peers(c)
BY Sizes, SliceCover DEF Peers, Cores, Ranks

\* The status word of combine for a rank is that of an expert of the rank.
LEMMA FirstExpertOK ==
  ASSUME NEW q \in Ranks
  PROVE  FirstExpert(q) \in Experts /\ Home(FirstExpert(q)) = q
<1>1. CASE q < Shared
  BY <1>1, PeersOK, Sizes DEF FirstExpert, Home, Ranks
<1>2. CASE Shared <= q
  <2>1. PICK n \in Nat : q = Shared + n /\ n + 1 <= R - Shared
    <3>1. q - Shared \in Nat /\ q = Shared + (q - Shared)
      BY <1>2, Sizes DEF Ranks
    <3>2. QED
      BY <3>1, Sizes DEF Ranks
  <2>2. n * M \in Nat /\ (n + 1) * M = n * M + M /\ q - Shared = n
    BY <2>1, Sizes
  <2>3. M * (n + 1) <= M * (R - Shared)
    BY <2>1, Sizes, MulMono
  <2>4. M * (n + 1) = (n + 1) * M /\ M * (R - Shared) = (R - Shared) * M
    BY Sizes DEF Ranks
  <2>5. FirstExpert(q) = Shared + n * M
    BY <1>2, <2>1, <2>2, Sizes DEF FirstExpert, Ranks
  <2>6. Shared + n * M \in Experts
    BY <2>2, <2>3, <2>4, Sizes DEF Experts
  <2>7. (n * M) \div M = n
    BY Sizes
  <2>8. Home(Shared + n * M) = q
    BY <2>1, <2>2, <2>7, Sizes DEF Home
  <2>9. QED
    BY <2>5, <2>6, <2>8
<1>3. QED
  BY <1>1, <1>2, Sizes DEF Ranks

\* Blocks are written to by one sender for one receiver.
LEMMA BlocksApart ==
  ASSUME NEW r \in Ranks, NEW q \in Ranks, NEW s \in Ranks, NEW p \in Ranks,
         NEW b \in BlocksFor(r, q), b \in BlocksFor(s, p)
  PROVE  r = s /\ q = p
BY DEF BlocksFor

\* A round belongs to one of the kernels, and the next one to the other.
LEMMA Turns ==
  ASSUME NEW n \in Nat
  PROVE  /\ n % 2 \in {0, 1} /\ HalfOf(n) = n % 2
         /\ (n + 1) % 2 = 1 - (n % 2)
BY DEF HalfOf

\* The last round of a half, where a half belongs to a kernel.
LEMMA LastOfKernel ==
  ASSUME NEW n \in Nat
  PROVE  /\ n % 2 = 0 => /\ Last(0, n) = n - 2 /\ Last(0, n + 1) = n
                         /\ Last(0, n + 2) = n
                         /\ Last(1, n) = n - 1 /\ Last(1, n + 1) = n - 1
         /\ n % 2 = 1 => /\ Last(1, n) = n - 2 /\ Last(1, n + 1) = n
                         /\ Last(1, n + 2) = n
                         /\ Last(0, n) = n - 1 /\ Last(0, n + 1) = n - 1
BY DEF Last
-------------------------------------------------------------------------------
(***************************************************************************)
(* Types, and what a step does to a core.                                  *)
(***************************************************************************)
\* Steps of the pair that are not combine's are steps of dispatch.
LEMMA PairCases ==
  ASSUME [PairNext]_vars
  PROVE  \/ UNCHANGED vars
         \/ \E r \in Ranks : (\A c \in Cores : Dispatching(r, c)) /\ SyncAll(r)
         \/ \E r \in Ranks, c \in Cores :
              Dispatching(r, c) /\ Launched(r, c) /\ Step(r, c)
         \/ \E r \in Ranks : CombineSync(r)
         \/ \E r \in Ranks, c \in Cores : CombineStep(r, c)
BY Zenon DEF PairNext, PairSync, DispatchStep

\* Types hold after every step of either kernel.
LEMMA PairTypes ==
  ASSUME TypeOK, Bounded, [PairNext]_vars
  PROVE  TypeOK' /\ Bounded'
<1>a. ASSUME NEW r \in Ranks, NEW c \in Cores
      PROVE  /\ round[r][c] \in 0 .. MaxRound
             /\ half[r][c] \in Halves
             /\ target[r][c] \in {0, 1}
             /\ dataState[r][c] \in Halves
             /\ selfState[r][c] \in [Halves -> {0, 1}]
             /\ pc[r][c] # "idle" => round[r][c] < MaxRound
  BY DEF TypeOK, Bounded
<1>b. ASSUME NEW r \in Ranks, NEW c \in Cores, pc[r][c] # "idle"
      PROVE  /\ round[r][c] \in -2 .. MaxRound - 1
             /\ round[r][c] + 1 \in 0 .. MaxRound
  BY <1>a, <1>b, DispatchAssumption
<1>1. ASSUME Next \/ UNCHANGED vars
      PROVE  TypeOK' /\ Bounded'
  BY <1>1, NextTypes
<1> USE PeersOK DEF TypeOK, Bounded
<1>2. ASSUME NEW r \in Ranks, CombineSync(r)
      PROVE  TypeOK' /\ Bounded'
  <2>1. Inbox(r) \subseteq Ranks \X Experts
    BY DEF Inbox
  <2>2. QED
    BY <1>2, <2>1 DEF CombineSync, Barrier, Labels, registers, states, memory
<1>3. ASSUME NEW r \in Ranks, NEW c \in Cores, CombineStart(r, c)
      PROVE  TypeOK' /\ Bounded'
  <2> DEFINE h == dataState[r][c]
  <2>1. h \in Halves /\ 1 - h \in Halves
    BY <1>a DEF Halves
  <2>2. 1 - selfState[r][c][h] \in {0, 1}
    <3>1. selfState[r][c][h] \in {0, 1}
      BY <1>a, <2>1
    <3>2. QED
      BY <3>1
  <2>3. Bounded'
    BY <1>3 DEF CombineStart, Goto
  <2>4. dataState' \in [Ranks -> [Cores -> Halves]]
    BY <1>3, <2>1 DEF CombineStart
  <2>5. selfState' \in [Ranks -> [Cores -> [Halves -> {0, 1}]]]
    BY <1>3, <2>1, <2>2 DEF CombineStart
  <2>6. /\ half' \in [Ranks -> [Cores -> Halves]]
        /\ target' \in [Ranks -> [Cores -> {0, 1}]]
    BY <1>3, <2>1, <2>2 DEF CombineStart
  <2>7. QED
    BY <1>3, <2>3, <2>4, <2>5, <2>6 DEF CombineStart, Goto, Labels, memory
<1>4. ASSUME NEW r \in Ranks, NEW c \in Cores, NEW d \in Ranks,
             SendResults(r, c, d)
      PROVE  TypeOK' /\ Bounded'
  <2>1. round[r][c] \in -2 .. MaxRound - 1 /\ half[r][c] \in Halves
    BY <1>4, <1>a, <1>b DEF SendResults
  <2>2. window' \in
          [Ranks -> [Experts -> [Halves -> [Cores -> -2 .. MaxRound - 1]]]]
    BY <1>4, <2>1 DEF SendResults
  <2>3. QED
    BY <1>4, <2>2 DEF SendResults, registers, states
<1>5. ASSUME NEW r \in Ranks, NEW c \in Cores, FinishResults(r, c)
      PROVE  TypeOK' /\ Bounded'
  BY <1>5 DEF FinishResults, Goto, Labels, registers, states, memory
<1>6. ASSUME NEW r \in Ranks, NEW c \in Cores, NEW d \in Ranks,
             RaiseFlag(r, c, d)
      PROVE  TypeOK' /\ Bounded'
  <2>1. round[r][c] \in -2 .. MaxRound - 1 /\ half[r][c] \in Halves
    BY <1>6, <1>a, <1>b DEF RaiseFlag
  <2>2. told' \in [Ranks -> [Experts -> [Halves -> -2 .. MaxRound - 1]]]
    BY <1>6, <2>1, FirstExpertOK DEF RaiseFlag
  <2>3. flag' \in [Ranks -> [Experts -> [Halves -> {0, 1}]]]
    BY <1>6, <2>1, FirstExpertOK DEF RaiseFlag
  <2>4. QED
    BY <1>6, <2>2, <2>3 DEF RaiseFlag, registers, states
<1>7. ASSUME NEW r \in Ranks, NEW c \in Cores, FinishStatus(r, c)
      PROVE  TypeOK' /\ Bounded'
  BY <1>7 DEF FinishStatus, Goto, Labels, registers, states, memory
<1>8. ASSUME NEW r \in Ranks, NEW c \in Cores, PollFlags(r, c)
      PROVE  TypeOK' /\ Bounded'
  BY <1>8 DEF PollFlags, Goto, Labels, registers, states, memory
<1>9. ASSUME NEW r \in Ranks, NEW c \in Cores, FinishGather(r, c)
      PROVE  TypeOK' /\ Bounded'
  <2>1. round[r][c] + 1 \in 0 .. MaxRound
    BY <1>9, <1>b DEF FinishGather
  <2>2. round' \in [Ranks -> [Cores -> 0 .. MaxRound]]
    BY <1>9, <2>1 DEF FinishGather
  <2>3. QED
    BY <1>9, <2>2 DEF FinishGather, Goto, Labels, registers, states, memory
<1>10. \A r \in Ranks, c \in Cores : CombineStep(r, c) => TypeOK' /\ Bounded'
  BY <1>3, <1>4, <1>5, <1>6, <1>7, <1>8, <1>9, Zenon DEF CombineStep
<1>11. QED
  BY PairCases, <1>1, <1>2, <1>10, Zenon DEF Next

\* Every step of the pair moves a core in one of the ways of Moves.
LEMMA PairMoves ==
  ASSUME TypeOK, [PairNext]_vars, NEW p \in Ranks, NEW q \in Cores
  PROVE  Moves(p, q)
<1> USE DEF TypeOK
<1>1. ASSUME NEW r \in Ranks, NEW c \in Cores, Dispatching(r, c),
             Launched(r, c), Step(r, c)
      PROVE  Moves(p, q)
  <2>1. CASE Start(r, c)
    BY <1>1, <2>1 DEF Start, Goto, memory, Launched, Moves, Stays, Begins
  <2>2. ASSUME NEW e \in Experts, SendTokens(r, c, e)
        PROVE  Moves(p, q)
    BY <1>1, <2>2 DEF SendTokens, Moves, Stays, Serves
  <2>3. CASE FinishSend(r, c)
    BY <1>1, <2>3 DEF FinishSend, Goto, Moves, Stays, HasSent
  <2>4. ASSUME NEW e \in Experts, WriteStatus(r, c, e)
        PROVE  Moves(p, q)
    BY <1>1, <2>4 DEF WriteStatus, Moves, Stays, Serves
  <2>5. CASE FinishStatus(r, c)
    BY <1>1, <2>5 DEF FinishStatus, Goto, Moves, Stays, HasAnnounced
  <2>6. CASE Poll(r, c)
    <3>1. /\ pc[r][c] = "wait" /\ pc' = [pc EXCEPT ![r][c] = "sync2"]
          /\ UNCHANGED <<round, todo, unread>>
      BY <2>6 DEF Poll, Goto
    <3>2. CASE <<p, q>> = <<r, c>>
      BY <1>1, <2>6, <3>1, <3>2 DEF Moves, Polls
    <3>3. CASE <<p, q>> # <<r, c>>
      BY <3>1, <3>3 DEF Moves, Stays
    <3>4. QED
      BY <3>2, <3>3
  <2>7. CASE ReadCounts(r, c)
    BY <1>1, <2>7 DEF ReadCounts, Goto, Moves, Stays, Reads
  <2>8. ASSUME NEW b \in Ranks \X Experts, CopyBlock(r, c, b)
        PROVE  Moves(p, q)
    BY <1>1, <2>8 DEF CopyBlock, Moves, Stays
  <2>9. CASE FinishCopy(r, c)
    BY <1>1, <2>9 DEF FinishCopy, Goto, Moves, Stays, Reads
  <2>10. CASE Finish(r, c)
    BY <1>1, <2>10 DEF Finish, Goto, Moves, Stays, Ends
  <2>11. QED
    BY <1>1, <2>1, <2>2, <2>3, <2>4, <2>5, <2>6, <2>7, <2>8, <2>9, <2>10
       DEF Step
<1>2. ASSUME NEW r \in Ranks, \A c \in Cores : Dispatching(r, c), SyncAll(r)
      PROVE  Moves(p, q)
  <2>1. CASE Sync1(r)
    BY <1>2, <2>1 DEF Sync1, Barrier, Share, Moves, Stays, Announces
  <2>2. CASE Sync2(r)
    BY <1>2, <2>2 DEF Sync2, Barrier, Moves, Stays, Receives
  <2>3. CASE Sync3(r)
    BY <1>2, <2>3 DEF Sync3, Barrier, Moves, Stays, Reads
  <2>4. QED
    BY <1>2, <2>1, <2>2, <2>3 DEF SyncAll
<1>3. ASSUME NEW r \in Ranks, CombineSync(r)
      PROVE  Moves(p, q)
  BY <1>3 DEF CombineSync, Barrier, Moves, Stays, Receives
<1>4. ASSUME NEW r \in Ranks, NEW c \in Cores, CombineStep(r, c)
      PROVE  Moves(p, q)
  <2>a. Combining(r, c) /\ Launched(r, c)
    BY <1>4 DEF CombineStep
  <2>b. ~ Dispatching(r, c)
    BY <2>a DEF Combining, Dispatching
  <2>1. CASE CombineStart(r, c)
    BY <2>a, <2>b, <2>1
       DEF CombineStart, Goto, memory, Launched, Moves, Stays, Begins
  <2>2. ASSUME NEW d \in Ranks, SendResults(r, c, d)
        PROVE  Moves(p, q)
    BY <2>2 DEF SendResults, Moves, Stays, Serves
  <2>3. CASE FinishResults(r, c)
    BY <2>a, <2>3 DEF FinishResults, Goto, Moves, Stays, HasSent
  <2>4. ASSUME NEW d \in Ranks, RaiseFlag(r, c, d)
        PROVE  Moves(p, q)
    BY <2>4 DEF RaiseFlag, Moves, Stays, Serves
  <2>5. CASE FinishStatus(r, c)
    BY <2>5 DEF FinishStatus, Goto, Moves, Stays, HasAnnounced
  <2>6. CASE PollFlags(r, c)
    <3>1. /\ pc[r][c] = "wait" /\ pc' = [pc EXCEPT ![r][c] = "sync2"]
          /\ UNCHANGED <<round, todo, unread>>
      BY <2>6 DEF PollFlags, Goto
    <3>2. CASE <<p, q>> = <<r, c>>
      BY <2>a, <2>6, <3>1, <3>2 DEF Moves, Polls
    <3>3. CASE <<p, q>> # <<r, c>>
      BY <3>1, <3>3 DEF Moves, Stays
    <3>4. QED
      BY <3>2, <3>3
  <2>7. CASE FinishGather(r, c)
    BY <2>b, <2>7 DEF FinishGather, Goto, Moves, Stays, Ends
  <2>8. QED
    BY <1>4, <2>1, <2>2, <2>3, <2>4, <2>5, <2>6, <2>7 DEF CombineStep
<1>5. CASE UNCHANGED vars
  BY <1>5 DEF vars, Moves, Stays
<1>6. QED
  BY PairCases, <1>1, <1>2, <1>3, <1>4, <1>5, Zenon

-------------------------------------------------------------------------------
(***************************************************************************)
(* The counters of a core from move to move.                               *)
(***************************************************************************)
\* What has been announced stays announced, and rounds are not taken back.
LEMMA CountersGrow ==
  ASSUME TypeOK, NEW r \in Ranks, NEW c \in Cores, Moves(r, c)
  PROVE  /\ round[r][c] <= round'[r][c]
         /\ Announcing(r, c) <= Announcing(r, c)'
         /\ \A x \in Experts : Announced(r, c, x) <= Announced(r, c, x)'
<1>1. round[r][c] \in Nat
  BY Counters
<1>2. round[r][c] <= round'[r][c] /\ Announcing(r, c) <= Announcing(r, c)'
  BY <1>1 DEF Moves, Stays, Begins, Serves, HasSent, Announces, HasAnnounced,
     Polls, Receives, Reads, Ends, Announcing
<1>3. ASSUME NEW x \in Experts
      PROVE  Announced(r, c, x) <= Announced(r, c, x)'
  BY <1>1 DEF Moves, Stays, Begins, Serves, HasSent, Announces, HasAnnounced,
     Polls, Receives, Reads, Ends, Announced
<1>4. QED
  BY <1>2, <1>3

\* A core begins to read only with the others of its rank.
LEMMA ReadingMoves ==
  ASSUME TypeOK, NEW r \in Ranks, NEW c \in Cores, Moves(r, c)
  PROVE  \/ Reading(r, c)' = Reading(r, c)
         \/ Receives(r, c) /\ Reading(r, c)' = round[r][c] + 1
<1>1. round[r][c] \in Nat
  BY Counters
<1>2. QED
  BY <1>1 DEF Moves, Stays, Begins, Serves, HasSent, Announces, HasAnnounced,
     Polls, Receives, Reads, Ends, Reading

\* Except when it sends, a core has delivered what it had.
LEMMA DeliveredMoves ==
  ASSUME TypeOK, PairLists, NEW r \in Ranks, NEW c \in Cores, Moves(r, c),
         ~ (Serves(r, c) /\ pc[r][c] = "send")
  PROVE  /\ \A e \in Targets(r, c) :
              Last(0, Delivered(r, c, e))' = Last(0, Delivered(r, c, e))
         /\ \A q \in Peers(c) :
              Last(1, Delivered(r, c, q))' = Last(1, Delivered(r, c, q))
<1> DEFINE n == round[r][c]
<1>1. n \in Nat /\ n + 1 \in Nat
  BY Counters
<1>2. /\ n % 2 \in {0, 1}
      /\ n % 2 = 1 => Last(0, n + 1) = Last(0, n)
      /\ n % 2 = 0 => Last(1, n + 1) = Last(1, n)
  BY <1>1, Turns, LastOfKernel
<1>3. ASSUME NEW x,
             \/ Dispatching(r, c) /\ x \in Targets(r, c)
             \/ Combining(r, c) /\ x \in Peers(c)
      PROVE  Delivered(r, c, x)' = Delivered(r, c, x)
  BY <1>1, <1>3 DEF Moves, Stays, Begins, Serves, HasSent, Announces,
     HasAnnounced, Polls, Receives, Reads, Ends, Delivered, Dispatching, Combining
<1>4. ASSUME NEW x
      PROVE  Delivered(r, c, x) \in {n, n + 1} /\ Delivered(r, c, x)' \in {n, n + 1}
  BY <1>1 DEF Moves, Stays, Begins, Serves, HasSent, Announces,
     HasAnnounced, Polls, Receives, Reads, Ends, Delivered
<1>5. ASSUME NEW h, NEW x, Delivered(r, c, x)' = Delivered(r, c, x)
      PROVE  Last(h, Delivered(r, c, x))' = Last(h, Delivered(r, c, x))
  BY <1>5 DEF Last
<1>6. ASSUME NEW h, NEW x, Last(h, n + 1) = Last(h, n)
      PROVE  Last(h, Delivered(r, c, x))' = Last(h, Delivered(r, c, x))
  BY <1>4, <1>6 DEF Last
<1>7. QED
  BY <1>2, <1>3, <1>5, <1>6 DEF Dispatching, Combining

\* Except when it announces, a core has announced what it had.
LEMMA AnnouncedMoves ==
  ASSUME TypeOK, PairLists, NEW r \in Ranks, NEW c \in Cores, Moves(r, c),
         ~ (Serves(r, c) /\ pc[r][c] = "status")
  PROVE  /\ \A e \in Share(c) :
              Last(0, Announced(r, c, e))' = Last(0, Announced(r, c, e))
         /\ \A q \in Peers(c) :
              Last(1, Announced(r, c, q))' = Last(1, Announced(r, c, q))
<1> DEFINE n == round[r][c]
<1>1. n \in Nat /\ n + 1 \in Nat
  BY Counters
<1>2. /\ n % 2 \in {0, 1}
      /\ n % 2 = 1 => Last(0, n + 1) = Last(0, n)
      /\ n % 2 = 0 => Last(1, n + 1) = Last(1, n)
  BY <1>1, Turns, LastOfKernel
<1>3. ASSUME NEW x,
             \/ Dispatching(r, c) /\ x \in Share(c)
             \/ Combining(r, c) /\ x \in Peers(c)
      PROVE  Announced(r, c, x)' = Announced(r, c, x)
  BY <1>1, <1>3 DEF Moves, Stays, Begins, Serves, HasSent, Announces,
     HasAnnounced, Polls, Receives, Reads, Ends, Announced, Dispatching, Combining
<1>4. ASSUME NEW x
      PROVE  Announced(r, c, x) \in {n, n + 1} /\ Announced(r, c, x)' \in {n, n + 1}
  BY <1>1 DEF Moves, Stays, Begins, Serves, HasSent, Announces,
     HasAnnounced, Polls, Receives, Reads, Ends, Announced
<1>5. ASSUME NEW h, NEW x, Announced(r, c, x)' = Announced(r, c, x)
      PROVE  Last(h, Announced(r, c, x))' = Last(h, Announced(r, c, x))
  BY <1>5 DEF Last
<1>6. ASSUME NEW h, NEW x, Last(h, n + 1) = Last(h, n)
      PROVE  Last(h, Announced(r, c, x))' = Last(h, Announced(r, c, x))
  BY <1>4, <1>6 DEF Last
<1>7. QED
  BY <1>2, <1>3, <1>5, <1>6 DEF Dispatching, Combining

-------------------------------------------------------------------------------
(***************************************************************************)
(* The conjuncts that follow from the moves alone.                         *)
(***************************************************************************)
\* A core begins an invocation when the others have ended the last one.
LEMMA NextLaunches ==
  ASSUME PairInv, [PairNext]_vars
  PROVE  Launches'
<1>1. SUFFICES ASSUME NEW r \in Ranks, NEW c \in Cores, NEW d \in Cores,
                      pc'[r][c] # "idle"
               PROVE  round'[r][c] <= round'[r][d]
  BY DEF Launches
<1>2. TypeOK /\ Launches /\ Moves(r, c) /\ Moves(r, d)
  BY PairMoves DEF PairInv
<1>3. round'[r][c] = round[r][c] /\ round[r][c] <= round[r][d]
  BY <1>1, <1>2 DEF Moves, Stays, Begins, Serves, HasSent, Announces,
     HasAnnounced, Polls, Receives, Reads, Ends, Launches
<1>4. round[r][d] <= round'[r][d]
  BY <1>2, CountersGrow
<1>5. round[r][c] \in Nat /\ round[r][d] \in Nat /\ round'[r][d] \in Nat
  BY <1>2, PairTypes, DispatchAssumption DEF PairInv, TypeOK
<1>6. QED
  BY <1>3, <1>4, <1>5

\* The barrier after the flags lets all cores of a rank read at once.
LEMMA NextReadTogether ==
  ASSUME PairInv, [PairNext]_vars
  PROVE  ReadTogether'
<1>1. SUFFICES ASSUME NEW r \in Ranks, NEW c \in Cores, NEW d \in Cores
               PROVE  Reading(r, c)' = Reading(r, d)'
  BY DEF ReadTogether
<1>2. TypeOK /\ Moves(r, c) /\ Moves(r, d) /\ Reading(r, c) = Reading(r, d)
  BY PairMoves DEF PairInv, ReadTogether
<1>3. ASSUME NEW a \in Cores, Receives(r, a)
      PROVE  \A b \in Cores : /\ Reading(r, b) = round[r][b]
                              /\ Reading(r, b)' = round[r][b] + 1
  BY <1>2, <1>3, Counters DEF Receives, Reading
<1>4. CASE Receives(r, c) \/ Receives(r, d)
  BY <1>2, <1>3, <1>4
<1>5. CASE ~ (Receives(r, c) \/ Receives(r, d))
  BY <1>2, <1>5, ReadingMoves
<1>6. QED
  BY <1>4, <1>5

\* The barrier of dispatch before the flags, too, is passed by all at once.
LEMMA NextSentTogether ==
  ASSUME PairInv, [PairNext]_vars
  PROVE  SentTogether'
<1>1. SUFFICES ASSUME NEW r \in Ranks, NEW c \in Cores, NEW d \in Cores,
                      round'[r][c] % 2 = 0,
                      pc'[r][c] \notin {"idle", "send", "sync1"}
               PROVE  round'[r][c] < Announcing(r, d)'
  BY DEF SentTogether, Dispatching
<1>2. TypeOK /\ Launches /\ SentTogether /\ Moves(r, c) /\ Moves(r, d)
  BY PairMoves DEF PairInv
<1>3. /\ round[r][c] \in Nat /\ round[r][d] \in Nat
      /\ Announcing(r, d) \in Nat /\ Announcing(r, d) <= Announcing(r, d)'
      /\ Announcing(r, d)' \in Nat
  <2>1. TypeOK'
    BY PairTypes DEF PairInv
  <2>2. Announcing(r, d)' \in Nat
    BY <2>1, DispatchAssumption DEF TypeOK, Announcing
  <2>3. QED
    BY <1>2, <2>2, CountersGrow, Counters
<1>4. CASE Announces(r, c)
  <2>1. /\ pc'[r][d] = "status" /\ round'[r][d] = round[r][d]
        /\ round'[r][c] = round[r][c] /\ pc[r][c] = "sync1"
    BY <1>4 DEF Announces
  <2>2. round[r][c] <= round[r][d]
    BY <1>2, <2>1 DEF Launches
  <2>3. QED
    BY <1>3, <2>1, <2>2 DEF Announcing
<1>5. CASE ~ Announces(r, c)
  <2>1. /\ round'[r][c] = round[r][c] /\ Dispatching(r, c)
        /\ pc[r][c] \notin {"idle", "send", "sync1"}
    BY <1>1, <1>2, <1>5 DEF Moves, Stays, Begins, Serves, HasSent, HasAnnounced,
       Polls, Receives, Reads, Ends, Dispatching, Combining
  <2>2. round[r][c] < Announcing(r, d)
    BY <1>2, <2>1 DEF SentTogether
  <2>3. QED
    BY <1>3, <2>1, <2>2
<1>6. QED
  BY <1>4, <1>5

\* A core's work lists hold only items of its own, and it only comes to places of
\* the kernel it runs.
LEMMA NextPairLists ==
  ASSUME PairInv, [PairNext]_vars
  PROVE  PairLists'
<1>1. SUFFICES ASSUME NEW r \in Ranks, NEW c \in Cores
               PROVE  /\ Dispatching(r, c)' =>
                         /\ pc'[r][c] = "status" => todo'[r][c] \subseteq Share(c)
                         /\ pc'[r][c] = "copy" =>
                              unread'[r][c] \subseteq InboxSlice(r, c)
                      /\ Combining(r, c)' =>
                         /\ pc'[r][c] \notin {"sync1", "counts", "sync3", "totals"}
                         /\ pc'[r][c] \in {"send", "status"} =>
                              todo'[r][c] \subseteq Peers(c)
                         /\ pc'[r][c] = "copy" => unread'[r][c] \subseteq Inbox(r)
  BY DEF PairLists, Share, InboxSlice, Inbox, Peers
<1>2. TypeOK /\ PairLists /\ Moves(r, c)
  BY PairMoves DEF PairInv
<1>3. round[r][c] \in Nat
  BY <1>2, Counters
<1>4. Dispatching(r, c) <=> ~ Combining(r, c)
  BY <1>3, Turns DEF Dispatching, Combining
<1>5. CASE Ends(r, c)
  BY <1>5 DEF Ends
<1>6. CASE ~ Ends(r, c)
  <2>1. round'[r][c] = round[r][c]
    BY <1>2, <1>6 DEF Moves, Stays, Begins, Serves, HasSent, Announces,
       HasAnnounced, Polls, Receives, Reads
  <2>2. /\ Dispatching(r, c)' <=> Dispatching(r, c)
        /\ Combining(r, c)' <=> Combining(r, c)
    BY <2>1 DEF Dispatching, Combining
  <2>3. QED
    BY <1>2, <1>4, <1>6, <2>2 DEF Moves, Stays, Begins, Serves, HasSent,
       Announces, HasAnnounced, Polls, Receives, Reads, PairLists
<1>7. QED
  BY <1>5, <1>6

-------------------------------------------------------------------------------
(***************************************************************************)
(* Who writes to memory.                                                   *)
(***************************************************************************)
\* Registers and their copies change only when a core begins, a window only when
\* one sends, and status words only when one announces.
LEMMA PairWrites ==
  ASSUME TypeOK, [PairNext]_vars
  PROVE  /\ \/ \E r \in Ranks, c \in Cores : Switches(r, c)
            \/ /\ UNCHANGED <<registers, states>>
               /\ \A p \in Ranks, q \in Cores : ~ Begins(p, q)
         /\ \/ \E r \in Ranks, c \in Cores, e \in Experts :
                 Dispatching(r, c) /\ SendTokens(r, c, e)
            \/ \E r \in Ranks, c \in Cores, d \in Ranks :
                 Combining(r, c) /\ SendResults(r, c, d)
            \/ /\ UNCHANGED window
               /\ \A p \in Ranks, q \in Cores :
                    ~ (Serves(p, q) /\ pc[p][q] = "send")
         /\ \/ \E r \in Ranks, c \in Cores, e \in Experts :
                 Dispatching(r, c) /\ WriteStatus(r, c, e)
            \/ \E r \in Ranks, c \in Cores, d \in Ranks :
                 Combining(r, c) /\ RaiseFlag(r, c, d)
            \/ /\ UNCHANGED <<flag, told>>
               /\ \A p \in Ranks, q \in Cores :
                    ~ (Serves(p, q) /\ pc[p][q] = "status")
<1> DEFINE Switch == \E r \in Ranks, c \in Cores : Switches(r, c)
           Keep == /\ UNCHANGED <<registers, states>>
                   /\ \A p \in Ranks, q \in Cores : ~ Begins(p, q)
           Send == \/ \E r \in Ranks, c \in Cores, e \in Experts :
                        Dispatching(r, c) /\ SendTokens(r, c, e)
                   \/ \E r \in Ranks, c \in Cores, d \in Ranks :
                        Combining(r, c) /\ SendResults(r, c, d)
           Hold == /\ UNCHANGED window
                   /\ \A p \in Ranks, q \in Cores :
                        ~ (Serves(p, q) /\ pc[p][q] = "send")
           Tell == \/ \E r \in Ranks, c \in Cores, e \in Experts :
                        Dispatching(r, c) /\ WriteStatus(r, c, e)
                   \/ \E r \in Ranks, c \in Cores, d \in Ranks :
                        Combining(r, c) /\ RaiseFlag(r, c, d)
           Hush == /\ UNCHANGED <<flag, told>>
                   /\ \A p \in Ranks, q \in Cores :
                        ~ (Serves(p, q) /\ pc[p][q] = "status")
           Goal == (Switch \/ Keep) /\ (Send \/ Hold) /\ (Tell \/ Hush)
<1> SUFFICES Goal
  BY Zenon
<1> USE DEF TypeOK
<1>1. ASSUME NEW r \in Ranks, NEW c \in Cores, Dispatching(r, c),
             Launched(r, c), Step(r, c)
      PROVE  Goal
  <2>1. CASE Start(r, c)
    <3>1. Switch
      BY <2>1, Zenon DEF Start, Switches
    <3>2. Hold /\ Hush
      BY <2>1 DEF Start, Goto, memory, Serves
    <3>3. QED
      BY <3>1, <3>2
  <2>2. ASSUME NEW e \in Experts, SendTokens(r, c, e)
        PROVE  Goal
    <3>1. Send
      BY <1>1, <2>2, Zenon
    <3>2. Keep /\ Hush
      BY <2>2 DEF SendTokens, registers, states, Begins, Serves
    <3>3. QED
      BY <3>1, <3>2
  <2>3. CASE FinishSend(r, c)
    BY <2>3 DEF FinishSend, Goto, registers, states, memory, Begins, Serves
  <2>4. ASSUME NEW e \in Experts, WriteStatus(r, c, e)
        PROVE  Goal
    <3>1. Tell
      BY <1>1, <2>4, Zenon
    <3>2. Keep /\ Hold
      BY <2>4 DEF WriteStatus, registers, states, Begins, Serves
    <3>3. QED
      BY <3>1, <3>2
  <2>5. CASE FinishStatus(r, c)
    BY <2>5 DEF FinishStatus, Goto, registers, states, memory, Begins, Serves
  <2>6. CASE Poll(r, c)
    BY <2>6 DEF Poll, Goto, registers, states, memory, Begins, Serves
  <2>7. CASE ReadCounts(r, c)
    BY <2>7 DEF ReadCounts, Goto, registers, states, memory, Begins, Serves
  <2>8. ASSUME NEW b \in Ranks \X Experts, CopyBlock(r, c, b)
        PROVE  Goal
    BY <2>8 DEF CopyBlock, registers, states, memory, Begins, Serves
  <2>9. CASE FinishCopy(r, c)
    BY <2>9 DEF FinishCopy, Goto, registers, states, Begins, Serves
  <2>10. CASE Finish(r, c)
    BY <2>10 DEF Finish, Goto, registers, states, memory, Begins, Serves
  <2> HIDE DEF Goal
  <2>11. QED
    BY <1>1, <2>1, <2>2, <2>3, <2>4, <2>5, <2>6, <2>7, <2>8, <2>9, <2>10
       DEF Step
<1>2. ASSUME NEW r \in Ranks, SyncAll(r)
      PROVE  Goal
  <2>1. CASE Sync1(r)
    BY <2>1 DEF Sync1, Barrier, registers, states, memory, Begins, Serves
  <2>2. CASE Sync2(r)
    BY <2>2 DEF Sync2, Barrier, registers, states, memory, Begins, Serves
  <2>3. CASE Sync3(r)
    BY <2>3 DEF Sync3, Barrier, registers, states, memory, Begins, Serves
  <2>4. QED
    BY <1>2, <2>1, <2>2, <2>3, Zenon DEF SyncAll
<1>3. ASSUME NEW r \in Ranks, CombineSync(r)
      PROVE  Goal
  BY <1>3 DEF CombineSync, Barrier, registers, states, memory, Begins, Serves
<1>4. ASSUME NEW r \in Ranks, NEW c \in Cores, CombineStep(r, c)
      PROVE  Goal
  <2>a. Combining(r, c)
    BY <1>4 DEF CombineStep
  <2>1. CASE CombineStart(r, c)
    <3>1. Switch
      BY <2>1, Zenon DEF CombineStart, Switches
    <3>2. Hold /\ Hush
      BY <2>1 DEF CombineStart, Goto, memory, Serves
    <3>3. QED
      BY <3>1, <3>2
  <2>2. ASSUME NEW d \in Ranks, SendResults(r, c, d)
        PROVE  Goal
    <3>1. Send
      BY <2>a, <2>2, Zenon
    <3>2. Keep /\ Hush
      BY <2>2 DEF SendResults, registers, states, Begins, Serves
    <3>3. QED
      BY <3>1, <3>2
  <2>3. CASE FinishResults(r, c)
    BY <2>3 DEF FinishResults, Goto, registers, states, memory, Begins, Serves
  <2>4. ASSUME NEW d \in Ranks, RaiseFlag(r, c, d)
        PROVE  Goal
    <3>1. Tell
      BY <2>a, <2>4, Zenon
    <3>2. Keep /\ Hold
      BY <2>4 DEF RaiseFlag, registers, states, Begins, Serves
    <3>3. QED
      BY <3>1, <3>2
  <2>5. CASE FinishStatus(r, c)
    BY <2>5 DEF FinishStatus, Goto, registers, states, memory, Begins, Serves
  <2>6. CASE PollFlags(r, c)
    BY <2>6 DEF PollFlags, Goto, registers, states, memory, Begins, Serves
  <2>7. CASE FinishGather(r, c)
    BY <2>7 DEF FinishGather, Goto, registers, states, memory, Begins, Serves
  <2> HIDE DEF Goal
  <2>8. QED
    BY <1>4, <2>1, <2>2, <2>3, <2>4, <2>5, <2>6, <2>7 DEF CombineStep
<1>5. CASE UNCHANGED vars
  BY <1>5 DEF vars, registers, states, Begins, Serves
<1> HIDE DEF Goal
<1>6. QED
  BY PairCases, <1>1, <1>2, <1>3, <1>4, <1>5, Zenon

\* Halves and flags alternate with the rounds of the two kernels.
LEMMA NextPairRegisters ==
  ASSUME PairInv, [PairNext]_vars
  PROVE  Registers'
<1>1. TypeOK /\ Registers
  BY DEF PairInv
<1>2. CASE \E r \in Ranks, c \in Cores : Switches(r, c)
  BY <1>1, <1>2, SwitchRegisters, Zenon
<1>3. CASE /\ UNCHANGED <<registers, states>>
           /\ \A p \in Ranks, q \in Cores : ~ Begins(p, q)
  <2>1. ASSUME NEW r \in Ranks, NEW c \in Cores
        PROVE  /\ Started(r, c)' = Started(r, c)
               /\ pc'[r][c] # "idle" => /\ pc[r][c] # "idle"
                                        /\ round'[r][c] = round[r][c]
    <3>1. Moves(r, c) /\ ~ Begins(r, c) /\ round[r][c] \in Nat
      BY <1>1, <1>3, PairMoves, Counters
    <3>2. QED
      BY <3>1 DEF Moves, Stays, Serves, HasSent, Announces,
         HasAnnounced, Polls, Receives, Reads, Ends, Started
  <2>2. QED
    BY <1>1, <1>3, <2>1 DEF registers, states, Registers
<1>4. QED
  BY <1>1, <1>2, <1>3, PairWrites

-------------------------------------------------------------------------------
(***************************************************************************)
(* The words of the windows.                                               *)
(***************************************************************************)
\* In an invocation a core uses its kernel's half, and the flag of its round.
LEMMA KernelHalf ==
  ASSUME PairInv, NEW r \in Ranks, NEW c \in Cores, pc[r][c] # "idle"
  PROVE  /\ round[r][c] \in Nat /\ round[r][c] + 1 \in Nat
         /\ Dispatching(r, c) => round[r][c] % 2 = 0 /\ half[r][c] = 0
         /\ Combining(r, c) => round[r][c] % 2 = 1 /\ half[r][c] = 1
         /\ target[r][c] = FlagOf(round[r][c])
<1>1. round[r][c] \in Nat
  BY Counters DEF PairInv
<1>2. half[r][c] = HalfOf(round[r][c]) /\ target[r][c] = FlagOf(round[r][c])
  BY DEF PairInv, Registers
<1>3. QED
  BY <1>1, <1>2 DEF HalfOf, Dispatching, Combining

\* Dispatch writes the block of the expert it serves, in half 0.
LEMMA TokensWritten ==
  ASSUME PairInv, NEW r \in Ranks, NEW c \in Cores, NEW e \in Experts,
         Dispatching(r, c), SendTokens(r, c, e)
  PROVE  TokenWords' /\ ResultWords'
<1> DEFINE n == round[r][c]
<1>1. TypeOK /\ TokenWords /\ ResultWords
  BY DEF PairInv
<1>2. /\ n \in Nat /\ n + 1 \in Nat /\ n % 2 = 0 /\ half[r][c] = 0
      /\ pc[r][c] = "send" /\ e \in todo[r][c]
  BY KernelHalf DEF SendTokens
<1>3. Last(0, n + 1) = n /\ Last(1, n + 1) = Last(1, n)
  BY <1>2, LastOfKernel
<1>4. /\ pc' = pc /\ round' = round
      /\ todo' = [todo EXCEPT ![r][c] = @ \ {e}]
      /\ window' = [window EXCEPT ![r][e][0][c] = n]
  BY <1>2 DEF SendTokens
<1> USE DEF TypeOK
<1>5. ASSUME NEW s \in Ranks, NEW d \in Cores, NEW x, s # r \/ d # c \/ x # e
      PROVE  Delivered(s, d, x)' = Delivered(s, d, x)
  BY <1>1, <1>4, <1>5 DEF Delivered
<1>6. Delivered(r, c, e) = n /\ Delivered(r, c, e)' = n + 1
  BY <1>1, <1>2, <1>4 DEF Delivered
<1>7. ASSUME NEW s \in Ranks, NEW d \in Cores, NEW x \in Targets(s, d)
      PROVE  window'[s][x][0][d] = Last(0, Delivered(s, d, x)')
  <2>1. x \in Experts
    BY ShapesOK
  <2>2. CASE s = r /\ d = c /\ x = e
    BY <1>1, <1>3, <1>4, <1>6, <2>2 DEF Halves
  <2>3. CASE ~ (s = r /\ d = c /\ x = e)
    <3>1. window'[s][x][0][d] = window[s][x][0][d]
      BY <1>1, <1>4, <2>1, <2>3 DEF Halves
    <3>2. QED
      BY <1>1, <1>5, <2>3, <3>1 DEF TokenWords
  <2>4. QED
    BY <2>2, <2>3
<1>8. ASSUME NEW s \in Ranks, NEW d \in Cores, NEW q \in Peers(d),
             NEW b \in BlocksFor(s, q)
      PROVE  window'[b[1]][b[2]][1][d] = Last(1, Delivered(s, d, q)')
  <2>1. b[1] \in Ranks /\ b[2] \in Experts
    BY DEF BlocksFor
  <2>2. window'[b[1]][b[2]][1][d] = window[b[1]][b[2]][1][d]
    BY <1>1, <1>4, <2>1 DEF Halves
  <2>3. Last(1, Delivered(s, d, q)') = Last(1, Delivered(s, d, q))
    BY <1>3, <1>5, <1>6
  <2>4. QED
    BY <1>1, <2>2, <2>3 DEF ResultWords
<1>9. TokenWords'
  BY <1>7 DEF TokenWords
<1>10. ResultWords'
  BY <1>8 DEF ResultWords
<1>11. QED
  BY <1>9, <1>10

\* Combine writes all blocks of the rank it serves, in half 1, and no other pair of
\* ranks shares one of them.
LEMMA ResultsWritten ==
  ASSUME PairInv, NEW r \in Ranks, NEW c \in Cores, NEW p \in Ranks,
         Combining(r, c), SendResults(r, c, p)
  PROVE  TokenWords' /\ ResultWords'
<1> DEFINE n == round[r][c]
<1>1. TypeOK /\ TokenWords /\ ResultWords
  BY DEF PairInv
<1>2. /\ n \in Nat /\ n + 1 \in Nat /\ n % 2 = 1 /\ half[r][c] = 1
      /\ pc[r][c] = "send" /\ p \in todo[r][c]
  BY KernelHalf DEF SendResults
<1>3. Last(1, n + 1) = n /\ Last(0, n + 1) = Last(0, n)
  BY <1>2, LastOfKernel
<1>4. /\ pc' = pc /\ round' = round
      /\ todo' = [todo EXCEPT ![r][c] = @ \ {p}]
  BY <1>2 DEF SendResults
<1>5. window' = [s \in Ranks |-> [e \in Experts |->
                   IF <<s, e>> \in BlocksFor(r, p)
                   THEN [window[s][e] EXCEPT ![1][c] = n] ELSE window[s][e]]]
  BY <1>2 DEF SendResults
<1> USE DEF TypeOK
<1>6. ASSUME NEW s \in Ranks, NEW d \in Cores, NEW x, s # r \/ d # c \/ x # p
      PROVE  Delivered(s, d, x)' = Delivered(s, d, x)
  BY <1>1, <1>4, <1>6 DEF Delivered
<1>7. Delivered(r, c, p) = n /\ Delivered(r, c, p)' = n + 1
  BY <1>1, <1>2, <1>4 DEF Delivered
<1>8. ASSUME NEW s \in Ranks, NEW d \in Cores, NEW x \in Targets(s, d)
      PROVE  window'[s][x][0][d] = Last(0, Delivered(s, d, x)')
  <2>1. x \in Experts
    BY ShapesOK
  <2>2. window'[s][x][0][d] = window[s][x][0][d]
    BY <1>1, <1>5, <2>1 DEF Halves
  <2>3. Last(0, Delivered(s, d, x)') = Last(0, Delivered(s, d, x))
    BY <1>3, <1>6, <1>7
  <2>4. QED
    BY <1>1, <2>2, <2>3 DEF TokenWords
<1>9. ASSUME NEW s \in Ranks, NEW d \in Cores, NEW q \in Peers(d),
             NEW b \in BlocksFor(s, q)
      PROVE  window'[b[1]][b[2]][1][d] = Last(1, Delivered(s, d, q)')
  <2>1. b[1] \in Ranks /\ b[2] \in Experts /\ b = <<b[1], b[2]>> /\ q \in Ranks
    BY PeersOK DEF BlocksFor
  <2>2. CASE s = r /\ d = c /\ q = p
    BY <1>1, <1>3, <1>5, <1>7, <2>1, <2>2 DEF Halves
  <2>3. CASE ~ (s = r /\ d = c /\ q = p)
    <3>1. b \in BlocksFor(r, p) => d # c
      BY <2>1, <2>3, BlocksApart
    <3>2. window'[b[1]][b[2]][1][d] = window[b[1]][b[2]][1][d]
      BY <1>1, <1>5, <2>1, <3>1 DEF Halves
    <3>3. QED
      BY <1>1, <1>6, <2>3, <3>2 DEF ResultWords
  <2>4. QED
    BY <2>2, <2>3
<1>10. TokenWords'
  BY <1>8 DEF TokenWords
<1>11. ResultWords'
  BY <1>9 DEF ResultWords
<1>12. QED
  BY <1>10, <1>11

\* Every block holds what its core wrote last in the half of the kernel.
LEMMA NextWords ==
  ASSUME PairInv, [PairNext]_vars
  PROVE  TokenWords' /\ ResultWords'
<1>1. TypeOK /\ PairLists /\ TokenWords /\ ResultWords
  BY DEF PairInv
<1>2. CASE \E r \in Ranks, c \in Cores, e \in Experts :
             Dispatching(r, c) /\ SendTokens(r, c, e)
  BY <1>2, TokensWritten
<1>3. CASE \E r \in Ranks, c \in Cores, d \in Ranks :
             Combining(r, c) /\ SendResults(r, c, d)
  BY <1>3, ResultsWritten
<1>4. CASE /\ UNCHANGED window
           /\ \A p \in Ranks, q \in Cores : ~ (Serves(p, q) /\ pc[p][q] = "send")
  <2>1. ASSUME NEW s \in Ranks, NEW d \in Cores
        PROVE  /\ \A x \in Targets(s, d) :
                    window'[s][x][0][d] = Last(0, Delivered(s, d, x))'
               /\ \A q \in Peers(d) : \A b \in BlocksFor(s, q) :
                    window'[b[1]][b[2]][1][d] = Last(1, Delivered(s, d, q))'
    <3>1. /\ \A x \in Targets(s, d) :
               Last(0, Delivered(s, d, x))' = Last(0, Delivered(s, d, x))
          /\ \A q \in Peers(d) :
               Last(1, Delivered(s, d, q))' = Last(1, Delivered(s, d, q))
      BY <1>1, <1>4, PairMoves, DeliveredMoves
    <3>2. QED
      BY <1>1, <1>4, <3>1 DEF TokenWords, ResultWords
  <2>2. TokenWords'
    BY <2>1 DEF TokenWords
  <2>3. ResultWords'
    BY <2>1 DEF ResultWords
  <2>4. QED
    BY <2>2, <2>3
<1>5. QED
  BY <1>1, <1>2, <1>3, <1>4, PairWrites

-------------------------------------------------------------------------------
(***************************************************************************)
(* The status words.                                                       *)
(***************************************************************************)
\* Dispatch writes the word of the expert it announces, in half 0.
LEMMA CountTold ==
  ASSUME PairInv, NEW r \in Ranks, NEW c \in Cores, NEW e \in Experts,
         Dispatching(r, c), WriteStatus(r, c, e)
  PROVE  CountFlags' /\ ResultFlags'
<1> DEFINE n == round[r][c]
<1>1. TypeOK /\ CountFlags /\ ResultFlags
  BY DEF PairInv
<1>2. /\ n \in Nat /\ n + 1 \in Nat /\ n % 2 = 0 /\ half[r][c] = 0
      /\ target[r][c] = FlagOf(n)
      /\ pc[r][c] = "status" /\ e \in todo[r][c] /\ e \in Share(c)
  BY KernelHalf DEF WriteStatus, PairInv, PairLists
<1>3. Last(0, n + 1) = n /\ Last(1, n + 1) = Last(1, n)
  BY <1>2, LastOfKernel
<1>4. /\ pc' = pc /\ round' = round
      /\ todo' = [todo EXCEPT ![r][c] = @ \ {e}]
      /\ told' = [told EXCEPT ![r][e][0] = n]
      /\ flag' = [flag EXCEPT ![r][e][0] = FlagOf(n)]
  BY <1>2 DEF WriteStatus
<1> USE DEF TypeOK
<1>5. ASSUME NEW s \in Ranks, NEW d \in Cores, NEW x, s # r \/ d # c \/ x # e
      PROVE  Announced(s, d, x)' = Announced(s, d, x)
  BY <1>1, <1>4, <1>5 DEF Announced
<1>6. Announced(r, c, e) = n /\ Announced(r, c, e)' = n + 1
  BY <1>1, <1>2, <1>4 DEF Announced
<1>7. ASSUME NEW s \in Ranks, NEW d \in Cores, NEW x \in Share(d)
      PROVE  /\ told'[s][x][0] = Last(0, Announced(s, d, x)')
             /\ flag'[s][x][0] = FlagOf(told'[s][x][0])
  <2>1. x \in Experts
    BY ShapesOK
  <2>2. CASE s = r /\ x = e
    <3>1. d = c
      BY <1>2, <2>2, OneAnnouncer
    <3>2. told'[s][x][0] = n /\ flag'[s][x][0] = FlagOf(n)
      BY <1>1, <1>4, <2>2 DEF Halves
    <3>3. QED
      BY <1>3, <1>6, <2>2, <3>1, <3>2
  <2>3. CASE ~ (s = r /\ x = e)
    <3>1. told'[s][x][0] = told[s][x][0] /\ flag'[s][x][0] = flag[s][x][0]
      BY <1>1, <1>4, <2>1, <2>3 DEF Halves
    <3>2. QED
      BY <1>1, <1>5, <2>3, <3>1 DEF CountFlags
  <2>4. QED
    BY <2>2, <2>3
<1>8. ASSUME NEW s \in Ranks, NEW d \in Cores, NEW q \in Peers(d)
      PROVE  /\ told'[s][FirstExpert(q)][1] = Last(1, Announced(s, d, q)')
             /\ flag'[s][FirstExpert(q)][1] = FlagOf(told'[s][FirstExpert(q)][1])
  <2>1. FirstExpert(q) \in Experts
    BY PeersOK, FirstExpertOK
  <2>2. /\ told'[s][FirstExpert(q)][1] = told[s][FirstExpert(q)][1]
        /\ flag'[s][FirstExpert(q)][1] = flag[s][FirstExpert(q)][1]
    BY <1>1, <1>4, <2>1 DEF Halves
  <2>3. Last(1, Announced(s, d, q)') = Last(1, Announced(s, d, q))
    BY <1>3, <1>5, <1>6
  <2>4. QED
    BY <1>1, <2>2, <2>3 DEF ResultFlags
<1>9. CountFlags'
  BY <1>7 DEF CountFlags
<1>10. ResultFlags'
  BY <1>8 DEF ResultFlags
<1>11. QED
  BY <1>9, <1>10

\* Combine raises the flag of the rank, in half 1, and no other rank has its word.
LEMMA ResultTold ==
  ASSUME PairInv, NEW r \in Ranks, NEW c \in Cores, NEW p \in Ranks,
         Combining(r, c), RaiseFlag(r, c, p)
  PROVE  CountFlags' /\ ResultFlags'
<1> DEFINE n == round[r][c]
           e == FirstExpert(p)
<1>1. TypeOK /\ CountFlags /\ ResultFlags
  BY DEF PairInv
<1>2. /\ n \in Nat /\ n + 1 \in Nat /\ n % 2 = 1 /\ half[r][c] = 1
      /\ target[r][c] = FlagOf(n)
      /\ pc[r][c] = "status" /\ p \in todo[r][c] /\ p \in Peers(c)
  BY KernelHalf DEF RaiseFlag, PairInv, PairLists
<1>3. Last(1, n + 1) = n /\ Last(0, n + 1) = Last(0, n)
  BY <1>2, LastOfKernel
<1>4. /\ pc' = pc /\ round' = round
      /\ todo' = [todo EXCEPT ![r][c] = @ \ {p}]
      /\ told' = [told EXCEPT ![r][e][1] = n]
      /\ flag' = [flag EXCEPT ![r][e][1] = FlagOf(n)]
  BY <1>2 DEF RaiseFlag
<1>5. e \in Experts /\ Home(e) = p
  BY FirstExpertOK
<1> HIDE DEF e
<1> USE DEF TypeOK
<1>6. ASSUME NEW s \in Ranks, NEW d \in Cores, NEW x, s # r \/ d # c \/ x # p
      PROVE  Announced(s, d, x)' = Announced(s, d, x)
  BY <1>1, <1>4, <1>6 DEF Announced
<1>7. Announced(r, c, p) = n /\ Announced(r, c, p)' = n + 1
  BY <1>1, <1>2, <1>4 DEF Announced
<1>8. ASSUME NEW s \in Ranks, NEW d \in Cores, NEW x \in Share(d)
      PROVE  /\ told'[s][x][0] = Last(0, Announced(s, d, x)')
             /\ flag'[s][x][0] = FlagOf(told'[s][x][0])
  <2>1. x \in Experts
    BY ShapesOK
  <2>2. told'[s][x][0] = told[s][x][0] /\ flag'[s][x][0] = flag[s][x][0]
    BY <1>1, <1>4, <1>5, <2>1 DEF Halves
  <2>3. Last(0, Announced(s, d, x)') = Last(0, Announced(s, d, x))
    BY <1>3, <1>6, <1>7
  <2>4. QED
    BY <1>1, <2>2, <2>3 DEF CountFlags
<1>9. ASSUME NEW s \in Ranks, NEW d \in Cores, NEW q \in Peers(d)
      PROVE  /\ told'[s][FirstExpert(q)][1] = Last(1, Announced(s, d, q)')
             /\ flag'[s][FirstExpert(q)][1] = FlagOf(told'[s][FirstExpert(q)][1])
  <2>1. FirstExpert(q) \in Experts /\ Home(FirstExpert(q)) = q
    BY PeersOK, FirstExpertOK
  <2>2. CASE s = r /\ q = p
    <3>1. d = c
      BY <1>2, <2>2, OnePeer
    <3>2. told'[s][e][1] = n /\ flag'[s][e][1] = FlagOf(n)
      BY <1>1, <1>4, <1>5, <2>2 DEF Halves
    <3>3. QED
      BY <1>3, <1>7, <2>2, <3>1, <3>2 DEF e
  <2>3. CASE ~ (s = r /\ q = p)
    <3>1. /\ told'[s][FirstExpert(q)][1] = told[s][FirstExpert(q)][1]
          /\ flag'[s][FirstExpert(q)][1] = flag[s][FirstExpert(q)][1]
      BY <1>1, <1>4, <1>5, <2>1, <2>3 DEF Halves
    <3>2. QED
      BY <1>1, <1>6, <2>3, <3>1 DEF ResultFlags
  <2>4. QED
    BY <2>2, <2>3
<1>10. CountFlags'
  BY <1>8 DEF CountFlags
<1>11. ResultFlags'
  BY <1>9 DEF ResultFlags
<1>12. QED
  BY <1>10, <1>11

\* Every status word holds what its core wrote last in the half of the kernel.
LEMMA NextFlags ==
  ASSUME PairInv, [PairNext]_vars
  PROVE  CountFlags' /\ ResultFlags'
<1>1. TypeOK /\ PairLists /\ CountFlags /\ ResultFlags
  BY DEF PairInv
<1>2. CASE \E r \in Ranks, c \in Cores, e \in Experts :
             Dispatching(r, c) /\ WriteStatus(r, c, e)
  BY <1>2, CountTold
<1>3. CASE \E r \in Ranks, c \in Cores, d \in Ranks :
             Combining(r, c) /\ RaiseFlag(r, c, d)
  BY <1>3, ResultTold
<1>4. CASE /\ UNCHANGED <<flag, told>>
           /\ \A p \in Ranks, q \in Cores : ~ (Serves(p, q) /\ pc[p][q] = "status")
  <2>1. ASSUME NEW s \in Ranks, NEW d \in Cores
        PROVE  /\ \A x \in Share(d) :
                    Last(0, Announced(s, d, x))' = Last(0, Announced(s, d, x))
               /\ \A q \in Peers(d) :
                    Last(1, Announced(s, d, q))' = Last(1, Announced(s, d, q))
    BY <1>1, <1>4, PairMoves, AnnouncedMoves
  <2>2. CountFlags'
    BY <1>1, <1>4, <2>1 DEF CountFlags, Share
  <2>3. ResultFlags'
    BY <1>1, <1>4, <2>1 DEF ResultFlags
  <2>4. QED
    BY <2>2, <2>3
<1>5. QED
  BY <1>1, <1>2, <1>3, <1>4, PairWrites

-------------------------------------------------------------------------------
(***************************************************************************)
(* Polling and reading.                                                    *)
(***************************************************************************)
\* An announcement counter of a word that holds the target is past the round: one
\* two rounds older would hold the other flag.
LEMMA FlagTells ==
  ASSUME NEW n \in Nat, NEW m \in Nat, NEW h \in Halves, h = n % 2,
         Last(h, n) < m, FlagOf(Last(h, m)) = FlagOf(n)
  PROVE  n < m
<1>1. Last(h, n) = n - 2
  BY LastOfKernel, Turns
<1>2. m = n - 1 \/ m = n \/ n < m
  BY <1>1
<1>3. m = n - 1 \/ m = n => Last(h, m) = n - 2
  <2>1. ASSUME m = n - 1 PROVE Last(h, m) = n - 2
    <3>1. m + 1 = n /\ (m + 1) % 2 = 1 - (m % 2) /\ m % 2 \in {0, 1}
      BY <2>1, Turns
    <3>2. h = 1 - (m % 2)
      BY <3>1
    <3>3. Last(h, m) = m - 1
      BY <3>1, <3>2, LastOfKernel
    <3>4. QED
      BY <2>1, <3>3
  <2>2. QED
    BY <1>1, <2>1
<1>4. FlagOf(n - 2) = 1 - FlagOf(n) /\ FlagOf(n) \in {0, 1}
  BY FlagFacts, RoundFacts
<1>5. FlagOf(n - 2) # FlagOf(n)
  BY <1>4
<1>6. QED
  BY <1>2, <1>3, <1>5

\* A core that waits for flags has not read its round.
LEMMA WaitsToRead ==
  ASSUME TypeOK, NEW r \in Ranks, NEW c \in Cores, pc[r][c] \in {"wait", "sync2"}
  PROVE  Reading(r, c) = round[r][c] /\ round[r][c] \in Nat
BY Counters DEF Reading

\* The flags that dispatch has polled are those of its round ...
LEMMA TokensPolled ==
  ASSUME PairInv, NEW r \in Ranks, NEW c \in Cores, Dispatching(r, c), Poll(r, c),
         NEW b \in InboxSlice(r, c), NEW d \in Cores, b[2] \in Share(d)
  PROVE  round[r][c] < Announced(b[1], d, b[2])
<1> DEFINE s == b[1]
           e == b[2]
           n == round[r][c]
           slice == InboxSlice(r, c)
           raised == {a \in slice : flag[a[1]][a[2]][half[r][c]] = 1}
<1>1. s \in Ranks /\ e \in Experts /\ Home(e) = r
  BY DEF InboxSlice, Inbox
<1>2. /\ pc[r][c] = "wait"
      /\ Cardinality(raised) = target[r][c] * Cardinality(slice)
  BY DEF Poll
<1>3. /\ n \in Nat /\ n % 2 = 0 /\ half[r][c] = 0 /\ target[r][c] = FlagOf(n)
      /\ FlagOf(n) \in {0, 1}
  BY <1>2, KernelHalf, RoundFacts
<1>4. /\ FlagOf(n) = 1 => raised = slice
      /\ FlagOf(n) = 0 => raised = {}
  <2>1. IsFiniteSet(slice) /\ raised \in SUBSET slice
    BY Finite
  <2>2. Cardinality(raised) = FlagOf(n) * Cardinality(slice)
    BY <1>2, <1>3
  <2> HIDE DEF slice, raised
  <2>3. QED
    BY <1>3, <2>1, <2>2, AllOrNone
<1>5. flag[s][e][0] = FlagOf(n)
  <2>1. flag[s][e][0] \in {0, 1}
    BY <1>1 DEF PairInv, TypeOK, Halves
  <2>2. b \in raised <=> flag[s][e][0] = 1
    BY <1>3
  <2>3. QED
    BY <1>3, <1>4, <2>1, <2>2
<1>6. flag[s][e][0] = FlagOf(Last(0, Announced(s, d, e)))
  BY <1>1 DEF PairInv, CountFlags
<1>7. Last(0, n) < Announced(s, d, e) /\ Announced(s, d, e) \in Nat
  <2>1. Reading(r, c) = n
    BY <1>2, WaitsToRead DEF PairInv
  <2>2. QED
    BY <1>1, <2>1, Counters DEF PairInv, TokensAhead
<1>8. QED
  BY <1>3, <1>5, <1>6, <1>7, FlagTells DEF Halves

\* ... and so are those that combine has.
LEMMA ResultsPolled ==
  ASSUME PairInv, NEW r \in Ranks, NEW c \in Cores, Combining(r, c),
         PollFlags(r, c), NEW s \in Peers(c), NEW d \in Cores, r \in Peers(d)
  PROVE  round[r][c] < Announced(s, d, r)
<1> DEFINE n == round[r][c]
           slice == Peers(c)
           raised == {a \in slice : flag[a][FirstExpert(r)][half[r][c]] = 1}
<1>1. s \in Ranks /\ FirstExpert(r) \in Experts /\ r \in Experts
  BY PeersOK, FirstExpertOK
<1>2. /\ pc[r][c] = "wait"
      /\ Cardinality(raised) = target[r][c] * Cardinality(slice)
  BY DEF PollFlags
<1>3. /\ n \in Nat /\ n % 2 = 1 /\ half[r][c] = 1 /\ target[r][c] = FlagOf(n)
      /\ FlagOf(n) \in {0, 1}
  BY <1>2, KernelHalf, RoundFacts
<1>4. /\ FlagOf(n) = 1 => raised = slice
      /\ FlagOf(n) = 0 => raised = {}
  <2>1. IsFiniteSet(slice) /\ raised \in SUBSET slice
    BY Finite, PeersOK, FS_Subset
  <2>2. Cardinality(raised) = FlagOf(n) * Cardinality(slice)
    BY <1>2, <1>3
  <2> HIDE DEF slice, raised
  <2>3. QED
    BY <1>3, <2>1, <2>2, AllOrNone
<1>5. flag[s][FirstExpert(r)][1] = FlagOf(n)
  <2>1. flag[s][FirstExpert(r)][1] \in {0, 1}
    BY <1>1 DEF PairInv, TypeOK, Halves
  <2>2. s \in raised <=> flag[s][FirstExpert(r)][1] = 1
    BY <1>3
  <2>3. QED
    BY <1>3, <1>4, <2>1, <2>2
<1>6. flag[s][FirstExpert(r)][1] = FlagOf(Last(1, Announced(s, d, r)))
  BY <1>1 DEF PairInv, ResultFlags
<1>7. Last(1, n) < Announced(s, d, r) /\ Announced(s, d, r) \in Nat
  <2>1. Reading(r, c) = n
    BY <1>2, WaitsToRead DEF PairInv
  <2>2. QED
    BY <1>1, <2>1, Counters DEF PairInv, ResultsAhead
<1>8. QED
  BY <1>3, <1>5, <1>6, <1>7, FlagTells DEF Halves

\* What a core has polled had been announced, and stays announced.
LEMMA NextPairPolled ==
  ASSUME PairInv, [PairNext]_vars
  PROVE  PairPolled'
<1>1. TypeOK /\ TypeOK' /\ PairPolled
  BY PairTypes DEF PairInv
<1>2. SUFFICES ASSUME NEW r \in Ranks, NEW c \in Cores, pc'[r][c] = "sync2"
               PROVE  /\ Dispatching(r, c)' =>
                           \A b \in InboxSlice(r, c), d \in Cores :
                             b[2] \in Share(d) =>
                               round'[r][c] < Announced(b[1], d, b[2])'
                      /\ Combining(r, c)' =>
                           \A s \in Peers(c), d \in Cores :
                             r \in Peers(d) => round'[r][c] < Announced(s, d, r)'
  BY DEF PairPolled, Share, InboxSlice, Inbox, Peers
<1>3. /\ round'[r][c] = round[r][c]
      /\ pc[r][c] = "sync2" \/ Polls(r, c)
  <2>1. Moves(r, c)
    BY <1>1, PairMoves
  <2>2. QED
    BY <1>2, <2>1 DEF Moves, Stays, Begins, Serves, HasSent, Announces,
       HasAnnounced, Receives, Reads, Ends, Polls
<1>4. /\ Dispatching(r, c)' <=> Dispatching(r, c)
      /\ Combining(r, c)' <=> Combining(r, c)
      /\ ~ (Dispatching(r, c) /\ Combining(r, c))
  BY <1>3 DEF Dispatching, Combining
<1>5. ASSUME NEW s \in Ranks, NEW d \in Cores, NEW x \in Experts,
             round[r][c] < Announced(s, d, x)
      PROVE  round'[r][c] < Announced(s, d, x)'
  <2>1. Announced(s, d, x) <= Announced(s, d, x)'
    BY <1>1, PairMoves, CountersGrow
  <2>2. /\ round[r][c] \in Nat /\ Announced(s, d, x) \in Nat
        /\ Announced(s, d, x)' \in Nat
    <3>1. Announced(s, d, x)' \in Nat
      BY <1>1, DispatchAssumption DEF TypeOK, Announced
    <3>2. QED
      BY <1>1, <3>1, Counters
  <2>3. QED
    BY <1>3, <1>5, <2>1, <2>2
<1>6. ASSUME Dispatching(r, c), NEW b \in InboxSlice(r, c), NEW d \in Cores,
             b[2] \in Share(d)
      PROVE  round'[r][c] < Announced(b[1], d, b[2])'
  <2>1. b[1] \in Ranks /\ b[2] \in Experts
    BY DEF InboxSlice, Inbox
  <2>2. CASE pc[r][c] = "sync2"
    BY <1>1, <1>5, <1>6, <2>1, <2>2 DEF PairPolled
  <2>3. CASE Polls(r, c)
    <3>1. Poll(r, c)
      BY <1>4, <1>6, <2>3 DEF Polls
    <3>2. QED
      BY <1>5, <1>6, <2>1, <3>1, TokensPolled
  <2>4. QED
    BY <1>3, <2>2, <2>3
<1>7. ASSUME Combining(r, c), NEW s \in Peers(c), NEW d \in Cores, r \in Peers(d)
      PROVE  round'[r][c] < Announced(s, d, r)'
  <2>1. s \in Ranks /\ r \in Experts
    BY PeersOK
  <2>2. CASE pc[r][c] = "sync2"
    BY <1>1, <1>5, <1>7, <2>1, <2>2 DEF PairPolled
  <2>3. CASE Polls(r, c)
    <3>1. PollFlags(r, c)
      BY <1>4, <1>7, <2>3 DEF Polls
    <3>2. QED
      BY <1>5, <1>7, <2>1, <3>1, ResultsPolled
  <2>4. QED
    BY <1>3, <2>2, <2>3
<1>8. QED
  BY <1>4, <1>6, <1>7

\* At the barrier after the flags the cores of a rank have together polled all of
\* it: every rank has announced its part of the round.
LEMMA RankPolled ==
  ASSUME PairInv, NEW r \in Ranks, \A a \in Cores : pc[r][a] = "sync2",
         NEW c \in Cores, NEW s \in Ranks, NEW d \in Cores
  PROVE  /\ Dispatching(r, c) =>
              \A e \in Share(d) :
                Home(e) = r => round[r][c] < Announced(s, d, e)
         /\ Combining(r, c) /\ r \in Peers(d) =>
              round[r][c] < Announced(s, d, r)
<1>1. \A a \in Cores : round[r][a] = round[r][c]
  BY WaitsToRead DEF PairInv, ReadTogether
<1>2. ASSUME Dispatching(r, c), NEW e \in Share(d), Home(e) = r
      PROVE  round[r][c] < Announced(s, d, e)
  <2>1. <<s, e>> \in Inbox(r)
    BY <1>2, ShapesOK DEF Inbox
  <2>2. PICK a \in Cores : <<s, e>> \in InboxSlice(r, a)
    BY <2>1, InboxCover
  <2>3. Dispatching(r, a)
    BY <1>1, <1>2 DEF Dispatching
  <2>4. round[r][a] < Announced(s, d, e)
    BY <2>2, <2>3 DEF PairInv, PairPolled
  <2>5. QED
    BY <1>1, <2>4
<1>3. ASSUME Combining(r, c), r \in Peers(d)
      PROVE  round[r][c] < Announced(s, d, r)
  <2>1. PICK a \in Cores : s \in Peers(a)
    BY SomePeer
  <2>2. Combining(r, a)
    BY <1>1, <1>3 DEF Combining
  <2>3. round[r][a] < Announced(s, d, r)
    BY <1>3, <2>1, <2>2 DEF PairInv, PairPolled
  <2>4. QED
    BY <1>1, <2>3
<1>4. QED
  BY <1>2, <1>3

\* What a rank has begun to read had been announced, and stays announced.
LEMMA NextPairAhead ==
  ASSUME PairInv, [PairNext]_vars
  PROVE  TokensAhead' /\ ResultsAhead'
<1>1. TypeOK /\ TypeOK' /\ TokensAhead /\ ResultsAhead
  BY PairTypes DEF PairInv
<1>2. ASSUME NEW r \in Ranks, NEW c \in Cores
      PROVE  \/ Reading(r, c)' = Reading(r, c)
             \/ /\ \A a \in Cores : pc[r][a] = "sync2"
                /\ Reading(r, c) = round[r][c]
                /\ Reading(r, c)' = round[r][c] + 1
  <2>1. CASE Receives(r, c)
    BY <1>1, <2>1, PairMoves, ReadingMoves, WaitsToRead DEF Receives
  <2>2. CASE ~ Receives(r, c)
    BY <1>1, <2>2, PairMoves, ReadingMoves
  <2>3. QED
    BY <2>1, <2>2
<1>3. ASSUME NEW s \in Ranks, NEW d \in Cores, NEW x \in Experts, NEW k \in Int,
             k < Announced(s, d, x)
      PROVE  k < Announced(s, d, x)'
  <2>1. Announced(s, d, x) <= Announced(s, d, x)'
    BY <1>1, PairMoves, CountersGrow
  <2>2. Announced(s, d, x) \in Nat /\ Announced(s, d, x)' \in Nat
    <3>1. Announced(s, d, x)' \in Nat
      BY <1>1, DispatchAssumption DEF TypeOK, Announced
    <3>2. QED
      BY <1>1, <3>1, Counters
  <2>3. QED
    BY <1>3, <2>1, <2>2
<1>4. ASSUME NEW r \in Ranks, NEW c \in Cores, NEW h \in Halves
      PROVE  /\ Last(h, Reading(r, c)) \in Int /\ Last(h, Reading(r, c)') \in Int
             /\ Reading(r, c) \in Nat
  <2>1. Reading(r, c) \in Nat /\ Reading(r, c)' \in Nat
    <3>1. Reading(r, c)' \in Nat
      BY <1>1, DispatchAssumption DEF TypeOK, Reading
    <3>2. QED
      BY <1>1, <3>1, Counters
  <2>2. QED
    BY <2>1 DEF Last
<1>5. ASSUME NEW r \in Ranks, NEW s \in Ranks, NEW d \in Cores, NEW e \in Share(d),
             Home(e) = r, NEW c \in Cores
      PROVE  Last(0, Reading(r, c)') < Announced(s, d, e)'
  <2>1. e \in Experts
    BY ShapesOK
  <2>2. Last(0, Reading(r, c)) < Announced(s, d, e)
    BY <1>1, <1>5 DEF TokensAhead
  <2>3. Last(0, Reading(r, c)') < Announced(s, d, e)
    <3>1. CASE Reading(r, c)' = Reading(r, c)
      BY <2>2, <3>1
    <3>2. CASE /\ \A a \in Cores : pc[r][a] = "sync2"
               /\ Reading(r, c) = round[r][c]
               /\ Reading(r, c)' = round[r][c] + 1
      <4>1. round[r][c] \in Nat /\ round[r][c] % 2 \in {0, 1}
        BY <1>1, Counters, Turns
      <4>2. CASE Dispatching(r, c)
        <5>1. Last(0, round[r][c] + 1) = round[r][c]
          BY <4>1, <4>2, LastOfKernel DEF Dispatching
        <5>2. round[r][c] < Announced(s, d, e)
          BY <1>5, <3>2, <4>2, RankPolled
        <5>3. QED
          BY <3>2, <5>1, <5>2
      <4>3. CASE round[r][c] % 2 = 1
        BY <2>2, <3>2, <4>1, <4>3, LastOfKernel
      <4>4. QED
        BY <4>1, <4>2, <4>3 DEF Dispatching
    <3>3. QED
      BY <1>2, <3>1, <3>2
  <2>4. QED
    BY <1>3, <1>4, <2>1, <2>3 DEF Halves
<1>6. ASSUME NEW r \in Ranks, NEW s \in Ranks, NEW d \in Cores, r \in Peers(d),
             NEW c \in Cores
      PROVE  Last(1, Reading(r, c)') < Announced(s, d, r)'
  <2>1. r \in Experts
    BY PeersOK
  <2>2. Last(1, Reading(r, c)) < Announced(s, d, r)
    BY <1>1, <1>6 DEF ResultsAhead
  <2>3. Last(1, Reading(r, c)') < Announced(s, d, r)
    <3>1. CASE Reading(r, c)' = Reading(r, c)
      BY <2>2, <3>1
    <3>2. CASE /\ \A a \in Cores : pc[r][a] = "sync2"
               /\ Reading(r, c) = round[r][c]
               /\ Reading(r, c)' = round[r][c] + 1
      <4>1. round[r][c] \in Nat /\ round[r][c] % 2 \in {0, 1}
        BY <1>1, Counters, Turns
      <4>2. CASE Combining(r, c)
        <5>1. Last(1, round[r][c] + 1) = round[r][c]
          BY <4>1, <4>2, LastOfKernel DEF Combining
        <5>2. round[r][c] < Announced(s, d, r)
          BY <1>6, <3>2, <4>2, RankPolled
        <5>3. QED
          BY <3>2, <5>1, <5>2
      <4>3. CASE round[r][c] % 2 = 0
        BY <2>2, <3>2, <4>1, <4>3, LastOfKernel
      <4>4. QED
        BY <4>1, <4>2, <4>3 DEF Combining
    <3>3. QED
      BY <1>2, <3>1, <3>2
  <2>4. QED
    BY <1>3, <1>4, <2>1, <2>3 DEF Halves
<1>7. TokensAhead'
  BY <1>5 DEF TokensAhead, Share
<1>8. ResultsAhead'
  BY <1>6 DEF ResultsAhead, Peers
<1>9. QED
  BY <1>7, <1>8

-------------------------------------------------------------------------------
(***************************************************************************)
(* The invariant.                                                          *)
(***************************************************************************)
\* Zeroed windows and words satisfy the invariant.
LEMMA InitPairInv == Init => PairInv
<1>1. SUFFICES ASSUME Init PROVE PairInv
  OBVIOUS
<1>2. TypeOK /\ Bounded
  BY <1>1, InitTypes
<1>3. ASSUME NEW r \in Ranks, NEW c \in Cores
      PROVE  pc[r][c] = "idle" /\ round[r][c] = 0
  BY <1>1 DEF Init, PerCore
<1>4. ASSUME NEW r \in Ranks, NEW c \in Cores
      PROVE  /\ Announcing(r, c) = 0 /\ Reading(r, c) = 0 /\ Started(r, c) = 0
             /\ \A x \in Experts : /\ Delivered(r, c, x) = 0
                                   /\ Announced(r, c, x) = 0
  BY <1>3 DEF Announcing, Reading, Started, Delivered, Announced
<1>5. Last(0, 0) = -2 /\ Last(1, 0) = -1 /\ FlagOf(-2) = 0 /\ FlagOf(-1) = 0
  <2>1. 0 \in Halves /\ 1 \in Halves /\ 0 - 2 = -2 /\ 1 - 2 = -1
    BY DEF Halves
  <2>2. QED
    BY <2>1, BeforeFirst
<1>6. Launches /\ ReadTogether
  BY <1>3, <1>4 DEF Launches, ReadTogether
<1>7. SentTogether /\ PairPolled
  BY <1>3 DEF SentTogether, PairPolled
<1>8. PairLists
  BY <1>3 DEF PairLists
<1>9. Registers
  BY <1>1, <1>3, <1>4, BeforeFirst DEF Registers, Init, PerCore, Halves
<1>10. TokenWords
  <2>1. ASSUME NEW s \in Ranks, NEW c \in Cores, NEW e \in Targets(s, c)
        PROVE  window[s][e][0][c] = Last(0, Delivered(s, c, e))
    BY <1>1, <1>4, <1>5, ShapesOK DEF Init, PerExpert, Halves
  <2>2. QED
    BY <2>1 DEF TokenWords
<1>11. ResultWords
  <2>1. ASSUME NEW r \in Ranks, NEW c \in Cores, NEW q \in Peers(c),
               NEW b \in BlocksFor(r, q)
        PROVE  window[b[1]][b[2]][1][c] = Last(1, Delivered(r, c, q))
    <3>1. b[1] \in Ranks /\ b[2] \in Experts
      BY DEF BlocksFor
    <3>2. QED
      BY <1>1, <1>4, <1>5, <3>1, PeersOK DEF Init, PerExpert, Halves
  <2>2. QED
    BY <2>1 DEF ResultWords
<1>12. CountFlags
  <2>1. ASSUME NEW s \in Ranks, NEW c \in Cores, NEW e \in Share(c)
        PROVE  /\ told[s][e][0] = Last(0, Announced(s, c, e))
               /\ flag[s][e][0] = FlagOf(told[s][e][0])
    BY <1>1, <1>4, <1>5, ShapesOK DEF Init, PerExpert, Halves
  <2>2. QED
    BY <2>1 DEF CountFlags
<1>13. ResultFlags
  <2>1. ASSUME NEW r \in Ranks, NEW c \in Cores, NEW q \in Peers(c)
        PROVE  /\ told[r][FirstExpert(q)][1] = Last(1, Announced(r, c, q))
               /\ flag[r][FirstExpert(q)][1] = FlagOf(told[r][FirstExpert(q)][1])
    <3>1. FirstExpert(q) \in Experts
      BY PeersOK, FirstExpertOK
    <3>2. QED
      BY <1>1, <1>4, <1>5, <3>1, PeersOK DEF Init, PerExpert, Halves
  <2>2. QED
    BY <2>1 DEF ResultFlags
<1>14. TokensAhead
  BY <1>4, <1>5, ShapesOK DEF TokensAhead
<1>15. ResultsAhead
  BY <1>4, <1>5, PeersOK DEF ResultsAhead
<1>16. QED
  BY <1>2, <1>6, <1>7, <1>8, <1>9, <1>10, <1>11, <1>12, <1>13, <1>14, <1>15
     DEF PairInv

\* Every step preserves it, one conjunct at a time.
LEMMA NextPairInv ==
  ASSUME PairInv, [PairNext]_vars
  PROVE  PairInv'
<1>1. TypeOK' /\ Bounded'
  BY PairTypes DEF PairInv
<1>2. QED
  BY <1>1, NextLaunches, NextReadTogether, NextSentTogether, NextPairLists,
     NextPairRegisters, NextWords, NextFlags, NextPairAhead, NextPairPolled
     DEF PairInv

\* Whichever kernels the cores of the ranks run, every word of the two halves
\* holds what PairInv says it does, and no rank reads what was not announced.
THEOREM PairInvariant == PairSpec => []PairInv
<1>1. Init => PairInv
  BY InitPairInv
<1>2. PairInv /\ [PairNext]_vars => PairInv'
  BY NextPairInv
<1>3. QED
  BY <1>1, <1>2, PTL DEF PairSpec

\* Every variable stays of its type while the kernels take turns.
THEOREM PairTypeCorrect == PairSpec => []TypeOK
<1>1. PairInv => TypeOK
  BY DEF PairInv
<1>2. QED
  BY <1>1, PairInvariant, PTL


-------------------------------------------------------------------------------
(***************************************************************************)
(* What follows from it.                                                   *)
(***************************************************************************)
\* A half in use two rounds on has been used in the next round.
LEMMA LastAhead ==
  ASSUME NEW n \in Nat, NEW m \in Nat, n + 2 <= m
  PROVE  /\ n % 2 = 1 => n < Last(0, m)
         /\ n % 2 = 0 => n < Last(1, m)
<1>1. m = n + 2 => (m - 1) % 2 = (n + 1) % 2
  OBVIOUS
<1>2. (n + 1) % 2 = 1 - (n % 2)
  BY Turns
<1>3. QED
  BY <1>1, <1>2 DEF Last

\* While a core is in an invocation, no rank has begun to read the next one.
LEMMA Near ==
  ASSUME PairInv, NEW r \in Ranks, NEW c \in Cores, pc[r][c] # "idle",
         NEW s \in Ranks, NEW d \in Cores
  PROVE  Reading(s, d) <= round[r][c] + 1
<1> DEFINE n == round[r][c]
<1>1. n \in Nat /\ Reading(s, d) \in Nat
  BY Counters DEF PairInv
<1>2. SUFFICES ASSUME n + 2 <= Reading(s, d) PROVE FALSE
  BY <1>1
<1>3. \E a \in Cores, x \in Experts : n + 1 < Announced(r, a, x)
  <2>1. CASE n % 2 = 1
    <3>1. PICK e \in Experts : Home(e) = s
      BY SomeExpert
    <3>2. PICK a \in Cores : e \in Share(a)
      BY SomeAnnouncer
    <3>3. Last(0, Reading(s, d)) < Announced(r, a, e)
      BY <3>1, <3>2 DEF PairInv, TokensAhead
    <3>4. n < Last(0, Reading(s, d))
      BY <1>1, <1>2, <2>1, LastAhead
    <3>5. Announced(r, a, e) \in Nat /\ Last(0, Reading(s, d)) \in Int
      BY <1>1, Counters DEF PairInv, Last
    <3>6. QED
      BY <1>1, <3>3, <3>4, <3>5
  <2>2. CASE n % 2 = 0
    <3>1. PICK a \in Cores : s \in Peers(a)
      BY SomePeer
    <3>2. Last(1, Reading(s, d)) < Announced(r, a, s)
      BY <3>1 DEF PairInv, ResultsAhead
    <3>3. n < Last(1, Reading(s, d))
      BY <1>1, <1>2, <2>2, LastAhead
    <3>4. s \in Experts
      BY PeersOK
    <3>5. Announced(r, a, s) \in Nat /\ Last(1, Reading(s, d)) \in Int
      BY <1>1, <3>4, Counters DEF PairInv, Last
    <3>6. QED
      BY <1>1, <3>2, <3>3, <3>4, <3>5
  <2>3. QED
    BY <1>1, <2>1, <2>2
<1>4. PICK a \in Cores, x \in Experts : n + 1 < Announced(r, a, x)
  BY <1>3
<1>5. Announced(r, a, x) \in Nat /\ round[r][a] \in Nat
  BY Counters DEF PairInv
<1>6. pc[r][a] = "idle"
  <2>1. pc[r][a] # "idle" => round[r][a] <= n
    BY DEF PairInv, Launches
  <2>2. Announced(r, a, x) <= round[r][a] + 1
    BY <1>5 DEF Announced
  <2>3. QED
    BY <1>1, <1>4, <1>5, <2>1, <2>2
<1>7. Reading(r, a) = round[r][a] /\ n + 1 < round[r][a]
  BY <1>4, <1>5, <1>6 DEF Announced, Reading
<1>8. Reading(r, c) = Reading(r, a)
  BY DEF PairInv, ReadTogether
<1>9. Reading(r, c) <= n + 1
  BY <1>1 DEF Reading
<1>10. QED
  BY <1>1, <1>5, <1>7, <1>8, <1>9

\* The counts and blocks of dispatch that a core reads have been announced in its
\* own round.
LEMMA TokensTold ==
  ASSUME PairInv, NEW r \in Ranks, NEW c \in Cores, Dispatching(r, c),
         pc[r][c] \in {"counts", "copy"}, NEW b \in Inbox(r),
         NEW a \in Cores, b[2] \in Share(a)
  PROVE  round[r][c] < Announced(b[1], a, b[2])
<1>1. b[1] \in Ranks /\ b[2] \in Experts /\ Home(b[2]) = r
  BY DEF Inbox
<1>2. Last(0, Reading(r, c)) < Announced(b[1], a, b[2])
  BY <1>1 DEF PairInv, TokensAhead
<1>3. Reading(r, c) = round[r][c] + 1
  BY DEF Reading
<1>4. round[r][c] \in Nat /\ round[r][c] % 2 = 0
  BY KernelHalf
<1>5. Last(0, round[r][c] + 1) = round[r][c]
  BY <1>4, LastOfKernel
<1>6. QED
  BY <1>2, <1>3, <1>5

\* The status words a core reads hold counts of its own round.
LEMMA FreshCounts == PairInv => CountsFresh
<1>1. SUFFICES ASSUME PairInv, NEW r \in Ranks, NEW c \in Cores,
                      pc[r][c] = "counts", NEW b \in Inbox(r)
               PROVE  told[b[1]][b[2]][half[r][c]] = round[r][c]
  BY DEF CountsFresh
<1> DEFINE n == round[r][c]
<1>2. b[1] \in Ranks /\ b[2] \in Experts
  BY DEF Inbox
<1>3. ~ Combining(r, c)
  BY <1>1 DEF PairInv, PairLists
<1>4. n \in Nat
  BY <1>1, Counters DEF PairInv
<1>5. Dispatching(r, c)
  BY <1>3, <1>4, Turns DEF Combining, Dispatching
<1>6. n % 2 = 0 /\ half[r][c] = 0
  BY <1>1, <1>5, KernelHalf
<1>7. PICK a \in Cores : b[2] \in Share(a)
  BY <1>2, SomeAnnouncer
<1>8. told[b[1]][b[2]][0] = Last(0, Announced(b[1], a, b[2]))
  BY <1>1, <1>2, <1>7 DEF PairInv, CountFlags
<1>9. n < Announced(b[1], a, b[2])
  BY <1>1, <1>5, <1>7, TokensTold
<1>10. Reading(b[1], a) <= n + 1
  BY <1>1, <1>2, Near
<1>11. /\ Announced(b[1], a, b[2]) \in Nat /\ Reading(b[1], a) \in Nat
       /\ Announced(b[1], a, b[2]) <= Reading(b[1], a) + 1
  <2>1. TypeOK
    BY <1>1 DEF PairInv
  <2>2. Announcing(b[1], a) \in Nat
    BY <1>2, <2>1, Counters
  <2>3. QED
    BY <1>2, <2>1, <2>2, Counters
<1>12. Announced(b[1], a, b[2]) = n + 1 \/ Announced(b[1], a, b[2]) = n + 2
  BY <1>4, <1>9, <1>10, <1>11
<1>13. Last(0, n + 1) = n /\ Last(0, n + 2) = n
  BY <1>4, <1>6, LastOfKernel
<1>14. QED
  BY <1>6, <1>8, <1>12, <1>13

\* What a core has delivered, and what it cannot have delivered yet.
LEMMA DeliveredBy ==
  ASSUME PairInv, NEW r \in Ranks, NEW c \in Cores, pc[r][c] # "idle",
         NEW s \in Ranks, NEW d \in Cores, NEW x \in Experts
  PROVE  /\ Delivered(s, d, x) \in Nat
         /\ Delivered(s, d, x) <= round[r][c] + 2
         /\ Announced(s, d, x) \in Nat /\ Announced(s, d, x) <= Delivered(s, d, x)
         /\ Reading(s, d) \in Nat /\ Reading(s, d) <= Delivered(s, d, x)
         /\ Announcing(s, d) \in Nat /\ Announcing(s, d) <= Delivered(s, d, x)
<1>1. TypeOK
  BY DEF PairInv
<1>2. Reading(s, d) <= round[r][c] + 1 /\ round[r][c] \in Nat
  BY <1>1, Near, Counters
<1>3. QED
  BY <1>1, <1>2, Counters

\* A block of tokens that a core has still to read is what all cores of its
\* sender have sent in this round.
LEMMA TokensRead ==
  ASSUME PairInv, NEW r \in Ranks, NEW c \in Cores, pc[r][c] = "copy",
         Dispatching(r, c), NEW b \in unread[r][c],
         NEW d \in Cores, b[2] \in Targets(b[1], d)
  PROVE  window[b[1]][b[2]][half[r][c]][d] = round[r][c]
<1> DEFINE n == round[r][c]
           s == b[1]
           e == b[2]
<1>1. b \in Inbox(r)
  BY DEF PairInv, PairLists, InboxSlice
<1>2. s \in Ranks /\ e \in Experts
  BY <1>1 DEF Inbox
<1>3. n \in Nat /\ n % 2 = 0 /\ half[r][c] = 0
  BY KernelHalf
<1>4. PICK a \in Cores : e \in Share(a)
  BY <1>2, SomeAnnouncer
<1>5. n < Announced(s, a, e)
  BY <1>1, <1>4, TokensTold
<1>6. window[s][e][0][d] = Last(0, Delivered(s, d, e))
  BY <1>2 DEF PairInv, TokenWords
<1>7. Delivered(s, d, e) \in Nat /\ Delivered(s, d, e) <= n + 2
  BY <1>2, DeliveredBy
<1>8. n < Delivered(s, d, e)
  <2>1. round[s][a] \in Nat /\ Announced(s, a, e) \in Nat
    BY <1>2, Counters DEF PairInv
  <2>2. CASE n < round[s][a]
    <3>1. Reading(s, a) = Reading(s, d)
      BY <1>2 DEF PairInv, ReadTogether
    <3>2. n < Reading(s, a)
      BY <1>3, <2>1, <2>2 DEF Reading
    <3>3. Reading(s, d) \in Nat /\ Reading(s, d) <= Delivered(s, d, e)
      BY <1>2, DeliveredBy
    <3>4. QED
      BY <1>3, <1>7, <3>1, <3>2, <3>3
  <2>3. CASE ~ (n < round[s][a])
    <3>1. n = round[s][a] /\ pc[s][a] \notin {"idle", "send", "sync1"}
      BY <1>3, <1>5, <2>1, <2>3 DEF Announced
    <3>2. Dispatching(s, a)
      BY <1>3, <3>1 DEF Dispatching
    <3>3. n < Announcing(s, d)
      BY <1>2, <3>1, <3>2 DEF PairInv, SentTogether
    <3>4. Announcing(s, d) \in Nat /\ Announcing(s, d) <= Delivered(s, d, e)
      BY <1>2, DeliveredBy
    <3>5. QED
      BY <1>3, <1>7, <3>3, <3>4
  <2>4. QED
    BY <2>2, <2>3
<1>9. Delivered(s, d, e) = n + 1 \/ Delivered(s, d, e) = n + 2
  BY <1>3, <1>7, <1>8
<1>10. Last(0, n + 1) = n /\ Last(0, n + 2) = n
  BY <1>3, LastOfKernel
<1>11. QED
  BY <1>3, <1>6, <1>9, <1>10

\* And a block of results what the core that serves its reader has sent: on the
\* rank of a shared expert the rank itself, for tokens it has kept.
LEMMA ResultsRead ==
  ASSUME PairInv, NEW r \in Ranks, NEW c \in Cores, pc[r][c] = "copy",
         Combining(r, c), NEW b \in unread[r][c],
         NEW d \in Writers(r, c, b)
  PROVE  window[b[1]][b[2]][half[r][c]][d] = round[r][c]
<1> DEFINE n == round[r][c]
           s == b[1]
<1>1. b \in Inbox(r)
  BY DEF PairInv, PairLists
<1>2. s \in Ranks /\ b \in Ranks \X Experts /\ Home(b[2]) = r
  BY <1>1 DEF Inbox
<1>3. n \in Nat /\ n % 2 = 1 /\ half[r][c] = 1
  BY KernelHalf
<1>4. ~ Dispatching(r, c)
  BY <1>3 DEF Dispatching
<1>5. Reading(r, c) = n + 1
  BY DEF Reading
<1>6. Last(1, n + 1) = n /\ Last(1, n + 2) = n
  BY <1>3, LastOfKernel
<1>7. CASE r < Shared /\ s < Shared
  <2>1. d \in Cores /\ s \in Peers(d)
    BY <1>4, <1>7 DEF Writers
  <2>2. b \in BlocksFor(r, s)
    BY <1>2, <1>7 DEF BlocksFor
  <2>3. window[b[1]][b[2]][1][d] = Last(1, Delivered(r, d, s))
    BY <2>1, <2>2 DEF PairInv, ResultWords
  <2>4. Reading(r, d) = n + 1
    BY <1>5, <2>1 DEF PairInv, ReadTogether
  <2>5. /\ Delivered(r, d, s) \in Nat /\ Delivered(r, d, s) <= n + 2
        /\ n + 1 <= Delivered(r, d, s)
    BY <1>2, <2>1, <2>4, PeersOK, DeliveredBy
  <2>6. Delivered(r, d, s) = n + 1 \/ Delivered(r, d, s) = n + 2
    BY <1>3, <2>5
  <2>7. QED
    BY <1>3, <1>6, <2>3, <2>6
<1>8. CASE ~ (r < Shared /\ s < Shared)
  <2>1. d \in Cores /\ r \in Peers(d)
    BY <1>4, <1>8 DEF Writers
  <2>2. b \in BlocksFor(s, r)
    BY <1>2, <1>8 DEF BlocksFor
  <2>3. window[b[1]][b[2]][1][d] = Last(1, Delivered(s, d, r))
    BY <1>2, <2>1, <2>2 DEF PairInv, ResultWords
  <2>4. n < Announced(s, d, r)
    BY <1>2, <1>5, <1>6, <2>1 DEF PairInv, ResultsAhead
  <2>5. /\ Delivered(s, d, r) \in Nat /\ Delivered(s, d, r) <= n + 2
        /\ Announced(s, d, r) \in Nat
        /\ Announced(s, d, r) <= Delivered(s, d, r)
    BY <1>2, <2>1, PeersOK, DeliveredBy
  <2>6. Delivered(s, d, r) = n + 1 \/ Delivered(s, d, r) = n + 2
    BY <1>3, <2>4, <2>5
  <2>7. QED
    BY <1>3, <1>6, <2>3, <2>6
<1>9. QED
  BY <1>7, <1>8

\* The two together.
LEMMA IntactBlocks == PairInv => BlocksIntact
<1>1. SUFFICES ASSUME PairInv, NEW r \in Ranks, NEW c \in Cores,
                      pc[r][c] = "copy", NEW b \in unread[r][c],
                      NEW d \in Writers(r, c, b)
               PROVE  window[b[1]][b[2]][half[r][c]][d] = round[r][c]
  BY DEF BlocksIntact
<1>2. round[r][c] \in Nat
  BY <1>1, Counters DEF PairInv
<1>3. CASE Dispatching(r, c)
  <2>1. d \in Cores /\ b[2] \in Targets(b[1], d)
    BY <1>1, <1>3 DEF Writers
  <2>2. QED
    BY <1>1, <1>3, <2>1, TokensRead
<1>4. CASE Combining(r, c)
  BY <1>1, <1>4, ResultsRead
<1>5. QED
  BY <1>2, <1>3, <1>4, Turns DEF Dispatching, Combining

\* Between two invocations of combine no core of dispatch reads counts of another
\* round, although combine raises flags in the same status words.
THEOREM PairCountsFresh == PairSpec => []CountsFresh
BY PairInvariant, FreshCounts, PTL

\* Every block either kernel reads is complete and of its own invocation,
\* although combine announces without a barrier and nobody acknowledges.
THEOREM PairBlocksIntact == PairSpec => []BlocksIntact
BY PairInvariant, IntactBlocks, PTL


-------------------------------------------------------------------------------
(***************************************************************************)
(* The safety part of PairImplementsExchange.                              *)
(***************************************************************************)
\* A core has begun the round its rank reads, or the next one.
LEMMA BegunNear ==
  ASSUME TypeOK, ReadTogether, NEW r \in Ranks, NEW c \in Cores
  PROVE  /\ Reading(r, 0) \in Nat /\ Begun(r, c) \in Nat
         /\ Begun(r, c) = Reading(r, 0) \/ Begun(r, c) = Reading(r, 0) + 1
<1>1. 0 \in Cores
  BY Sizes DEF Cores
<1>2. Reading(r, c) = Reading(r, 0) /\ round[r][c] \in Nat
  BY <1>1, Counters DEF ReadTogether
<1>3. /\ Begun(r, c) \in Nat
      /\ Begun(r, c) = Reading(r, c) \/ Begun(r, c) = Reading(r, c) + 1
  BY <1>2 DEF Begun, Reading
<1>4. Reading(r, 0) \in Nat
  BY <1>1, Counters
<1>5. QED
  BY <1>2, <1>3, <1>4

\* A rank has begun what the first of its cores has begun.
LEMMA JoinedIs == TypeOK /\ ReadTogether => Joins
<1>1. SUFFICES ASSUME TypeOK, ReadTogether, NEW r \in Ranks
               PROVE  /\ Joined(r) \in {Reading(r, 0), Reading(r, 0) + 1}
                      /\ \A c \in Cores : Begun(r, c) <= Joined(r)
                      /\ \E c \in Cores : Joined(r) = Begun(r, c)
  BY DEF Joins
<1> DEFINE m == Reading(r, 0)
           all == {Begun(r, c) : c \in Cores}
<1>2. 0 \in Cores
  BY Sizes DEF Cores
<1>3. m \in Nat /\ all \subseteq {m, m + 1}
  BY <1>1, <1>2, BegunNear
<1>4. \E n \in all : \A c \in Cores : Begun(r, c) <= n
  <2>1. CASE m + 1 \in all
    <3>1. \A c \in Cores : Begun(r, c) <= m + 1
      BY <1>1, BegunNear
    <3>2. QED
      BY <2>1, <3>1
  <2>2. CASE m + 1 \notin all
    <3>1. m \in all
      BY <1>2, <1>3, <2>2
    <3>2. \A c \in Cores : Begun(r, c) <= m
      BY <1>1, <1>3, <2>2, BegunNear
    <3>3. QED
      BY <3>1, <3>2
  <2>3. QED
    BY <2>1, <2>2
<1>5. Joined(r) \in all /\ \A c \in Cores : Begun(r, c) <= Joined(r)
  BY <1>4 DEF Joined
<1>6. QED
  BY <1>3, <1>5

LEMMA JoinedIsNext == TypeOK' /\ ReadTogether' => Joins'
BY JoinedIs, PTL

\* A core never takes back that it has begun.
LEMMA BegunGrows ==
  ASSUME TypeOK, PairLists, NEW r \in Ranks, NEW c \in Cores, Moves(r, c)
  PROVE  Begun(r, c) <= Begun(r, c)'
<1>1. round[r][c] \in Nat
  BY Counters
<1>2. ASSUME Serves(r, c), pc[r][c] = "status", Combining(r, c)
      PROVE  todo'[r][c] # Peers(c)
  BY <1>2 DEF Serves, PairLists
<1>3. CASE Serves(r, c)
  BY <1>1, <1>2, <1>3 DEF Serves, Begun, Combining
<1>4. CASE ~ Serves(r, c)
  BY <1>1, <1>4 DEF Moves, Stays, Begins, HasSent, Announces, HasAnnounced,
     Polls, Receives, Reads, Ends, Begun, Dispatching, Combining
<1>5. QED
  BY <1>3, <1>4

\* What a core has announced to a rank it serves, it has begun to announce.
LEMMA BegunFirst ==
  ASSUME TypeOK, NEW s \in Ranks, NEW d \in Cores, NEW x \in Experts,
         NEW n \in Nat, n < Announced(s, d, x), n % 2 = 1 => x \in Peers(d)
  PROVE  n < Begun(s, d)
<1>1. round[s][d] \in Nat
  BY Counters
<1>2. CASE n < round[s][d]
  BY <1>1, <1>2 DEF Begun
<1>3. CASE ~ (n < round[s][d])
  <2>1. /\ round[s][d] = n /\ pc[s][d] \notin {"idle", "send", "sync1"}
        /\ ~ (pc[s][d] = "status" /\ x \in todo[s][d])
    BY <1>1, <1>3 DEF Announced
  <2>2. QED
    BY <2>1 DEF Begun, Combining
<1>4. QED
  BY <1>2, <1>3

\* Every step of the pair is one of a single rank.
LEMMA OneMoves ==
  ASSUME TypeOK, [PairNext]_vars
  PROVE  UNCHANGED vars \/ \E r \in Ranks : OthersStay(r)
<1>1. ASSUME NEW r \in Ranks, NEW c \in Cores, Step(r, c)
      PROVE  OthersStay(r)
  BY <1>1 DEF Step, Start, SendTokens, FinishSend, WriteStatus, FinishStatus,
     Poll, ReadCounts, CopyBlock, FinishCopy, Finish, Goto, OthersStay, TypeOK
<1>2. ASSUME NEW r \in Ranks, SyncAll(r)
      PROVE  OthersStay(r)
  BY <1>2 DEF SyncAll, Sync1, Sync2, Sync3, Barrier, OthersStay, TypeOK
<1>3. ASSUME NEW r \in Ranks, CombineSync(r)
      PROVE  OthersStay(r)
  BY <1>3 DEF CombineSync, Barrier, OthersStay, TypeOK
<1>4. ASSUME NEW r \in Ranks, NEW c \in Cores, CombineStep(r, c)
      PROVE  OthersStay(r)
  BY <1>4 DEF CombineStep, CombineStart, SendResults, FinishResults, RaiseFlag,
     FinishStatus, PollFlags, FinishGather, Goto, OthersStay, TypeOK
<1>5. QED
  BY PairCases, <1>1, <1>2, <1>3, <1>4, Zenon

\* The ranks that a step is not one of keep their counters.
LEMMA OthersKeep ==
  ASSUME Joins, Joins', NEW r \in Ranks, TypeOK, ReadTogether,
         pc'[r] = pc[r], round'[r] = round[r], todo'[r] = todo[r]
  PROVE  Joined(r)' = Joined(r) /\ Gathered(r)' = Gathered(r)
<1>1. \A c \in Cores : Begun(r, c)' = Begun(r, c) /\ Begun(r, c) \in Nat
  BY BegunNear DEF Begun, Combining
<1>2. PICK a \in Cores : Joined(r) = Begun(r, a)
  BY DEF Joins
<1>3. PICK b \in Cores : Joined(r)' = Begun(r, b)'
  BY DEF Joins
<1>4. Begun(r, a)' <= Joined(r)' /\ Begun(r, b) <= Joined(r)
  BY DEF Joins
<1>5. QED
  BY <1>1, <1>2, <1>3, <1>4 DEF Gathered

\* The barrier after the flags receives a round every rank has begun to announce.
LEMMA BarrierReceives ==
  ASSUME PairInv, Joins, Joins', NEW r \in Ranks, Receives(r, 0), OthersStay(r)
  PROVE  Pairing!Receive(r)
<1> DEFINE n == round[r][0]
<1>1. 0 \in Cores
  BY Sizes DEF Cores
<1>2. /\ \A c \in Cores : pc[r][c] = "sync2" /\ round'[r][c] = round[r][c]
                          /\ pc'[r][c] \in {"counts", "copy"}
      /\ \A c \in Cores : round[r][c] \in Nat
  BY Counters DEF Receives, PairInv
<1>3. Gathered(r) = n /\ Gathered(r)' = n + 1 /\ n \in Nat
  BY <1>1, <1>2 DEF Gathered
<1>4. Joined(r)' = Joined(r)
  <2>1. \A c \in Cores : Begun(r, c)' = Begun(r, c) /\ Begun(r, c) \in Nat
    BY <1>2 DEF Begun
  <2>2. PICK a \in Cores : Joined(r) = Begun(r, a)
    BY DEF Joins
  <2>3. PICK b \in Cores : Joined(r)' = Begun(r, b)'
    BY DEF Joins
  <2>4. Begun(r, a)' <= Joined(r)' /\ Begun(r, b) <= Joined(r)
    BY DEF Joins
  <2>5. QED
    BY <2>1, <2>2, <2>3, <2>4
<1>5. \A s \in Ranks \ {r} :
        Joined(s)' = Joined(s) /\ Gathered(s)' = Gathered(s)
  BY OthersKeep DEF OthersStay, PairInv
<1>6. ASSUME NEW s \in Ranks
      PROVE  n < Joined(s)
  <2>1. \E d \in Cores : n < Begun(s, d)
    <3>1. CASE n % 2 = 0
      <4>1. Dispatching(r, 0)
        BY <3>1 DEF Dispatching
      <4>2. PICK e \in Experts : Home(e) = r
        BY SomeExpert
      <4>3. PICK d \in Cores : e \in Share(d)
        BY SomeAnnouncer
      <4>4. n < Announced(s, d, e)
        BY <1>1, <1>2, <4>1, <4>2, <4>3, RankPolled
      <4>5. TypeOK
        BY DEF PairInv
      <4>6. n < Begun(s, d)
        BY <1>3, <3>1, <4>4, <4>5, BegunFirst
      <4>7. QED
        BY <4>6
    <3>2. CASE n % 2 = 1
      <4>1. Combining(r, 0)
        BY <3>2 DEF Combining
      <4>2. PICK d \in Cores : r \in Peers(d)
        BY SomePeer
      <4>3. n < Announced(s, d, r)
        BY <1>1, <1>2, <4>1, <4>2, RankPolled
      <4>4. TypeOK /\ r \in Experts
        BY PeersOK DEF PairInv
      <4>5. n < Begun(s, d)
        BY <1>3, <4>2, <4>3, <4>4, BegunFirst
      <4>6. QED
        BY <4>5
    <3>3. QED
      BY <1>3, <3>1, <3>2
  <2>2. PICK d \in Cores : n < Begun(s, d)
    BY <2>1
  <2>3. /\ Begun(s, d) <= Joined(s) /\ Begun(s, d) \in Nat
        /\ Reading(s, 0) \in Nat
        /\ Joined(s) \in {Reading(s, 0), Reading(s, 0) + 1}
    BY BegunNear DEF Joins, PairInv
  <2>4. QED
    BY <1>3, <2>2, <2>3
<1>7. QED
  BY <1>3, <1>4, <1>5, <1>6 DEF Pairing!Receive

\* The first core of a rank that begins to announce sends, and any other step
\* leaves the counters alone.
LEMMA FirstSends ==
  ASSUME PairInv, PairInv', [PairNext]_vars, Joins, Joins',
         NEW r \in Ranks, ~ Receives(r, 0), OthersStay(r)
  PROVE  Pairing!Send(r) \/ UNCHANGED Pairing!vars
<1> DEFINE m == Reading(r, 0)
<1>1. 0 \in Cores /\ TypeOK /\ TypeOK' /\ ReadTogether /\ ReadTogether'
  BY Sizes DEF Cores, PairInv
<1>2. m' = m /\ m \in Nat
  BY <1>1, PairMoves, ReadingMoves, Counters
<1>3. Gathered(r) = m /\ Gathered(r)' = m
  BY <1>2 DEF Gathered, Reading
<1>4. \A s \in Ranks \ {r} :
        Joined(s)' = Joined(s) /\ Gathered(s)' = Gathered(s)
  BY <1>1, OthersKeep DEF OthersStay
<1>5. Joined(r) \in {m, m + 1} /\ Joined(r)' \in {m, m + 1}
  BY <1>2 DEF Joins
<1>6. Joined(r) <= Joined(r)'
  <2>1. PICK a \in Cores : Joined(r) = Begun(r, a)
    BY DEF Joins
  <2>2. Begun(r, a) <= Begun(r, a)'
    BY <1>1, PairMoves, BegunGrows DEF PairInv
  <2>3. Begun(r, a)' <= Joined(r)'
    BY DEF Joins
  <2>4. Begun(r, a)' \in Int
    BY <1>1, DispatchAssumption DEF Begun, TypeOK
  <2>5. QED
    BY <1>2, <1>5, <2>1, <2>2, <2>3, <2>4
<1>7. CASE Joined(r)' = Joined(r)
  BY <1>3, <1>4, <1>7 DEF Pairing!vars
<1>8. CASE Joined(r)' # Joined(r)
  <2>1. Joined(r) = m /\ Joined(r)' = m + 1
    BY <1>2, <1>5, <1>6, <1>8
  <2>2. PICK a \in Cores : Joined(r)' = Begun(r, a)'
    BY DEF Joins
  <2>3. /\ round'[r][a] \in 0 .. MaxRound
        /\ pc'[r][a] # "idle" => round'[r][a] < MaxRound
    BY DEF PairInv, TypeOK, Bounded
  <2>4. Begun(r, a)' <= MaxRound
    BY <2>3, DispatchAssumption DEF Begun
  <2>5. m < MaxRound
    BY <1>2, <2>1, <2>2, <2>4, DispatchAssumption
  <2>6. QED
    BY <1>3, <1>4, <2>1, <2>5 DEF Pairing!Send
<1>9. QED
  BY <1>7, <1>8

\* The pair starts where the exchange does.
LEMMA InitPairing == Init => Pairing!Init
<1>1. SUFFICES ASSUME Init, NEW r \in Ranks
               PROVE  Joined(r) = 0 /\ Gathered(r) = 0
  BY DEF Pairing!Init
<1>2. \A c \in Cores : pc[r][c] = "idle" /\ round[r][c] = 0
  BY <1>1 DEF Init, PerCore
<1>3. Joins
  BY <1>1, InitPairInv, JoinedIs DEF PairInv
<1>4. PICK a \in Cores : Joined(r) = Begun(r, a)
  BY <1>3 DEF Joins
<1>5. QED
  BY <1>2, <1>4, Sizes DEF Begun, Gathered, Cores

\* Every step of the pair is a step of the exchange, or leaves it alone.
LEMMA NextPairing ==
  ASSUME PairInv, PairInv', [PairNext]_vars
  PROVE  [Pairing!Next]_(Pairing!vars)
<1>1. Joins /\ Joins'
  BY JoinedIs, JoinedIsNext DEF PairInv
<1>2. ASSUME UNCHANGED vars PROVE UNCHANGED Pairing!vars
  <2>1. \A r \in Ranks : Joined(r)' = Joined(r) /\ Gathered(r)' = Gathered(r)
    BY <1>1, <1>2, OthersKeep DEF vars, PairInv
  <2>2. QED
    BY <2>1 DEF Pairing!vars
<1>3. ASSUME NEW r \in Ranks, OthersStay(r)
      PROVE  [Pairing!Next]_(Pairing!vars)
  BY <1>1, <1>3, BarrierReceives, FirstSends DEF Pairing!Next
<1>4. QED
  BY <1>2, <1>3, OneMoves DEF PairInv

\* Without its fairness, the exchange is implemented by the two kernels in turn,
\* each with the flags it raises in its own way.
THEOREM PairExchangeIsImplemented ==
  PairSpec => Pairing!Init /\ [][Pairing!Next]_(Pairing!vars)
<1>1. Init => Pairing!Init
  BY InitPairing
<1>2. PairInv /\ PairInv' /\ [PairNext]_vars => [Pairing!Next]_(Pairing!vars)
  BY NextPairing
<1>3. QED
  BY <1>1, <1>2, PairInvariant, PTL DEF PairSpec
===============================================================================
