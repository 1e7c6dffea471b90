-------------------------- MODULE KernelDownloadProofs --------------------------
(* A run of the download that comes to its end leaves the files of the        *)
(* release it fetched and, without --tag, what its stamp says, for any        *)
(* repositories, directories and releases, and however many runs were         *)
(* interrupted before it.                                                     *)
(*                                                                            *)
(* The argument (DownloadInv) is about one run: clones it has passed are at   *)
(* its release with the paths of the map, and a directory it has passed has   *)
(* the files of that release, except those it is about to copy.  Nothing is   *)
(* assumed of the clones and the tree a run finds.                            *)
EXTENDS KernelDownload, TLAPS

Up(d) == Upstream[tag][d]
Active == pc \in {"clone", "copy", "done"}

\* The release of a run is the one its map pins, or one given with --tag.
TagPinned ==
  Active => pinned \in Tags /\ tag \in Tags /\ tag \in {pinned} \cup Overrides

Cloned(r) == clone[r].at = tag /\ clone[r].paths
ClonesPassed ==
  /\ pc = "clone" => /\ \A r \in Repos \ toClone : Cloned(r)
                     /\ cloning # None => clone[cloning].at = tag
  /\ pc \in {"copy", "done"} => \A r \in Repos : Cloned(r)

Copying(d, p, n) == <<d, p, n>> \in copying
DirPassed(d) ==
  /\ d \in present <=> Up(d).kernel \cup Up(d).rest # {}
  /\ \A n \in Up(d).rest : Copying(d, "rest", n) \/ tree[d]["rest"][n] = tag
  /\ Up(d).kernel # {} =>
       \A n \in Names : IF n \in Up(d).kernel
                        THEN Copying(d, "kernel", n) \/ tree[d]["kernel"][n] = tag
                        ELSE tree[d]["kernel"][n] = None
DirsPassed ==
  pc \in {"copy", "done"} =>
    /\ \A d \in Dirs \ toCopy : DirPassed(d)
    /\ present \cap toCopy = {}
    /\ \A d \in Dirs, p \in Parts, n \in Names :
         Copying(d, p, n) => d \notin toCopy /\ n \in Up(d)[p]

Stamped == pc = "done" => stamp = [tag |-> pinned, present |-> present]

DownloadInv == TypeOK /\ TagPinned /\ ClonesPassed /\ DirsPassed /\ Stamped

-----------------------------------------------------------------------------
\* What a release has in a directory.
LEMMA UpType ==
  ASSUME NEW t \in Tags, NEW d \in Dirs
  PROVE  /\ Upstream[t][d].kernel \subseteq Names /\ Upstream[t][d].rest \subseteq Names
         /\ RepoOf[d] \in Repos
BY DownloadAssumption

\* Nothing has been fetched yet.
LEMMA InitInv == Init => DownloadInv
<1> SUFFICES ASSUME Init PROVE DownloadInv
  OBVIOUS
<1>1. clone \in [Repos -> [at : Tags \cup {None}, paths : BOOLEAN]]
  BY DEF Init
<1>2. tree \in [Dirs -> [Parts -> [Names -> Tags \cup {None}]]]
  BY DEF Init
<1>3. TypeOK
  BY <1>1, <1>2, DownloadAssumption DEF Init, TypeOK
<1>4. TagPinned /\ ClonesPassed /\ DirsPassed /\ Stamped
  BY DEF Init, TagPinned, Active, ClonesPassed, DirsPassed, Stamped
<1>5. QED
  BY <1>3, <1>4 DEF DownloadInv

\* A run that starts has everything to clone.
LEMMA RunInv ==
  ASSUME DownloadInv, Run
  PROVE  DownloadInv'
<1>1. TypeOK'
  BY DownloadAssumption DEF DownloadInv, TypeOK, Run, disk
<1>2. TagPinned'
  BY DownloadAssumption DEF Run, TagPinned
<1>3. ClonesPassed' /\ DirsPassed' /\ Stamped'
  BY DEF DownloadInv, TypeOK, Run, ClonesPassed, DirsPassed, Stamped
<1>4. QED
  BY <1>1, <1>2, <1>3 DEF DownloadInv

\* A clone is brought to the release of the run.
LEMMA CheckoutInv ==
  ASSUME DownloadInv, NEW r \in Repos, Checkout(r)
  PROVE  DownloadInv'
<1>1. tag \in Tags /\ clone \in [Repos -> [at : Tags \cup {None}, paths : BOOLEAN]]
  BY DEF DownloadInv, TagPinned, Active, Checkout, TypeOK
<1>2. /\ clone' \in [Repos -> [at : Tags \cup {None}, paths : BOOLEAN]]
      /\ clone'[r].at = tag /\ \A q \in Repos \ {r} : clone'[q] = clone[q]
  BY <1>1 DEF Checkout
<1>3. TypeOK'
  BY <1>2 DEF DownloadInv, TypeOK, Checkout
<1>4. ClonesPassed'
  BY <1>2 DEF DownloadInv, ClonesPassed, Cloned, Checkout
<1>5. TagPinned' /\ DirsPassed' /\ Stamped'
  BY DEF DownloadInv, TagPinned, Active, DirsPassed, Stamped, Checkout
<1>6. QED
  BY <1>3, <1>4, <1>5 DEF DownloadInv

\* A clone with its paths is passed; after the last, all directories are to be copied.
LEMMA SetPathsInv ==
  ASSUME DownloadInv, SetPaths
  PROVE  DownloadInv'
<1>1. /\ tag \in Tags /\ clone \in [Repos -> [at : Tags \cup {None}, paths : BOOLEAN]]
      /\ cloning \in toClone /\ toClone \subseteq Repos /\ clone[cloning].at = tag
      /\ copying = {} /\ toCopy = {}
      /\ \A q \in Repos \ toClone : Cloned(q)
  BY DEF DownloadInv, TagPinned, Active, SetPaths, TypeOK, ClonesPassed
<1>2. /\ clone' \in [Repos -> [at : Tags \cup {None}, paths : BOOLEAN]]
      /\ clone'[cloning].at = tag /\ clone'[cloning].paths
      /\ \A q \in Repos \ {cloning} : clone'[q] = clone[q]
  BY <1>1 DEF SetPaths
<1>3. TypeOK'
  BY <1>1, <1>2 DEF DownloadInv, TypeOK, SetPaths
<1>4. \A q \in Repos \ toClone' : Cloned(q)'
  BY <1>1, <1>2 DEF Cloned, SetPaths
<1>5. ClonesPassed'
  BY <1>4 DEF ClonesPassed, SetPaths
<1>6. DirsPassed'
  BY <1>1 DEF DirsPassed, Copying, SetPaths
<1>7. TagPinned' /\ Stamped'
  BY DEF DownloadInv, TagPinned, Active, Stamped, SetPaths
<1>8. QED
  BY <1>3, <1>5, <1>6, <1>7 DEF DownloadInv

\* A directory opened is passed: its old op_kernel is gone if there is a new one, and its
\* files are to be copied.
LEMMA OpenDirInv ==
  ASSUME DownloadInv, NEW d \in Dirs, OpenDir(d)
  PROVE  DownloadInv'
<1>1. /\ tag \in Tags /\ d \in toCopy /\ copying = {} /\ pc = "copy" /\ pc' = pc /\ tag' = tag
      /\ tree \in [Dirs -> [Parts -> [Names -> Tags \cup {None}]]]
      /\ DirsPassed /\ \A r \in Repos : Cloned(r)
  BY DEF DownloadInv, TagPinned, Active, OpenDir, TypeOK, ClonesPassed
<1>2. Found(d) = Up(d)
  BY <1>1, UpType DEF Found, Up, Cloned
<1>3. /\ Up(d).kernel \subseteq Names /\ Up(d).rest \subseteq Names
  BY <1>1, UpType DEF Up
<1>4. /\ tree' = IF Up(d).kernel = {} THEN tree
                 ELSE [tree EXCEPT ![d]["kernel"] = [n \in Names |-> None]]
      /\ copying' = {<<d, "kernel", n>> : n \in Up(d).kernel}
                    \cup {<<d, "rest", n>> : n \in Up(d).rest}
      /\ present' = IF copying' = {} THEN present ELSE present \cup {d}
      /\ toCopy' = toCopy \ {d}
      /\ UNCHANGED <<pc, runs, pinned, tag, toClone, cloning, clone, stamp>>
  BY <1>1, <1>2 DEF OpenDir
<1>5. /\ \A n \in Up(d).kernel : Copying(d, "kernel", n)'
      /\ \A n \in Up(d).rest : Copying(d, "rest", n)'
      /\ \A e \in Dirs, p \in Parts, n \in Names :
           Copying(e, p, n)' => e = d /\ n \in Up(d)[p]
      /\ copying' = {} <=> Up(d).kernel \cup Up(d).rest = {}
  BY <1>4 DEF Copying, Parts
<1>6. /\ tree' \in [Dirs -> [Parts -> [Names -> Tags \cup {None}]]]
      /\ \A e \in Dirs \ {d} : tree'[e] = tree[e]
      /\ Up(d).kernel # {} => \A n \in Names : tree'[d]["kernel"][n] = None
  BY <1>1, <1>4 DEF Parts
<1>7. TypeOK'
  BY <1>1, <1>3, <1>4, <1>6 DEF DownloadInv, TypeOK, Parts
<1>8. DirsPassed'
  <2>1. \A e \in Dirs : Up(e)' = Up(e)
    BY <1>1 DEF Up
  <2>2. ASSUME NEW e \in Dirs \ toCopy' PROVE DirPassed(e)'
    <3>1. CASE e = d
      <4>1. d \notin present
        BY <1>1 DEF DirsPassed
      <4>2. d \in present' <=> Up(d).kernel \cup Up(d).rest # {}
        BY <1>4, <1>5, <4>1
      <4>3. QED
        BY <1>5, <1>6, <2>1, <3>1, <4>2 DEF DirPassed
    <3>2. CASE e # d
      <4>1. DirPassed(e)
        BY <1>1, <1>4, <2>2, <3>2 DEF DirsPassed
      <4>2. \A p, n : ~ Copying(e, p, n)
        BY <1>1 DEF Copying
      <4>3. e \in present' <=> e \in present
        BY <1>4, <3>2
      <4>4. QED
        BY <1>1, <1>6, <2>1, <3>2, <4>1, <4>2, <4>3 DEF DirPassed
    <3>3. QED
      BY <3>1, <3>2
  <2>3. present' \cap toCopy' = {}
    BY <1>1, <1>4 DEF DirsPassed
  <2>4. QED
    BY <1>4, <1>5, <2>1, <2>2, <2>3 DEF DirsPassed
<1>9. TagPinned' /\ ClonesPassed' /\ Stamped'
  BY <1>1, <1>4 DEF DownloadInv, TagPinned, Active, ClonesPassed, Cloned, Stamped
<1>10. QED
  BY <1>7, <1>8, <1>9 DEF DownloadInv

\* A file copied is of the release its clone is at.
LEMMA CopyFileInv ==
  ASSUME DownloadInv, CopyFile
  PROVE  DownloadInv'
<1>1. PICK f \in copying :
        /\ tree' = [tree EXCEPT ![f[1]][f[2]][f[3]] = clone[RepoOf[f[1]]].at]
        /\ copying' = copying \ {f}
  BY DEF CopyFile
<1>2. /\ tag \in Tags /\ pc = "copy" /\ DirsPassed /\ TypeOK /\ \A r \in Repos : Cloned(r)
      /\ copying \subseteq Dirs \X Parts \X Names
      /\ UNCHANGED <<pc, runs, pinned, tag, toClone, cloning, toCopy, present, clone, stamp>>
  BY DEF DownloadInv, TagPinned, Active, CopyFile, TypeOK, ClonesPassed
<1>3. PICK d \in Dirs, p \in Parts, m \in Names : f = <<d, p, m>>
  BY <1>1, <1>2
<1>4. tree' = [tree EXCEPT ![d][p][m] = tag]
  BY <1>1, <1>2, <1>3, UpType DEF Cloned
<1>5. tree \in [Dirs -> [Parts -> [Names -> Tags \cup {None}]]]
  BY <1>2 DEF TypeOK
<1>6. /\ tree' \in [Dirs -> [Parts -> [Names -> Tags \cup {None}]]]
      /\ \A e \in Dirs, q \in Parts, n \in Names :
           tree'[e][q][n] = IF <<e, q, n>> = f THEN tag ELSE tree[e][q][n]
  BY <1>2, <1>3, <1>4, <1>5
<1>7. TypeOK'
  BY <1>1, <1>2, <1>6 DEF TypeOK
<1>8. DirsPassed'
  <2>1. \A e \in Dirs : Up(e)' = Up(e) /\ Up(e).kernel \subseteq Names /\ Up(e).rest \subseteq Names
    BY <1>2, UpType DEF Up
  <2>2. /\ d \notin toCopy /\ m \in Up(d)[p]
    BY <1>1, <1>2, <1>3 DEF DirsPassed, Copying
  <2>3. \A e \in Dirs, q \in Parts, n \in Names :
          /\ Copying(e, q, n)' => Copying(e, q, n)
          /\ Copying(e, q, n) => Copying(e, q, n)' \/ tree'[e][q][n] = tag
    BY <1>1, <1>6 DEF Copying
  <2>4. \A e \in Dirs, q \in Parts, n \in Names :
          tree'[e][q][n] = tree[e][q][n] \/ (tree'[e][q][n] = tag /\ n \in Up(e)[q])
    <3> SUFFICES ASSUME NEW e \in Dirs, NEW q \in Parts, NEW n \in Names,
                        tree'[e][q][n] # tree[e][q][n]
                 PROVE  tree'[e][q][n] = tag /\ n \in Up(e)[q]
      OBVIOUS
    <3>1. <<e, q, n>> = f /\ tree'[e][q][n] = tag
      BY <1>6
    <3>2. e = d /\ q = p /\ n = m
      BY <1>3, <3>1
    <3>3. QED
      BY <2>2, <3>1, <3>2
  <2>5. ASSUME NEW e \in Dirs \ toCopy' PROVE DirPassed(e)'
    <3>1. DirPassed(e) /\ e \in Dirs
      BY <1>2, <2>5 DEF DirsPassed
    <3>2. \A n \in Up(e).rest : Copying(e, "rest", n)' \/ tree'[e]["rest"][n] = tag
      BY <2>1, <2>3, <2>4, <3>1 DEF DirPassed, Parts
    <3>3. ASSUME Up(e).kernel # {}, NEW n \in Names
          PROVE  IF n \in Up(e).kernel
                 THEN Copying(e, "kernel", n)' \/ tree'[e]["kernel"][n] = tag
                 ELSE tree'[e]["kernel"][n] = None
      <4>1. CASE n \in Up(e).kernel
        BY <2>3, <2>4, <3>1, <3>3, <4>1 DEF DirPassed, Parts
      <4>2. CASE n \notin Up(e).kernel
        BY <2>4, <3>1, <3>3, <4>2 DEF DirPassed, Parts
      <4>3. QED
        BY <4>1, <4>2
    <3>4. e \in present' <=> Up(e).kernel \cup Up(e).rest # {}
      BY <1>2, <3>1 DEF DirPassed
    <3>5. QED
      BY <1>2, <2>1, <3>1, <3>2, <3>3, <3>4 DEF DirPassed
  <2>6. QED
    BY <1>2, <2>1, <2>3, <2>5 DEF DirsPassed
<1>9. TagPinned' /\ ClonesPassed' /\ Stamped'
  BY <1>2 DEF DownloadInv, TagPinned, Active, ClonesPassed, Cloned, Stamped
<1>10. QED
  BY <1>7, <1>8, <1>9 DEF DownloadInv

\* The stamp is written when everything is copied.
LEMMA WriteStampInv ==
  ASSUME DownloadInv, WriteStamp
  PROVE  DownloadInv'
<1>1. pc = "copy" /\ pc' = "done" /\ tag \in Tags /\ pinned \in Tags
  BY DEF DownloadInv, TagPinned, Active, WriteStamp
<1>2. TypeOK'
  BY <1>1 DEF DownloadInv, TypeOK, WriteStamp, work
<1>3. TagPinned' /\ ClonesPassed' /\ Stamped'
  BY <1>1 DEF DownloadInv, TagPinned, Active, ClonesPassed, Cloned, Stamped, WriteStamp, work
<1>4. DirsPassed'
  BY <1>1 DEF DownloadInv, DirsPassed, DirPassed, Up, Copying, WriteStamp, work
<1>5. QED
  BY <1>2, <1>3, <1>4 DEF DownloadInv

\* Nothing is claimed of a run that was interrupted.
LEMMA StopInv ==
  ASSUME DownloadInv, Stop
  PROVE  DownloadInv'
BY DEF DownloadInv, TypeOK, TagPinned, Active, ClonesPassed, DirsPassed, Stamped, Stop

\* The steps together.
LEMMA StepInv ==
  ASSUME DownloadInv, [Next]_vars
  PROVE  DownloadInv'
<1>1. CASE UNCHANGED vars
  BY <1>1 DEF vars, DownloadInv, TypeOK, TagPinned, Active, ClonesPassed, Cloned, DirsPassed,
     DirPassed, Up, Copying, Stamped
<1>2. QED
  BY <1>1, RunInv, CheckoutInv, SetPathsInv, OpenDirInv, CopyFileInv, WriteStampInv, StopInv
     DEF Next

\* However runs were interrupted or given a release, what the run works on is of its type.
THEOREM TypeCorrect == Spec => []TypeOK
<1>1. Init => DownloadInv
  BY InitInv
<1>2. DownloadInv /\ [Next]_vars => DownloadInv'
  BY StepInv
<1>3. DownloadInv => TypeOK
  BY DEF DownloadInv
<1>4. QED
  BY <1>1, <1>2, <1>3, PTL DEF Spec

-----------------------------------------------------------------------------
\* What a run that has ended leaves: the files of the release it has fetched, no kernel
\* file of another, and a stamp with the release of the map and the directories there are.
RunLeaves ==
  pc = "done" =>
    /\ stamp = [tag |-> pinned, present |-> present]
    /\ \A d \in Dirs :
         /\ d \in present <=> Up(d).kernel \cup Up(d).rest # {}
         /\ \A n \in Up(d).rest : tree[d]["rest"][n] = tag
         /\ Up(d).kernel # {} =>
              tree[d]["kernel"] = [n \in Names |-> IF n \in Up(d).kernel THEN tag ELSE None]

\* When everything is copied, the directories are passed and nothing is left to copy.
LEMMA InvImpliesRunLeaves == DownloadInv => RunLeaves
<1> SUFFICES ASSUME DownloadInv, pc = "done", NEW d \in Dirs
             PROVE  /\ stamp = [tag |-> pinned, present |-> present]
                    /\ d \in present <=> Up(d).kernel \cup Up(d).rest # {}
                    /\ \A n \in Up(d).rest : tree[d]["rest"][n] = tag
                    /\ Up(d).kernel # {} =>
                         tree[d]["kernel"] =
                           [n \in Names |-> IF n \in Up(d).kernel THEN tag ELSE None]
  BY DEF RunLeaves, DownloadInv, Stamped
<1>1. stamp = [tag |-> pinned, present |-> present]
  BY DEF DownloadInv, Stamped
<1>2. toCopy = {} /\ copying = {} /\ tree \in [Dirs -> [Parts -> [Names -> Tags \cup {None}]]]
  BY DEF DownloadInv, TypeOK
<1>3. DirPassed(d)
  BY <1>2 DEF DownloadInv, DirsPassed
<1>4. tree[d]["kernel"] \in [Names -> Tags \cup {None}]
  BY <1>2 DEF Parts
<1>5. \A n : ~ Copying(d, "rest", n) /\ ~ Copying(d, "kernel", n)
  BY <1>2 DEF Copying
<1>6. Up(d).kernel # {} =>
        tree[d]["kernel"] = [n \in Names |-> IF n \in Up(d).kernel THEN tag ELSE None]
  BY <1>3, <1>4, <1>5 DEF DirPassed
<1>7. QED
  BY <1>1, <1>3, <1>5, <1>6 DEF DirPassed

\* With or without --tag, every run that ends leaves the files of the release it has fetched.
THEOREM ReleaseIsLeft == Spec => []RunLeaves
<1>1. Init => DownloadInv
  BY InitInv
<1>2. DownloadInv /\ [Next]_vars => DownloadInv'
  BY StepInv
<1>3. QED
  BY <1>1, <1>2, InvImpliesRunLeaves, PTL DEF Spec

\* Without --tag the release fetched is the one the map pins and the stamp names.
LEMMA InvImpliesStampTrue ==
  ASSUME Overrides = {}, DownloadInv
  PROVE  StampTrue
<1>1. CASE pc = "done"
  <2>1. RunLeaves /\ tag = pinned
    BY <1>1, InvImpliesRunLeaves DEF DownloadInv, TagPinned, Active
  <2>2. stamp.tag = tag /\ stamp.present = present
    BY <1>1, <2>1 DEF RunLeaves
  <2>3. QED
    BY <1>1, <2>1, <2>2 DEF RunLeaves, StampTrue, Up
<1>2. CASE pc # "done"
  BY <1>2 DEF StampTrue
<1>3. QED
  BY <1>1, <1>2

\* Without --tag, the stamp of every run that ends tells which directories were there, and
\* every file of theirs is of the release it names.
THEOREM StampIsTrue ==
  ASSUME Overrides = {}
  PROVE  Spec => []StampTrue
<1>1. Init => DownloadInv
  BY InitInv
<1>2. DownloadInv /\ [Next]_vars => DownloadInv'
  BY StepInv
<1>3. DownloadInv => StampTrue
  BY InvImpliesStampTrue
<1>4. QED
  BY <1>1, <1>2, <1>3, PTL DEF Spec
=============================================================================
