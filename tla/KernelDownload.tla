----------------------------- MODULE KernelDownload -----------------------------
(***************************************************************************)
(* scripts/download_cann_ops.py: the kernels of a release are cloned,      *)
(* copied into this repository and recorded in a stamp file.  The script   *)
(* is run again when the map of operators pins another release, may be     *)
(* given a release with --tag, and may stop between any two steps: git     *)
(* fails, or the user interrupts it.  The clones and the tree survive.     *)
(*                                                                         *)
(* The content of a file is the release it is of.  The SuperNpuBench part  *)
(* takes the same steps, always with the branch of its map.                *)
(***************************************************************************)
EXTENDS Naturals

CONSTANTS
  Repos, Dirs,   \* repositories, and the operator directories of the map
  RepoOf,        \* the repository of each directory
  Tags, Names,
  Upstream,      \* Upstream[t][d]: the files of op_kernel, and the others that
                 \* are kept, in directory d of release t; none of an absent d
  Overrides,     \* releases the user may give with --tag
  MaxRuns,       \* bound on the number of runs
  None

ASSUME DownloadAssumption ==
  /\ RepoOf \in [Dirs -> Repos]
  /\ Upstream \in [Tags -> [Dirs -> [kernel : SUBSET Names, rest : SUBSET Names]]]
  /\ Overrides \subseteq Tags /\ None \notin Tags
  /\ MaxRuns \in Nat

VARIABLES
  pc, runs,
  pinned,     \* mapping["tag"], read when the run began
  tag,        \* the release this run fetches
  toClone,    \* repositories still to bring to it
  cloning,    \* the one whose paths are still to be set
  toCopy,     \* directories still to copy
  copying,    \* files still to copy of the directory at hand: <<dir, part, name>>
  present,    \* directories this run has found files of
  clone,      \* the release each clone is at, and whether its sparse checkout
              \* holds the directories of the map
  tree,       \* tree[d][part][name]: the release of a file copied here
  stamp       \* cann_ops_downloaded.json

vars == <<pc, runs, pinned, tag, toClone, cloning, toCopy, copying, present,
          clone, tree, stamp>>

work == <<toClone, cloning, toCopy, copying, present>>
disk == <<clone, tree, stamp>>

Parts == {"kernel", "rest"}

Init ==
  /\ pc = "off" /\ runs = 0 /\ pinned = None /\ tag = None
  /\ toClone = {} /\ cloning = None /\ toCopy = {} /\ copying = {}
  /\ present = {}
  /\ clone = [r \in Repos |-> [at |-> None, paths |-> FALSE]]
  /\ tree = [d \in Dirs |-> [p \in Parts |-> [n \in Names |-> None]]]
  /\ stamp = None

\* main: the map pins a release, --tag overrides it.
Run ==
  /\ pc \in {"off", "done"} /\ runs < MaxRuns
  /\ pinned' \in Tags
  /\ tag' \in {pinned'} \cup Overrides
  /\ pc' = "clone" /\ runs' = runs + 1
  /\ toClone' = Repos
  /\ UNCHANGED <<cloning, toCopy, copying, present, disk>>

\* sparse_clone: a clone that is there is moved to the release and keeps its
\* paths; otherwise what is left of one is removed and it is cloned again.
Checkout(r) ==
  /\ pc = "clone" /\ cloning = None /\ r \in toClone
  /\ clone' = IF clone[r].at # None THEN [clone EXCEPT ![r].at = tag]
              ELSE [clone EXCEPT ![r] = [at |-> tag, paths |-> FALSE]]
  /\ cloning' = r
  /\ UNCHANGED <<pc, runs, pinned, tag, toClone, toCopy, copying, present, tree,
                 stamp>>

\* Mutant: copying begins after the first repository.
SetPathsOnly ==
  /\ pc = "clone" /\ cloning # None
  /\ clone' = [clone EXCEPT ![cloning].paths = TRUE]
  /\ toClone' = toClone \ {cloning}
  /\ cloning' = None
  /\ pc' = "copy" /\ toCopy' = Dirs /\ present' = {}
  /\ UNCHANGED <<runs, pinned, tag, copying, tree, stamp>>

\* sparse-checkout init and set; after the last repository, materialize.
SetPaths ==
  /\ pc = "clone" /\ cloning # None
  /\ clone' = [clone EXCEPT ![cloning].paths = TRUE]
  /\ toClone' = toClone \ {cloning}
  /\ cloning' = None
  /\ IF toClone' = {} THEN pc' = "copy" /\ toCopy' = Dirs /\ present' = {}
     ELSE UNCHANGED <<pc, toCopy, present>>
  /\ UNCHANGED <<runs, pinned, tag, copying, tree, stamp>>

\* The files of d in its clone.
Found(d) ==
  LET c == clone[RepoOf[d]]
  IN IF c.paths THEN Upstream[c.at][d] ELSE [kernel |-> {}, rest |-> {}]

\* Mutant: files are copied over the old op_kernel.
OpenDirOver(d) ==
  /\ pc = "copy" /\ copying = {} /\ d \in toCopy
  /\ copying' = {<<d, "kernel", n>> : n \in Found(d).kernel}
                \cup {<<d, "rest", n>> : n \in Found(d).rest}
  /\ present' = IF copying' = {} THEN present ELSE present \cup {d}
  /\ toCopy' = toCopy \ {d}
  /\ UNCHANGED <<pc, runs, pinned, tag, toClone, cloning, disk>>

\* copy_op of one directory, up to its first file: op_kernel is removed when
\* there is a new one, anything else is written over.
OpenDir(d) ==
  /\ pc = "copy" /\ copying = {} /\ d \in toCopy
  /\ tree' = IF Found(d).kernel = {} THEN tree
             ELSE [tree EXCEPT ![d]["kernel"] = [n \in Names |-> None]]
  /\ copying' = {<<d, "kernel", n>> : n \in Found(d).kernel}
                \cup {<<d, "rest", n>> : n \in Found(d).rest}
  /\ present' = IF copying' = {} THEN present ELSE present \cup {d}
  /\ toCopy' = toCopy \ {d}
  /\ UNCHANGED <<pc, runs, pinned, tag, toClone, cloning, clone, stamp>>

CopyFile ==
  /\ pc = "copy"
  /\ \E f \in copying :
       /\ tree' = [tree EXCEPT ![f[1]][f[2]][f[3]] = clone[RepoOf[f[1]]].at]
       /\ copying' = copying \ {f}
  /\ UNCHANGED <<pc, runs, pinned, tag, toClone, cloning, toCopy, present, clone,
                 stamp>>

\* write_stamp: the release of the map, and the directories with files.
WriteStamp ==
  /\ pc = "copy" /\ toCopy = {} /\ copying = {}
  /\ stamp' = [tag |-> pinned, present |-> present]
  /\ pc' = "done"
  /\ UNCHANGED <<runs, pinned, tag, work, clone, tree>>

\* git fails (run checks its exit status), or the user interrupts; an
\* interrupted write leaves an empty stamp.
Stop ==
  /\ pc \in {"clone", "copy"}
  /\ pc' = "off"
  /\ toClone' = {} /\ cloning' = None /\ toCopy' = {} /\ copying' = {}
  /\ stamp' \in IF pc = "copy" /\ toCopy \cup copying = {} THEN {stamp, None}
                ELSE {stamp}
  /\ UNCHANGED <<runs, pinned, tag, present, clone, tree>>

Next ==
  \/ Run \/ SetPaths \/ CopyFile \/ WriteStamp \/ Stop
  \/ \E r \in Repos : Checkout(r)
  \/ \E d \in Dirs : OpenDir(d)

Spec == Init /\ [][Next]_vars

----------------------------------------------------------------------------
(* Properties. *)

\* Work is left over only in the phase it belongs to, and a stamp names a
\* release.
TypeOK ==
  /\ pc \in {"off", "clone", "copy", "done"} /\ runs \in 0 .. MaxRuns
  /\ {pinned, tag} \subseteq Tags \cup {None}
  /\ toClone \subseteq Repos /\ cloning \in toClone \cup {None}
  /\ toClone # {} => pc = "clone"
  /\ toCopy \subseteq Dirs /\ present \subseteq Dirs
  /\ copying \subseteq Dirs \X Parts \X Names
  /\ toCopy \cup copying # {} => pc = "copy"
  /\ clone \in [Repos -> [at : Tags \cup {None}, paths : BOOLEAN]]
  /\ tree \in [Dirs -> [Parts -> [Names -> Tags \cup {None}]]]
  /\ stamp \in [tag : Tags, present : SUBSET Dirs] \cup {None}

\* After a run that came to its end, whatever runs were interrupted before it,
\* the stamp tells what is in the repository: the directories its release has,
\* every file of theirs, and no kernel file of another release.
StampTrue ==
  pc = "done" =>
    \A d \in Dirs :
      LET up == Upstream[stamp.tag][d]
      IN /\ d \in stamp.present <=> up.kernel \cup up.rest # {}
         /\ \A n \in up.rest : tree[d]["rest"][n] = stamp.tag
         /\ up.kernel # {} =>
              tree[d]["kernel"] =
                [n \in Names |-> IF n \in up.kernel THEN stamp.tag ELSE None]
=============================================================================
