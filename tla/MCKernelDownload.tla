---------------------------- MODULE MCKernelDownload ----------------------------
(***************************************************************************)
(* Two repositories and three directories over two releases: one directory *)
(* changes the files of its kernel, one gains a kernel, one goes away.     *)
(***************************************************************************)
EXTENDS KernelDownload

MCRepoOf == [d \in Dirs |-> IF d = "gelu" THEN "ops-nn" ELSE "ops-math"]

Files(kernel, rest) == [kernel |-> kernel, rest |-> rest]

MCUpstream ==
  [t \in Tags |->
     IF t = "8.5.0"
     THEN [d \in Dirs |-> CASE d = "gelu" -> Files({"a", "b"}, {"a"})
                            [] d = "add" -> Files({}, {"a", "b"})
                            [] d = "dot" -> Files({"a"}, {})]
     ELSE [d \in Dirs |-> CASE d = "gelu" -> Files({"a"}, {"a"})
                            [] d = "add" -> Files({"b"}, {"a"})
                            [] d = "dot" -> Files({}, {})]]
=============================================================================
