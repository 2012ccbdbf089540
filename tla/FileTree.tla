------------------------------- MODULE FileTree -------------------------------
(* The directory tree under the storage root as the system calls see it: every *)
(* call names a path and works on what the path leads to at that moment.       *)
(* Of a file it says who writes it, how much of it there is, and whether it or *)
(* the directory it lay in was moved while it was unfinished, or its writer    *)
(* died.  There are no links.  The file system itself is external to the       *)
(* repository.                                                                 *)
EXTENDS Naturals, Sequences

CONSTANTS
  NDirs,      \* bound: directory inodes
  Full,       \* pieces a whole file consists of
  MaxSuffix,  \* bound: suffixes of a name
  MaxWriters, \* bound: files that are written or were left behind at a time
  MaxTasks    \* bound: downloads one daemon accepts

Dirs == 1 .. NDirs
Root == 1
NoDir == 0
Writers == 1 .. MaxWriters
Tasks == 1 .. MaxTasks

\* A stem with the suffixes uniqueTarget gives it, two names of directories,
\* ".f.uploading.<nonce>", and ".f (k).downloading.<id>".
Target(k) == <<"f", k>>
UpTemp(w) == <<"uploading", w>>
DlTemp(k, i) == <<"downloading", k, i>>
FileNames == {Target(k) : k \in 0 .. MaxSuffix}
DirNames == {<<"a", 0>>, <<"b", 0>>}
TempNames ==
  {UpTemp(w) : w \in Writers} \cup {DlTemp(k, i) : k \in 0 .. MaxSuffix, i \in Tasks}
Names == FileNames \cup DirNames \cup TempNames

\* Bound: the paths requests name are at most two directories deep, and no
\* directory of theirs has the name of the one it lies in.
Paths ==
  {<<>>} \cup {<<n>> : n \in DirNames}
  \cup {p \in DirNames \X DirNames : p[1] # p[2]}

ASSUME TreeAssumption ==
  /\ {NDirs, MaxSuffix, MaxWriters, MaxTasks} \subseteq Nat
  /\ NDirs >= 3
  /\ Full \in Nat \ {0}

VARIABLE
  ent  \* the entry of each name in each directory

Free == [kind |-> "none", ref |-> 0, size |-> 0, stray |-> 0]
DirEntry(d) == [kind |-> "dir", ref |-> d, size |-> 0, stray |-> 0]
NewFile(w) == [kind |-> "file", ref |-> w, size |-> 0, stray |-> 0]
IsFile(e) == e.kind = "file"
IsDir(e) == e.kind = "dir"

Child(d, n) == IF d # NoDir /\ IsDir(ent[d][n]) THEN ent[d][n].ref ELSE NoDir

\* The directory a path leads to.
Walk(p) ==
  IF Len(p) = 0 THEN Root
  ELSE IF Len(p) = 1 THEN Child(Root, p[1])
  ELSE Child(Child(Root, p[1]), p[2])

At(p, n) == IF Walk(p) = NoDir THEN Free ELSE ent[Walk(p)][n]

\* The directories a path of at most two names passes and ends in.
Passed(p) == {Walk(SubSeq(p, 1, i)) : i \in 0 .. Len(p)}

Empty(d) == \A n \in Names : ent[d][n] = Free

\* The writer of a file writes on, wherever the file has gone meanwhile.
Grown(w) ==
  [d \in Dirs |-> [n \in Names |->
    IF IsFile(ent[d][n]) /\ ent[d][n].ref = w
    THEN [ent[d][n] EXCEPT !.size = @ + 1]
    ELSE ent[d][n]]]

\* The unfinished files at the places L, a set of directories with a name, are
\* marked.
Strayed(t, L) ==
  [d \in Dirs |-> [n \in Names |->
    IF <<d, n>> \in L /\ n \in TempNames /\ IsFile(t[d][n])
    THEN [t[d][n] EXCEPT !.stray = 1]
    ELSE t[d][n]]]

\* rename(2): it replaces a file by a file and an empty directory by a directory.
CanRename(p, n, q, m) ==
  /\ At(p, n) # Free
  /\ Walk(q) # NoDir
  /\ IsDir(At(p, n)) => At(p, n).ref \notin Passed(q)
  /\ \/ At(q, m) = Free
     \/ IsFile(At(p, n)) /\ IsFile(At(q, m))
     \/ IsDir(At(p, n)) /\ IsDir(At(q, m)) /\ Empty(At(q, m).ref)

Renamed(p, n, q, m) ==
  [[ent EXCEPT ![Walk(q)][m] = At(p, n)] EXCEPT ![Walk(p)][n] = Free]

\* The directories in those of S, and these; and all below d with d itself, the
\* least set with d that holds what is in its directories.
Inside(S) ==
  S \cup {ent[x[1]][x[2]].ref : x \in {y \in S \X DirNames : IsDir(ent[y[1]][y[2]])}}
Below(d) == {c \in Dirs : \A S \in SUBSET Dirs : d \in S /\ Inside(S) \subseteq S => c \in S}

\* A move, and what it marks: a file, or all there is in a directory.
Moved(p, n, q) ==
  Strayed(Renamed(p, n, q, n),
          IF IsDir(At(p, n)) THEN Below(At(p, n).ref) \X TempNames ELSE {<<Walk(q), n>>})

\* The writer w has closed its file and gives it its name.  The mark says that
\* what lay at its path was another file.
Published(p, n, q, m, w) ==
  [[ent EXCEPT ![Walk(q)][m] =
      [At(p, n) EXCEPT !.ref = 0, !.stray = IF At(p, n).ref = w THEN 0 ELSE 1]]
     EXCEPT ![Walk(p)][n] = Free]

Removed(p, n) ==
  IF Walk(p) = NoDir THEN ent ELSE [ent EXCEPT ![Walk(p)][n] = Free]

\* remove_all: the entry and all there is below it.
RemovedAll(p, n) ==
  LET gone == IF IsDir(At(p, n)) THEN Below(At(p, n).ref) ELSE {}
  IN  [d \in Dirs |-> [m \in Names |->
        IF d \in gone \/ (d = Walk(p) /\ m = n) THEN Free ELSE ent[d][m]]]

\* A directory inode that is not in the tree.
Unused(d) ==
  /\ d # Root
  /\ \A c \in Dirs : \A n \in DirNames : ent[c][n] # DirEntry(d)

EntryType == [kind : {"none", "dir", "file"}, ref : Nat, size : 0 .. Full, stray : {0, 1}]

TreeOK == ent \in [Dirs -> [Names -> EntryType]]
===============================================================================
