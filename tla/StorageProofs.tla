---------------------------- MODULE StorageProofs -----------------------------
(***************************************************************************)
(* Proofs about FileTree and Storage, for every number of handlers,        *)
(* directories, names, downloads and requests, and for files of every size.*)
(***************************************************************************)
EXTENDS Storage, SequenceTheorems, TLAPS

\* What lies under which names: files that nobody writes, whole or marked,
\* directories, and files with a writer.
NamesInv ==
  /\ \A d \in Dirs : \A n \in FileNames :
       IsFile(ent[d][n]) => ent[d][n].ref = 0 /\ (ent[d][n].size = Full \/ ent[d][n].stray = 1)
  /\ \A d \in Dirs : \A n \in DirNames : ~IsFile(ent[d][n])
  /\ \A d \in Dirs : \A n \in TempNames :
       ~IsDir(ent[d][n]) /\ (IsFile(ent[d][n]) => ent[d][n].ref \in Writers)
  /\ \A d \in Dirs : \A w \in Writers :
       IsFile(ent[d][UpTemp(w)]) => ent[d][UpTemp(w)].ref = w
  /\ \A d \in Dirs : \A n \in Names : IsDir(ent[d][n]) => ent[d][n].ref \in Dirs

\* In the tree t, the files of a writer hold what it has written.
Sized(t, w, g) ==
  \A d \in Dirs : \A n \in TempNames :
    IsFile(t[d][n]) /\ t[d][n].ref = w => t[d][n].size = g

Receives(h) == req[h].op = "receive"

HandlerInv ==
  \A h \in Handlers : Receives(h) =>
    req[h].w \in Writers /\ req[h].name \in FileNames /\ Sized(ent, req[h].w, req[h].got)

\* No two threads write the same file.
WritersApart ==
  \A h \in Handlers : Receives(h) =>
    /\ req[h].w # cur.w
    /\ \A g \in Handlers \ {h} : Receives(g) => req[g].w # req[h].w

\* The file of the worker's curl holds what curl has written, and curl ends well
\* with the last piece.
CurlInv ==
  /\ child \in {"running", "done", "failed", "killed"} =>
       /\ cur.w \in Writers
       /\ Sized(ent, cur.w, cur.got)
  /\ child = "done" => cur.got = Full
  /\ child # "none" => pc \in {"running", "killing", "ended", "settling"}
  /\ pc \in {"picked", "running", "killing", "ended", "settling"} => cur.id \in Tasks

IInv == TypeOK /\ NamesInv /\ HandlerInv /\ WritersApart /\ CurlInv
-------------------------------------------------------------------------------
(* Names and paths. *)

\* What the assumptions say of the constants.
LEMMA Bounds ==
  /\ Root \in Dirs /\ NoDir \notin Dirs /\ 2 \in Dirs /\ 3 \in Dirs
  /\ Full \in Nat /\ Full >= 1 /\ NDirs \in Nat /\ MaxSuffix \in Nat /\ MaxWriters \in Nat
  /\ MaxTasks \in Nat /\ QueueLimit \in Nat /\ MaxEvents \in Nat /\ NHandlers \in Nat
  /\ 0 \in 0 .. MaxSuffix /\ UploadNames \subseteq 0 .. MaxSuffix
BY TreeAssumption, StorageAssumption DEF Root, NoDir, Dirs

\* A name is that of a file, of a directory or of a temporary file.
LEMMA NamesApart ==
  /\ FileNames \cap DirNames = {} /\ FileNames \cap TempNames = {} /\ DirNames \cap TempNames = {}
  /\ Names = FileNames \cup DirNames \cup TempNames
<1>1. \A n \in FileNames : n[1] = "f"
  BY DEF FileNames, Target
<1>2. \A n \in DirNames : n[1] \in {"a", "b"}
  BY DEF DirNames
<1>3. \A n \in TempNames : n[1] \in {"uploading", "downloading"}
  <2>1. \A w \in Writers : UpTemp(w)[1] = "uploading"
    BY DEF UpTemp
  <2>2. \A k \in 0 .. MaxSuffix, i \in Tasks : DlTemp(k, i)[1] = "downloading"
    BY DEF DlTemp
  <2> QED BY <2>1, <2>2 DEF TempNames
<1> QED BY <1>1, <1>2, <1>3 DEF Names

\* An upload has a temporary name that nobody else has.
LEMMA TempApart ==
  ASSUME NEW w \in Writers
  PROVE  /\ UpTemp(w) \in TempNames
         /\ \A v \in Writers \ {w} : UpTemp(v) # UpTemp(w)
         /\ \A k \in 0 .. MaxSuffix, i \in Tasks : UpTemp(w) # DlTemp(k, i)
<1>1. UpTemp(w) \in TempNames
  BY DEF TempNames
<1>2. \A v \in Writers \ {w} : UpTemp(v) # UpTemp(w)
  <2>1. \A v \in Writers : UpTemp(v)[2] = v
    BY DEF UpTemp
  <2> QED BY <2>1
<1>3. \A k \in 0 .. MaxSuffix, i \in Tasks : UpTemp(w) # DlTemp(k, i)
  <2>1. UpTemp(w)[1] = "uploading"
    BY DEF UpTemp
  <2>2. \A k \in 0 .. MaxSuffix, i \in Tasks : DlTemp(k, i)[1] = "downloading"
    BY DEF DlTemp
  <2> QED BY <2>1, <2>2
<1> QED BY <1>1, <1>2, <1>3

\* The names and paths the actions use are such.
LEMMA NamesOf ==
  /\ \A k \in 0 .. MaxSuffix : Target(k) \in FileNames
  /\ \A k \in 0 .. MaxSuffix, i \in Tasks : DlTemp(k, i) \in TempNames
  /\ <<"a", 0>> \in DirNames /\ <<"b", 0>> \in DirNames /\ <<"a", 0>> # <<"b", 0>>
  /\ <<>> \in Paths
BY DEF FileNames, TempNames, DirNames, Paths

\* A path leads to a directory or nowhere.
LEMMA WalkType ==
  ASSUME NamesInv, NEW p \in Paths
  PROVE  Walk(p) \in Dirs \cup {NoDir}
<1>1. \A d \in Dirs \cup {NoDir}, n \in Names : Child(d, n) \in Dirs \cup {NoDir}
  BY Bounds DEF NamesInv, Child
<1>2. CASE p = <<>>
  BY <1>2, Bounds DEF Walk
<1>3. CASE \E n \in DirNames : p = <<n>>
  <2>1. PICK n \in DirNames : p = <<n>>
    BY <1>3
  <2>2. Len(p) = 1 /\ p[1] \in DirNames
    BY <2>1
  <2> QED BY <2>2, <1>1, Bounds, NamesApart DEF Walk
<1>4. CASE \E a \in DirNames, b \in DirNames : p = <<a, b>>
  <2>1. PICK a \in DirNames, b \in DirNames : p = <<a, b>>
    BY <1>4
  <2>2. Len(p) = 2 /\ p[1] \in DirNames /\ p[2] \in DirNames
    BY <2>1
  <2> QED BY <2>2, <1>1, Bounds, NamesApart DEF Walk
<1> QED BY <1>2, <1>3, <1>4 DEF Paths

\* The empty path leads to the root.
LEMMA RootPath == Walk(<<>>) = Root
BY DEF Walk

-------------------------------------------------------------------------------
(* What a step does to the tree.  Either entries are moved, removed or, under  *)
(* the names of temporary files, marked; or one file becomes visible; or the   *)
(* files of one writer grow; or one entry is new.                              *)

Alike(e, f) == e.kind = f.kind /\ e.ref = f.ref /\ e.size = f.size

Shuffled ==
  /\ TreeOK'
  /\ \A d \in Dirs : \A n \in Names :
       \/ ent'[d][n] = Free
       \/ \E c \in Dirs :
            Alike(ent'[d][n], ent[c][n]) /\ (n \in FileNames => ent'[d][n] = ent[c][n])

Stays(d, n) == ent'[d][n] = ent[d][n] \/ ent'[d][n] = Free

\* A free entry is neither file nor directory.
LEMMA FreeIsNothing ==
  Free \in EntryType /\ ~IsFile(Free) /\ ~IsDir(Free)
BY Bounds DEF Free, EntryType, IsFile, IsDir

\* Entries that are moved or removed stay under names of their kind.
LEMMA ShuffledNames ==
  ASSUME TypeOK, NamesInv, Shuffled
  PROVE  NamesInv'
<1> USE NamesApart, FreeIsNothing DEF Alike, IsFile, IsDir
<1>1. \A d \in Dirs : \A n \in FileNames :
        IsFile(ent'[d][n]) =>
          ent'[d][n].ref = 0 /\ (ent'[d][n].size = Full \/ ent'[d][n].stray = 1)
  BY DEF Shuffled, NamesInv
<1>2. \A d \in Dirs : \A n \in DirNames : ~IsFile(ent'[d][n])
  BY DEF Shuffled, NamesInv
<1>3. \A d \in Dirs : \A n \in TempNames :
        ~IsDir(ent'[d][n]) /\ (IsFile(ent'[d][n]) => ent'[d][n].ref \in Writers)
  BY DEF Shuffled, NamesInv
<1>4. \A d \in Dirs : \A w \in Writers :
        IsFile(ent'[d][UpTemp(w)]) => ent'[d][UpTemp(w)].ref = w
  BY TempApart DEF Shuffled, NamesInv
<1>5. \A d \in Dirs : \A n \in Names : IsDir(ent'[d][n]) => ent'[d][n].ref \in Dirs
  BY DEF Shuffled, NamesInv
<1> QED BY <1>1, <1>2, <1>3, <1>4, <1>5 DEF NamesInv

\* One entry of a tree changes.
With(t, a, m, e) == [t EXCEPT ![a][m] = e]

\* The entry is the new one, all others are the old ones.
LEMMA WithEntry ==
  ASSUME NEW t \in [Dirs -> [Names -> EntryType]],
         NEW a \in Dirs, NEW m \in Names, NEW e \in EntryType
  PROVE  /\ With(t, a, m, e) \in [Dirs -> [Names -> EntryType]]
         /\ \A d \in Dirs : \A n \in Names :
              With(t, a, m, e)[d][n] = IF d = a /\ n = m THEN e ELSE t[d][n]
BY DEF With

\* The entry at the end of a path.
LEMMA AtType ==
  ASSUME TreeOK, NamesInv, NEW p \in Paths, NEW n \in Names, At(p, n) # Free
  PROVE  Walk(p) \in Dirs /\ At(p, n) = ent[Walk(p)][n] /\ At(p, n) \in EntryType
<1>1. Walk(p) # NoDir
  BY DEF At
<1>2. Walk(p) \in Dirs
  BY <1>1, WalkType
<1> QED BY <1>1, <1>2 DEF At, TreeOK

\* Under the names of temporary files no new ones come, and none changes its size.
TempsStay ==
  \A d \in Dirs : \A n \in TempNames :
    ent'[d][n] = Free \/ \E c \in Dirs : Alike(ent'[d][n], ent[c][n])

\* What is moved at most brings none.
LEMMA ShuffledStay ==
  ASSUME Shuffled
  PROVE  TempsStay
BY NamesApart DEF Shuffled, TempsStay

\* Then no writer's file changes its size.
LEMMA StaySized ==
  ASSUME TempsStay, NEW w, NEW g, Sized(ent, w, g)
  PROVE  Sized(ent', w, g)
BY FreeIsNothing DEF TempsStay, Sized, Alike, IsFile

\* A step that leaves the tree alone.
LEMMA SameTree ==
  ASSUME TreeOK, UNCHANGED ent
  PROVE  Shuffled
BY DEF Shuffled, Alike, TreeOK

\* remove(2) takes one entry away, if its directory is still there.
LEMMA RemovedTree ==
  ASSUME TreeOK, NamesInv, NEW p \in Paths, NEW n \in Names, ent' = Removed(p, n)
  PROVE  Shuffled
<1>1. CASE Walk(p) = NoDir
  BY <1>1, SameTree DEF Removed
<1>2. CASE Walk(p) # NoDir
  <2> DEFINE a == Walk(p)
  <2>1. a \in Dirs
    BY <1>2, WalkType
  <2>2. ent' = With(ent, a, n, Free)
    BY <1>2 DEF Removed, With
  <2> HIDE DEF a
  <2>3. ent \in [Dirs -> [Names -> EntryType]]
    BY DEF TreeOK
  <2>4. /\ With(ent, a, n, Free) \in [Dirs -> [Names -> EntryType]]
        /\ \A d \in Dirs : \A k \in Names :
             With(ent, a, n, Free)[d][k] = IF d = a /\ k = n THEN Free ELSE ent[d][k]
    <3>1. Free \in EntryType
      BY FreeIsNothing
    <3>2. With(ent, a, n, Free) \in [Dirs -> [Names -> EntryType]]
      BY <2>1, <2>3, <3>1, WithEntry
    <3>3. \A d \in Dirs : \A k \in Names :
             With(ent, a, n, Free)[d][k] = IF d = a /\ k = n THEN Free ELSE ent[d][k]
      BY <2>1, <2>3, <3>1 DEF With
    <3> QED BY <3>2, <3>3
  <2> QED BY <2>2, <2>4 DEF TreeOK, Shuffled, Alike
<1> QED BY <1>1, <1>2

\* remove_all takes entries away and changes none.
LEMMA RemovedAllTree ==
  ASSUME TreeOK, NEW p \in Paths, NEW n \in Names, ent' = RemovedAll(p, n)
  PROVE  Shuffled
<1> DEFINE gone == IF IsDir(At(p, n)) THEN Below(At(p, n).ref) ELSE {}
           away(d, m) == d \in gone \/ (d = Walk(p) /\ m = n)
<1>1. ent' = [d \in Dirs |-> [m \in Names |-> IF away(d, m) THEN Free ELSE ent[d][m]]]
  BY DEF RemovedAll
<1> HIDE DEF away, gone
<1>2. \A d \in Dirs : \A m \in Names : ent'[d][m] = IF away(d, m) THEN Free ELSE ent[d][m]
  BY <1>1
<1>3. TreeOK'
  BY <1>1, FreeIsNothing DEF TreeOK
<1> QED BY <1>2, <1>3 DEF Shuffled, Alike

\* A mark changes nothing else of an entry.
LEMMA StrayedEntry ==
  ASSUME NEW e \in EntryType
  PROVE  [e EXCEPT !.stray = 1] \in EntryType /\ Alike([e EXCEPT !.stray = 1], e)
BY DEF EntryType, Alike

\* The marks change nothing else of a tree, and only unfinished files have them.
LEMMA StrayedTree ==
  ASSUME NEW t \in [Dirs -> [Names -> EntryType]], NEW L
  PROVE  /\ Strayed(t, L) \in [Dirs -> [Names -> EntryType]]
         /\ \A d \in Dirs : \A n \in Names : Alike(Strayed(t, L)[d][n], t[d][n])
         /\ \A d \in Dirs : \A n \in Names :
              n \notin TempNames \/ ~IsFile(t[d][n]) => Strayed(t, L)[d][n] = t[d][n]
<1> DEFINE marked(d, n) == <<d, n>> \in L /\ n \in TempNames /\ IsFile(t[d][n])
           s == [d \in Dirs |-> [n \in Names |->
                   IF marked(d, n) THEN [t[d][n] EXCEPT !.stray = 1] ELSE t[d][n]]]
<1>1. Strayed(t, L) = s
  BY DEF Strayed
<1>2. \A d \in Dirs : \A n \in Names :
        n \notin TempNames \/ ~IsFile(t[d][n]) => ~marked(d, n)
  OBVIOUS
<1> HIDE DEF marked
<1>3. \A d \in Dirs : \A n \in Names :
        s[d][n] = IF marked(d, n) THEN [t[d][n] EXCEPT !.stray = 1] ELSE t[d][n]
  OBVIOUS
<1>4. \A d \in Dirs : \A n \in Names : s[d][n] \in EntryType
  BY <1>3, StrayedEntry
<1>5. s \in [Dirs -> [Names -> EntryType]]
  <2>1. \A d \in Dirs : s[d] \in [Names -> EntryType]
    BY <1>4
  <2> QED BY <2>1
<1>6. \A d \in Dirs : \A n \in Names : Alike(s[d][n], t[d][n])
  BY <1>3, StrayedEntry DEF Alike
<1>7. \A d \in Dirs : \A n \in Names :
        n \notin TempNames \/ ~IsFile(t[d][n]) => s[d][n] = t[d][n]
  BY <1>2, <1>3
<1> HIDE DEF s
<1> QED BY <1>1, <1>5, <1>6, <1>7

\* A crash leaves every file as it is.
LEMMA CrashedTree ==
  ASSUME TreeOK, ent' = Strayed(ent, Dirs \X TempNames)
  PROVE  Shuffled
<1>1. /\ TreeOK'
      /\ \A d \in Dirs : \A n \in Names : Alike(ent'[d][n], ent[d][n])
      /\ \A d \in Dirs : \A n \in Names : n \notin TempNames => ent'[d][n] = ent[d][n]
  BY StrayedTree DEF TreeOK
<1> QED BY <1>1, NamesApart DEF Shuffled

\* FileService::move keeps the name, and marks an unfinished file.
LEMMA MovedTree ==
  ASSUME TreeOK, NamesInv, NEW p \in Paths, NEW q \in Paths, NEW n \in Names,
         CanRename(p, n, q, n), ent' = Moved(p, n, q)
  PROVE  Shuffled
<1> DEFINE r == Renamed(p, n, q, n)
           L == IF IsDir(At(p, n)) THEN Below(At(p, n).ref) \X TempNames ELSE {<<Walk(q), n>>}
<1>1. Walk(q) \in Dirs
  BY WalkType DEF CanRename
<1>2. Walk(p) \in Dirs /\ At(p, n) = ent[Walk(p)][n] /\ At(p, n) \in EntryType
  BY AtType DEF CanRename
<1>3. r \in [Dirs -> [Names -> EntryType]]
  BY <1>1, <1>2, FreeIsNothing DEF Renamed, TreeOK
<1>4. \A d \in Dirs : \A k \in Names :
        r[d][k] = IF d = Walk(p) /\ k = n THEN Free
                  ELSE IF d = Walk(q) /\ k = n THEN ent[Walk(p)][n] ELSE ent[d][k]
  BY <1>1, <1>2 DEF Renamed, TreeOK
<1>5. ent' = Strayed(r, L)
  BY DEF Moved
<1> HIDE DEF r, L
<1>6. /\ TreeOK'
      /\ \A d \in Dirs : \A k \in Names : Alike(ent'[d][k], r[d][k])
      /\ \A d \in Dirs : \A k \in Names :
           k \notin TempNames \/ ~IsFile(r[d][k]) => ent'[d][k] = r[d][k]
  BY <1>3, <1>5, StrayedTree DEF TreeOK
<1>7. ASSUME NEW d \in Dirs, NEW k \in Names
      PROVE  \/ ent'[d][k] = Free
             \/ \E c \in Dirs :
                  Alike(ent'[d][k], ent[c][k]) /\ (k \in FileNames => ent'[d][k] = ent[c][k])
  <2>1. k \in FileNames => ent'[d][k] = r[d][k]
    BY <1>6, NamesApart
  <2>2. CASE d = Walk(p) /\ k = n
    BY <1>4, <1>6, <2>2, FreeIsNothing
  <2>3. CASE ~(d = Walk(p) /\ k = n) /\ d = Walk(q) /\ k = n
    BY <1>2, <1>4, <1>6, <2>1, <2>3
  <2>4. CASE ~(d = Walk(p) /\ k = n) /\ ~(d = Walk(q) /\ k = n)
    BY <1>4, <1>6, <2>1, <2>4
  <2> QED BY <2>2, <2>3, <2>4
<1> QED BY <1>6, <1>7 DEF Shuffled

\* A writer's file becomes visible, whole, or a marked one in its place.
LEMMA PublishedTree ==
  ASSUME TreeOK, NamesInv, NEW p \in Paths, NEW n \in TempNames, NEW m \in FileNames, NEW w,
         CanRename(p, n, p, m), Sized(ent, w, Full), ent' = Published(p, n, p, m, w)
  PROVE  TreeOK' /\ NamesInv' /\ TempsStay
<1> DEFINE e == [At(p, n) EXCEPT !.ref = 0, !.stray = IF At(p, n).ref = w THEN 0 ELSE 1]
           c == Walk(p)
<1>1. n \in Names /\ m \in Names /\ m \notin TempNames
  BY NamesApart
<1>2. c \in Dirs /\ At(p, n) = ent[c][n] /\ At(p, n) \in EntryType
  BY <1>1, AtType DEF CanRename
<1>3. /\ e \in EntryType /\ e.ref = 0 /\ e.size = At(p, n).size /\ e.kind = At(p, n).kind
      /\ At(p, n).ref # w => e.stray = 1
  BY <1>2 DEF EntryType
<1>4. ~IsDir(e) /\ (IsFile(e) => e.size = Full \/ e.stray = 1)
  BY <1>2, <1>3 DEF NamesInv, Sized, IsDir, IsFile
<1>5. ent' = With(With(ent, c, m, e), c, n, Free)
  BY DEF Published, With
<1> HIDE DEF e, c
<1>6. TreeOK' /\ \A d \in Dirs : \A k \in Names :
        ent'[d][k] = IF d = c /\ k = n THEN Free
                     ELSE IF d = c /\ k = m THEN e ELSE ent[d][k]
  <2> DEFINE t == With(ent, c, m, e)
  <2>1. t \in [Dirs -> [Names -> EntryType]]
        /\ \A d \in Dirs : \A k \in Names : t[d][k] = IF d = c /\ k = m THEN e ELSE ent[d][k]
    <3>1. ent \in [Dirs -> [Names -> EntryType]]
      BY DEF TreeOK
    <3> QED BY <1>1, <1>2, <1>3, <3>1, WithEntry
  <2> HIDE DEF t
  <2>2. /\ With(t, c, n, Free) \in [Dirs -> [Names -> EntryType]]
        /\ \A d \in Dirs : \A k \in Names :
             With(t, c, n, Free)[d][k] = IF d = c /\ k = n THEN Free ELSE t[d][k]
    <3>1. Free \in EntryType
      BY FreeIsNothing
    <3>2. t \in [Dirs -> [Names -> EntryType]] /\ c \in Dirs /\ n \in Names
      BY <1>1, <1>2, <2>1
    <3>3. With(t, c, n, Free) \in [Dirs -> [Names -> EntryType]]
      BY <3>1, <3>2, WithEntry
    <3>4. \A d \in Dirs : \A k \in Names :
            With(t, c, n, Free)[d][k] = IF d = c /\ k = n THEN Free ELSE t[d][k]
      BY <3>1, <3>2 DEF With
    <3> QED BY <3>3, <3>4
  <2>3. ent' = With(t, c, n, Free)
    BY <1>5 DEF t
  <2> QED BY <2>1, <2>2, <2>3 DEF TreeOK
<1>7. TempsStay
  BY <1>1, <1>6, NamesApart DEF TempsStay, Alike
<1>8. NamesInv'
  <2>1. \A d \in Dirs : \A k \in FileNames :
          IsFile(ent'[d][k]) =>
            ent'[d][k].ref = 0 /\ (ent'[d][k].size = Full \/ ent'[d][k].stray = 1)
    BY <1>1, <1>3, <1>4, <1>6, NamesApart, FreeIsNothing DEF NamesInv
  <2>2. \A d \in Dirs : \A k \in DirNames : ~IsFile(ent'[d][k])
    BY <1>1, <1>6, NamesApart, FreeIsNothing DEF NamesInv
  <2>3. \A d \in Dirs : \A k \in TempNames :
          ~IsDir(ent'[d][k]) /\ (IsFile(ent'[d][k]) => ent'[d][k].ref \in Writers)
    BY <1>1, <1>6, NamesApart, FreeIsNothing DEF NamesInv
  <2>4. \A d \in Dirs : \A v \in Writers :
          IsFile(ent'[d][UpTemp(v)]) => ent'[d][UpTemp(v)].ref = v
    BY <1>1, <1>6, NamesApart, TempApart, FreeIsNothing DEF NamesInv
  <2>5. \A d \in Dirs : \A k \in Names : IsDir(ent'[d][k]) => ent'[d][k].ref \in Dirs
    BY <1>1, <1>4, <1>6, FreeIsNothing DEF NamesInv
  <2> QED BY <2>1, <2>2, <2>3, <2>4, <2>5 DEF NamesInv
<1> QED BY <1>6, <1>7, <1>8

\* A writer writes on.
LEMMA GrownTree ==
  ASSUME TreeOK, NamesInv, NEW w \in Writers, NEW g \in 0 .. Full, g < Full,
         Sized(ent, w, g), ent' = Grown(w)
  PROVE  /\ TreeOK' /\ NamesInv' /\ Sized(ent', w, g + 1)
         /\ \A v \in Writers \ {w} : \A k : Sized(ent, v, k) => Sized(ent', v, k)
         /\ \A d \in Dirs : \A n \in Names :
              ent'[d][n].kind = ent[d][n].kind /\ ent'[d][n].ref = ent[d][n].ref
<1> DEFINE mine(d, n) == IsFile(ent[d][n]) /\ ent[d][n].ref = w
<1>1. ent' = [d \in Dirs |-> [n \in Names |->
                IF mine(d, n) THEN [ent[d][n] EXCEPT !.size = @ + 1] ELSE ent[d][n]]]
  BY DEF Grown
<1>2. \A d \in Dirs : \A n \in Names : mine(d, n) => n \in TempNames
  BY NamesApart, Bounds DEF NamesInv, Writers
<1>3. \A d \in Dirs : \A n \in Names : mine(d, n) => ent[d][n].size = g
  BY <1>2 DEF Sized
<1> HIDE DEF mine
<1>4. \A d \in Dirs : \A n \in Names : ent[d][n] \in EntryType
  BY DEF TreeOK
<1>5. \A e \in EntryType : e.size = g =>
        /\ [e EXCEPT !.size = @ + 1] \in EntryType
        /\ [e EXCEPT !.size = @ + 1].kind = e.kind /\ [e EXCEPT !.size = @ + 1].ref = e.ref
        /\ [e EXCEPT !.size = @ + 1].size = g + 1
  BY Bounds DEF EntryType
<1>6. \A d \in Dirs : \A n \in Names :
        ent'[d][n] = IF mine(d, n) THEN [ent[d][n] EXCEPT !.size = @ + 1] ELSE ent[d][n]
  BY <1>1
<1>7. \A d \in Dirs : \A n \in Names :
        /\ ent'[d][n] \in EntryType
        /\ ent'[d][n].kind = ent[d][n].kind /\ ent'[d][n].ref = ent[d][n].ref
        /\ ent'[d][n].size = IF mine(d, n) THEN g + 1 ELSE ent[d][n].size
  <2> SUFFICES ASSUME NEW d \in Dirs, NEW n \in Names
               PROVE  /\ ent'[d][n] \in EntryType
                      /\ ent'[d][n].kind = ent[d][n].kind /\ ent'[d][n].ref = ent[d][n].ref
                      /\ ent'[d][n].size = IF mine(d, n) THEN g + 1 ELSE ent[d][n].size
    OBVIOUS
  <2> DEFINE f == ent[d][n]
  <2>1. f \in EntryType
    BY <1>4
  <2>2. CASE mine(d, n)
    <3>1. ent'[d][n] = [f EXCEPT !.size = @ + 1] /\ f.size = g
      BY <1>3, <1>6, <2>2
    <3> HIDE DEF f
    <3> QED BY <1>5, <2>1, <2>2, <3>1 DEF f
  <2>3. CASE ~mine(d, n)
    BY <1>6, <2>1, <2>3
  <2> QED BY <2>2, <2>3
<1>8. TreeOK'
  <2>1. ent' = [d \in Dirs |-> ent'[d]] /\ \A d \in Dirs : ent'[d] = [n \in Names |-> ent'[d][n]]
    BY <1>1
  <2>2. \A d \in Dirs : ent'[d] \in [Names -> EntryType]
    BY <1>7, <2>1
  <2> QED BY <2>1, <2>2 DEF TreeOK
<1>9. NamesInv'
  <2>1. \A d \in Dirs : \A n \in FileNames \cup DirNames : ~mine(d, n)
    BY <1>2, NamesApart
  <2>2. \A d \in Dirs : \A n \in FileNames : ent'[d][n] = ent[d][n]
    BY <1>6, <2>1, NamesApart
  <2> QED BY <1>7, <2>1, <2>2, NamesApart, TempApart DEF NamesInv, IsFile, IsDir
<1>10. Sized(ent', w, g + 1)
  BY <1>7, NamesApart DEF Sized, IsFile, mine
<1>11. \A v \in Writers \ {w} : \A k : Sized(ent, v, k) => Sized(ent', v, k)
  BY <1>7, NamesApart DEF Sized, IsFile, mine
<1> QED BY <1>7, <1>8, <1>9, <1>10, <1>11

\* A new writer begins a file of its own.
LEMMA NewFileTree ==
  ASSUME TreeOK, NamesInv, NEW a \in Dirs, NEW m \in TempNames, NEW w \in Writers,
         NewWriter(w), \A v \in Writers : m = UpTemp(v) => v = w,
         ent' = [ent EXCEPT ![a][m] = NewFile(w)]
  PROVE  /\ TreeOK' /\ NamesInv' /\ Sized(ent', w, 0)
         /\ \A v \in Writers \ {w} : \A k : Sized(ent, v, k) => Sized(ent', v, k)
         /\ ent'[a][m] = NewFile(w)
         /\ \A d \in Dirs : \A n \in Names : d # a \/ n # m => ent'[d][n] = ent[d][n]
<1> DEFINE e == NewFile(w)
<1>1. m \in Names /\ m \notin FileNames /\ m \notin DirNames
  BY NamesApart
<1>2. e \in EntryType /\ IsFile(e) /\ ~IsDir(e) /\ e.ref = w /\ e.size = 0
  BY Bounds DEF NewFile, EntryType, IsFile, IsDir, Writers
<1> HIDE DEF e
<1>3. /\ TreeOK'
      /\ ent'[a][m] = e
      /\ \A d \in Dirs : \A n \in Names : d # a \/ n # m => ent'[d][n] = ent[d][n]
  <2>1. ent' = With(ent, a, m, e)
    BY DEF With, e
  <2> QED BY <1>1, <1>2, <2>1, WithEntry DEF TreeOK
<1>4. \A d \in Dirs : \A n \in TempNames : ~(IsFile(ent[d][n]) /\ ent[d][n].ref = w)
  BY DEF NewWriter, InUse
<1>5. NamesInv'
  <2>1. \A d \in Dirs : \A k \in FileNames :
          IsFile(ent'[d][k]) =>
            ent'[d][k].ref = 0 /\ (ent'[d][k].size = Full \/ ent'[d][k].stray = 1)
    BY <1>1, <1>3, NamesApart DEF NamesInv
  <2>2. \A d \in Dirs : \A k \in DirNames : ~IsFile(ent'[d][k])
    BY <1>1, <1>3, NamesApart DEF NamesInv
  <2>3. \A d \in Dirs : \A k \in TempNames :
          ~IsDir(ent'[d][k]) /\ (IsFile(ent'[d][k]) => ent'[d][k].ref \in Writers)
    BY <1>2, <1>3, NamesApart DEF NamesInv
  <2>4. \A d \in Dirs : \A v \in Writers :
          IsFile(ent'[d][UpTemp(v)]) => ent'[d][UpTemp(v)].ref = v
    BY <1>2, <1>3, NamesApart, TempApart DEF NamesInv
  <2>5. \A d \in Dirs : \A k \in Names : IsDir(ent'[d][k]) => ent'[d][k].ref \in Dirs
    BY <1>2, <1>3 DEF NamesInv
  <2> QED BY <2>1, <2>2, <2>3, <2>4, <2>5 DEF NamesInv
<1>6. Sized(ent', w, 0)
  BY <1>2, <1>3, <1>4, NamesApart DEF Sized
<1>7. \A v \in Writers \ {w} : \A k : Sized(ent, v, k) => Sized(ent', v, k)
  BY <1>2, <1>3, NamesApart DEF Sized
<1> QED BY <1>3, <1>5, <1>6, <1>7 DEF e

-------------------------------------------------------------------------------
(* What keeps the parts of the invariant. *)

Transfers == {"running", "done", "failed", "killed"}
Busy == {"running", "killing", "ended", "settling"}

\* Who writes nothing is not a writer.
LEMMA WritersAreSome == 0 \notin Writers
BY DEF Writers

\* Requests that begin here write nothing.
Reads(h) == req'[h] = req[h] \/ req'[h].op # "receive"

\* Requests that write go on with files that have not changed.
LEMMA HandlersKept ==
  ASSUME HandlerInv, TempsStay, \A h \in Handlers : Reads(h)
  PROVE  HandlerInv'
<1> SUFFICES ASSUME NEW h \in Handlers
             PROVE  req'[h].op = "receive" =>
                      /\ req'[h].w \in Writers /\ req'[h].name \in FileNames
                      /\ Sized(ent', req'[h].w, req'[h].got)
  BY DEF HandlerInv, Receives
<1>1. CASE req'[h] = req[h]
  <2>1. Receives(h) => Sized(ent, req[h].w, req[h].got)
    BY DEF HandlerInv
  <2>2. Receives(h) => Sized(ent', req[h].w, req[h].got)
    BY <2>1, StaySized
  <2> QED BY <1>1, <2>2 DEF HandlerInv, Receives
<1>2. CASE req'[h] # req[h]
  BY <1>2 DEF Reads
<1> QED BY <1>1, <1>2

\* Where no writer is added, the writers stay apart.
LEMMA ApartKept ==
  ASSUME HandlerInv, WritersApart, \A h \in Handlers : Reads(h), cur'.w \in {0, cur.w}
  PROVE  WritersApart'
<1>1. \A h \in Handlers : Receives(h)' => Receives(h) /\ req'[h] = req[h]
  BY DEF Reads, Receives
<1> QED BY <1>1, WritersAreSome DEF HandlerInv, WritersApart

\* The transfer goes on with a file that has not changed.
LEMMA CurlKept ==
  ASSUME TypeOK, CurlInv, TempsStay, UNCHANGED cur,
         child' \in Transfers => child \in Transfers,
         child' = "done" => child = "done" \/ cur.got = Full,
         child' # "none" => pc' \in Busy,
         pc' \in Busy \cup {"picked"} => pc \in Busy \cup {"picked"}
  PROVE  CurlInv'
<1>1. ASSUME child' \in Transfers
      PROVE  cur.w \in Writers /\ Sized(ent', cur.w, cur.got)
  <2>1. cur.w \in Writers /\ Sized(ent, cur.w, cur.got)
    BY <1>1 DEF CurlInv, Transfers
  <2> QED BY <2>1, StaySized
<1>2. /\ child' = "done" => cur'.got = Full
      /\ child' # "none" => pc' \in Busy
      /\ pc' \in Busy \cup {"picked"} => cur'.id \in Tasks
  BY DEF CurlInv, Transfers, Busy
<1> QED BY <1>1, <1>2 DEF CurlInv, Transfers, Busy

\* Steps that touch neither the tree, nor what handlers have in hand, nor the
\* transfer.
LEMMA QuietStep ==
  ASSUME IInv, ent' = ent, req' = req, cur' = cur, child' = child,
         child # "none" => pc' \in Busy,
         pc' \in Busy \cup {"picked"} => pc \in Busy \cup {"picked"}
  PROVE  NamesInv' /\ HandlerInv' /\ WritersApart' /\ CurlInv'
<1>1. Shuffled
  BY SameTree DEF IInv, TypeOK
<1>2. TempsStay
  BY <1>1, ShuffledStay
<1>3. NamesInv'
  BY <1>1, ShuffledNames DEF IInv
<1>4. \A h \in Handlers : Reads(h)
  BY DEF Reads
<1>5. HandlerInv' /\ WritersApart'
  BY <1>2, <1>4, HandlersKept, ApartKept DEF IInv
<1>6. child' = "done" => child = "done"
  OBVIOUS
<1>7. CurlInv'
  BY <1>2, <1>6, CurlKept DEF IInv
<1> QED BY <1>3, <1>5, <1>7

\* Steps of handlers that begin nothing that writes.
LEMMA ReadingStep ==
  ASSUME IInv, Shuffled, \A h \in Handlers : Reads(h), cur' = cur, child' = child,
         \/ pc' = pc
         \/ pc \notin Busy \cup {"picked"} /\ pc' \notin Busy \cup {"picked"}
  PROVE  NamesInv' /\ HandlerInv' /\ WritersApart' /\ CurlInv'
<1>1. TempsStay
  BY ShuffledStay
<1>2. NamesInv'
  BY ShuffledNames DEF IInv
<1>3. HandlerInv' /\ WritersApart'
  BY <1>1, HandlersKept, ApartKept DEF IInv
<1>4. child' # "none" => pc' \in Busy
  BY DEF IInv, CurlInv, Busy
<1>5. CurlInv'
  BY <1>1, <1>4, CurlKept DEF IInv
<1> QED BY <1>2, <1>3, <1>5

-------------------------------------------------------------------------------
(* The handlers. *)

ReqType ==
  [op : {"idle", "receive", "move", "notify"}, w : 0 .. MaxWriters,
   got : 0 .. Full, src : Paths, name : Names, dst : Paths]

\* An idle handler has nothing in hand.
LEMMA IdleType == Idle \in ReqType /\ Idle.op = "idle" /\ Idle.w = 0
BY Bounds, NamesApart, NamesOf DEF Idle, ReqType

\* What a handler has in hand, field by field.
LEMMA ReqTypes ==
  ASSUME TypeOK, NEW h \in Handlers
  PROVE  /\ req \in [Handlers -> ReqType] /\ req[h] \in ReqType
         /\ req[h].src \in Paths /\ req[h].dst \in Paths /\ req[h].name \in Names
         /\ req[h].got \in 0 .. Full /\ req[h].w \in 0 .. MaxWriters
<1>1. req \in [Handlers -> ReqType]
  BY DEF TypeOK, ReqType
<1>2. req[h] \in ReqType
  BY <1>1
<1> QED BY <1>1, <1>2 DEF ReqType

\* A request that is set anew, whatever it is.
LEMMA ReqSet ==
  ASSUME TypeOK, NEW h \in Handlers, NEW r \in ReqType, req' = [req EXCEPT ![h] = r]
  PROVE  /\ req' \in [Handlers -> ReqType] /\ req'[h] = r
         /\ \A g \in Handlers \ {h} : req'[g] = req[g]
<1>1. req \in [Handlers -> ReqType]
  BY ReqTypes
<1> QED BY <1>1

\* An answer leaves the handler idle and the others alone.
LEMMA AnsweredReads ==
  ASSUME TypeOK, NEW h \in Handlers, Answered(h)
  PROVE  req' \in [Handlers -> ReqType] /\ \A g \in Handlers : Reads(g)
<1>1. /\ req' \in [Handlers -> ReqType] /\ req'[h] = Idle
      /\ \A g \in Handlers \ {h} : req'[g] = req[g]
  BY ReqSet, IdleType DEF Answered
<1> QED BY <1>1, IdleType DEF Reads

\* A handler that begins a file of its own.
LEMMA StartUploadStep ==
  ASSUME IInv, NEW h \in Handlers, StartUpload(h)
  PROVE  IInv'
<1>1. PICK p \in Paths, k \in UploadNames, w \in Writers :
        /\ Walk(p) # NoDir /\ NewWriter(w)
        /\ ent' = [ent EXCEPT ![Walk(p)][UpTemp(w)] = NewFile(w)]
        /\ req' = [req EXCEPT ![h] =
             [op |-> "receive", w |-> w, got |-> 0, src |-> p, name |-> Target(k), dst |-> p]]
  BY DEF StartUpload
<1> DEFINE a == Walk(p)
           r == [op |-> "receive", w |-> w, got |-> 0, src |-> p, name |-> Target(k), dst |-> p]
<1>2. a \in Dirs
  BY <1>1, WalkType DEF IInv
<1>3. UpTemp(w) \in TempNames /\ \A v \in Writers : UpTemp(w) = UpTemp(v) => v = w
  BY TempApart
<1>4. Target(k) \in FileNames
  BY Bounds, NamesOf
<1>5. r \in ReqType /\ r.op = "receive" /\ r.w = w /\ r.got = 0 /\ r.name = Target(k)
  BY <1>4, Bounds, NamesApart DEF ReqType, Writers
<1>6. ent' = [ent EXCEPT ![a][UpTemp(w)] = NewFile(w)] /\ req' = [req EXCEPT ![h] = r]
  BY <1>1
<1>7. TypeOK /\ TreeOK /\ NamesInv /\ HandlerInv /\ WritersApart /\ CurlInv
  BY DEF IInv, TypeOK
<1> HIDE DEF a, r
<1>8. /\ req' \in [Handlers -> ReqType] /\ req'[h] = r
      /\ \A g \in Handlers \ {h} : req'[g] = req[g]
  BY <1>5, <1>6, <1>7, ReqSet
<1>9. /\ TreeOK' /\ NamesInv' /\ Sized(ent', w, 0)
      /\ \A v \in Writers \ {w} : \A j : Sized(ent, v, j) => Sized(ent', v, j)
  <2> DEFINE n == UpTemp(w)
  <2>1. /\ n \in TempNames /\ NewWriter(w) /\ \A v \in Writers : n = UpTemp(v) => v = w
        /\ ent' = [ent EXCEPT ![a][n] = NewFile(w)]
    BY <1>1, <1>3, <1>6
  <2> HIDE DEF n
  <2> QED BY <1>2, <1>7, <2>1, NewFileTree
<1>10. \A g \in Handlers : req[g].w # w
  BY <1>1 DEF NewWriter, InUse
<1>11. cur.w # w
  BY <1>1 DEF NewWriter, InUse
<1>12. UNCHANGED <<tasks, queue, pc, cur, child, timedOut, main, signalled, stopping, missed>>
  BY DEF StartUpload, managerVars, workerVars, mainVars
<1>13. TypeOK'
  <2>1. events' \in 0 .. MaxEvents
    <3>1. events' = events + 1 /\ events < MaxEvents /\ events \in 0 .. MaxEvents
      BY <1>7 DEF TypeOK, StartUpload, Accept
    <3> QED BY <3>1, Bounds
  <2> QED BY <1>7, <1>8, <1>9, <1>12, <2>1 DEF TypeOK, ReqType
<1>14. HandlerInv'
  <2> SUFFICES ASSUME NEW g \in Handlers
               PROVE  req'[g].op = "receive" =>
                        /\ req'[g].w \in Writers /\ req'[g].name \in FileNames
                        /\ Sized(ent', req'[g].w, req'[g].got)
    BY DEF HandlerInv, Receives
  <2>1. CASE g = h
    <3>1. Sized(ent', req'[g].w, req'[g].got)
      BY <1>5, <1>8, <1>9, <2>1
    <3> QED BY <1>4, <1>5, <1>8, <2>1, <3>1
  <2>2. CASE g # h
    <3>1. req'[g] = req[g]
      BY <1>8, <2>2
    <3>2. ASSUME Receives(g)
          PROVE  req[g].w \in Writers \ {w} /\ Sized(ent, req[g].w, req[g].got)
      BY <1>7, <1>10, <3>2 DEF HandlerInv
    <3>3. Receives(g) => Sized(ent', req'[g].w, req'[g].got)
      BY <3>1, <3>2, <1>9
    <3> QED BY <1>7, <3>1, <3>3 DEF HandlerInv, Receives
  <2> QED BY <2>1, <2>2
<1>15. WritersApart'
  BY <1>5, <1>7, <1>8, <1>10, <1>11, <1>12 DEF WritersApart, Receives
<1>16. CurlInv'
  <2>1. ASSUME child \in Transfers
        PROVE  cur.w \in Writers /\ Sized(ent', cur.w, cur.got)
    <3>1. cur.w \in Writers \ {w} /\ Sized(ent, cur.w, cur.got)
      BY <1>7, <1>11, <2>1 DEF CurlInv, Transfers
    <3> QED BY <3>1, <1>9
  <2> QED BY <1>7, <1>12, <2>1 DEF CurlInv, Transfers
<1> QED BY <1>9, <1>13, <1>14, <1>15, <1>16 DEF IInv

\* A handler that writes a piece grows its own file only.
LEMMA ReceiveStep ==
  ASSUME IInv, NEW h \in Handlers, Receive(h)
  PROVE  IInv'
<1> DEFINE w == req[h].w
           g == req[h].got
           r == [req[h] EXCEPT !.got = @ + 1]
<1>1. TypeOK /\ TreeOK /\ NamesInv /\ HandlerInv /\ WritersApart /\ CurlInv
  BY DEF IInv, TypeOK
<1>2. Receives(h) /\ g \in 0 .. Full /\ g < Full
  BY <1>1, ReqTypes DEF Receive, Receives
<1>3. w \in Writers /\ Sized(ent, w, g)
  BY <1>1, <1>2 DEF HandlerInv
<1>4. r \in ReqType /\ r.op = "receive" /\ r.w = w /\ r.got = g + 1 /\ r.name = req[h].name
  <2>1. req[h] \in ReqType
    BY <1>1, ReqTypes
  <2> QED BY <1>2, <2>1, Bounds DEF ReqType, Receives
<1>5. req' = [req EXCEPT ![h] = r] /\ ent' = Grown(w)
  BY DEF Receive
<1> HIDE DEF w, g, r
<1>6. /\ req' \in [Handlers -> ReqType] /\ req'[h] = r
      /\ \A f \in Handlers \ {h} : req'[f] = req[f]
  BY <1>1, <1>4, <1>5, ReqSet
<1>7. /\ TreeOK' /\ NamesInv' /\ Sized(ent', w, g + 1)
      /\ \A v \in Writers \ {w} : \A j : Sized(ent, v, j) => Sized(ent', v, j)
      /\ \A d \in Dirs : \A n \in Names :
           ent'[d][n].kind = ent[d][n].kind /\ ent'[d][n].ref = ent[d][n].ref
  BY <1>1, <1>2, <1>3, <1>5, GrownTree
<1>8. UNCHANGED <<events, tasks, queue, pc, cur, child, timedOut, main, signalled, stopping, missed>>
  BY DEF Receive, managerVars, workerVars, mainVars
<1>9. TypeOK'
  BY <1>1, <1>6, <1>7, <1>8 DEF TypeOK, ReqType
<1>10. \A f \in Handlers \ {h} : Receives(f) => req[f].w \in Writers \ {w}
  BY <1>1, <1>2 DEF HandlerInv, WritersApart, w
<1>11. HandlerInv'
  <2> SUFFICES ASSUME NEW f \in Handlers
               PROVE  req'[f].op = "receive" =>
                        /\ req'[f].w \in Writers /\ req'[f].name \in FileNames
                        /\ Sized(ent', req'[f].w, req'[f].got)
    BY DEF HandlerInv, Receives
  <2>1. CASE f = h
    <3>1. Sized(ent', req'[f].w, req'[f].got)
      BY <1>4, <1>6, <1>7, <2>1
    <3> QED BY <1>1, <1>2, <1>3, <1>4, <1>6, <2>1, <3>1 DEF HandlerInv, Receives
  <2>2. CASE f # h
    <3>1. req'[f] = req[f]
      BY <1>6, <2>2
    <3>2. Receives(f) => req[f].w \in Writers \ {w} /\ Sized(ent, req[f].w, req[f].got)
      BY <1>1, <1>10, <2>2 DEF HandlerInv
    <3>3. Receives(f) => Sized(ent', req'[f].w, req'[f].got)
      BY <3>1, <3>2, <1>7
    <3> QED BY <1>1, <3>1, <3>3 DEF HandlerInv, Receives
  <2> QED BY <2>1, <2>2
<1>12. WritersApart'
  BY <1>1, <1>2, <1>4, <1>6, <1>8 DEF WritersApart, Receives, w
<1>13. CurlInv'
  <2>1. ASSUME child \in Transfers
        PROVE  cur.w \in Writers /\ Sized(ent', cur.w, cur.got)
    <3>1. cur.w \in Writers \ {w} /\ Sized(ent, cur.w, cur.got)
      BY <1>1, <1>2, <2>1 DEF CurlInv, Transfers, WritersApart, w
    <3> QED BY <3>1, <1>7
  <2> QED BY <1>1, <1>8, <2>1 DEF CurlInv, Transfers
<1> QED BY <1>7, <1>9, <1>11, <1>12, <1>13 DEF IInv

\* The steps of a handler that publish, remove or move.
LEMMA PublishStep ==
  ASSUME IInv, NEW h \in Handlers, Publish(h)
  PROVE  IInv'
<1> DEFINE p == req[h].src
           n == UpTemp(req[h].w)
           m == req[h].name
           w == req[h].w
<1>1. TypeOK /\ TreeOK /\ NamesInv /\ HandlerInv /\ WritersApart /\ CurlInv
  BY DEF IInv, TypeOK
<1>2. Receives(h) /\ req[h].got = Full /\ CanRename(p, n, p, m)
  BY DEF Publish, Receives
<1>3. w \in Writers /\ m \in FileNames /\ Sized(ent, w, Full)
  BY <1>1, <1>2 DEF HandlerInv
<1>4. p \in Paths /\ n \in TempNames /\ n \in Names
  BY <1>1, <1>3, ReqTypes, TempApart, NamesApart
<1>5. ent' = Published(p, n, p, m, w)
  BY DEF Publish
<1> HIDE DEF p, n, m, w
<1>6. TreeOK' /\ NamesInv' /\ TempsStay
  BY <1>1, <1>2, <1>3, <1>4, <1>5, PublishedTree
<1>7. UNCHANGED <<events, tasks, queue, pc, cur, child, timedOut, main, signalled, stopping, missed>>
  BY DEF Publish, managerVars, workerVars, mainVars
<1>8. req' \in [Handlers -> ReqType] /\ \A g \in Handlers : Reads(g)
  BY <1>1, AnsweredReads DEF Publish
<1>9. TypeOK'
  BY <1>1, <1>6, <1>7, <1>8 DEF TypeOK, ReqType
<1>10. HandlerInv' /\ WritersApart'
  BY <1>1, <1>6, <1>7, <1>8, HandlersKept, ApartKept
<1>11. child' # "none" => pc' \in Busy
  BY <1>1, <1>7 DEF CurlInv, Busy
<1>12. CurlInv'
  BY <1>1, <1>6, <1>7, <1>11, CurlKept
<1> QED BY <1>6, <1>9, <1>10, <1>12 DEF IInv

\* All the others of them.
LEMMA OtherHandlerStep ==
  ASSUME IInv, Shuffled, \A g \in Handlers : Reads(g), req' \in [Handlers -> ReqType],
         events' \in 0 .. MaxEvents,
         UNCHANGED <<tasks, queue, pc, cur, child, timedOut, main, signalled, stopping, missed>>
  PROVE  IInv'
<1>1. NamesInv' /\ HandlerInv' /\ WritersApart' /\ CurlInv'
  BY ReadingStep
<1>2. TreeOK'
  BY DEF Shuffled
<1>3. TypeOK'
  BY <1>2 DEF IInv, TypeOK, ReqType
<1> QED BY <1>1, <1>3 DEF IInv

\* A request counts, up to the bound.
LEMMA AcceptCounts ==
  ASSUME TypeOK, NEW h \in Handlers, Accept(h)
  PROVE  events' \in 0 .. MaxEvents
<1>1. events' = events + 1 /\ events < MaxEvents /\ events \in 0 .. MaxEvents
  BY DEF TypeOK, Accept
<1> QED BY <1>1, Bounds

\* A failed upload removes at most one entry.
LEMMA UploadFailsStep ==
  ASSUME IInv, NEW h \in Handlers, UploadFails(h)
  PROVE  IInv'
<1>1. TypeOK /\ TreeOK /\ NamesInv /\ HandlerInv
  BY DEF IInv, TypeOK
<1>2. req[h].w \in Writers
  BY <1>1 DEF UploadFails, Fails, HandlerInv, Receives
<1>3. req[h].src \in Paths /\ UpTemp(req[h].w) \in Names
  BY <1>1, <1>2, ReqTypes, TempApart, NamesApart
<1>4. Shuffled
  BY <1>1, <1>3, RemovedTree DEF UploadFails
<1>5. req' \in [Handlers -> ReqType] /\ \A g \in Handlers : Reads(g)
  BY <1>1, AnsweredReads DEF UploadFails, Fails
<1>6. UNCHANGED <<events, tasks, queue, pc, cur, child, timedOut, main, signalled, stopping, missed>>
  BY DEF UploadFails, managerVars, workerVars, mainVars
<1>7. events' \in 0 .. MaxEvents
  BY <1>1, <1>6 DEF TypeOK
<1> QED BY <1>4, <1>5, <1>6, <1>7, OtherHandlerStep

\* A new directory has the name of one, and takes no file's place.
LEMMA CreateDirectoryStep ==
  ASSUME IInv, NEW h \in Handlers, CreateDirectory(h)
  PROVE  IInv'
<1>1. TypeOK /\ TreeOK /\ NamesInv /\ HandlerInv /\ WritersApart /\ CurlInv
  BY DEF IInv, TypeOK
<1>2. PICK n \in DirNames, d \in Dirs : ent' = [ent EXCEPT ![Root][n] = DirEntry(d)]
  BY DEF CreateDirectory
<1> DEFINE e == DirEntry(d)
<1>3. e \in EntryType /\ ~IsFile(e) /\ e.ref \in Dirs
  BY Bounds DEF DirEntry, EntryType, IsFile, Dirs
<1>4. n \in Names /\ n \notin TempNames
  BY NamesApart
<1>5. ent' = With(ent, Root, n, e)
  BY <1>2 DEF With
<1> HIDE DEF e
<1>6. TreeOK' /\ \A a \in Dirs : \A k \in Names :
        ent'[a][k] = IF a = Root /\ k = n THEN e ELSE ent[a][k]
  <2>1. ent \in [Dirs -> [Names -> EntryType]]
    BY <1>1 DEF TreeOK
  <2>2. /\ With(ent, Root, n, e) \in [Dirs -> [Names -> EntryType]]
        /\ \A a \in Dirs : \A k \in Names :
             With(ent, Root, n, e)[a][k] = IF a = Root /\ k = n THEN e ELSE ent[a][k]
    BY <1>3, <1>4, <2>1, Bounds DEF With
  <2> QED BY <1>5, <2>2 DEF TreeOK
<1>7. TempsStay
  BY <1>4, <1>6, NamesApart DEF TempsStay, Alike
<1>8. NamesInv'
  <2>1. \A a \in Dirs : \A k \in FileNames :
          IsFile(ent'[a][k]) =>
            ent'[a][k].ref = 0 /\ (ent'[a][k].size = Full \/ ent'[a][k].stray = 1)
    BY <1>1, <1>3, <1>6, NamesApart DEF NamesInv
  <2>2. \A a \in Dirs : \A k \in DirNames : ~IsFile(ent'[a][k])
    BY <1>1, <1>3, <1>6, NamesApart DEF NamesInv
  <2>3. \A a \in Dirs : \A k \in TempNames : ent'[a][k] = ent[a][k]
    BY <1>4, <1>6, NamesApart
  <2>4. \A a \in Dirs : \A k \in Names : IsDir(ent'[a][k]) => ent'[a][k].ref \in Dirs
    BY <1>1, <1>3, <1>6 DEF NamesInv
  <2> QED BY <1>1, <2>1, <2>2, <2>3, <2>4, TempApart DEF NamesInv
<1>9. UNCHANGED <<req, tasks, queue, pc, cur, child, timedOut, main, signalled, stopping, missed>>
  BY DEF CreateDirectory, managerVars, workerVars, mainVars
<1>10. events' \in 0 .. MaxEvents
  BY <1>1, AcceptCounts DEF CreateDirectory
<1>11. TypeOK'
  BY <1>1, <1>6, <1>9, <1>10 DEF TypeOK
<1>12. \A g \in Handlers : Reads(g)
  BY <1>9 DEF Reads
<1>13. HandlerInv' /\ WritersApart'
  BY <1>1, <1>7, <1>9, <1>12, HandlersKept, ApartKept
<1>14. child' # "none" => pc' \in Busy
  BY <1>1, <1>9 DEF CurlInv, Busy
<1>15. CurlInv'
  BY <1>1, <1>7, <1>9, <1>14, CurlKept
<1> QED BY <1>8, <1>11, <1>13, <1>15 DEF IInv

\* A deletion may take files away from their writers.
LEMMA RemoveStep ==
  ASSUME IInv, NEW h \in Handlers, Remove(h)
  PROVE  IInv'
<1>1. TypeOK /\ TreeOK
  BY DEF IInv, TypeOK
<1>2. PICK p \in Paths, n \in Names : ent' = RemovedAll(p, n)
  BY DEF Remove
<1>3. Shuffled
  BY <1>1, <1>2, RemovedAllTree
<1>4. UNCHANGED <<req, tasks, queue, pc, cur, child, timedOut, main, signalled, stopping, missed>>
  BY DEF Remove, managerVars, workerVars, mainVars
<1>5. events' \in 0 .. MaxEvents
  BY <1>1, AcceptCounts DEF Remove
<1>6. req' \in [Handlers -> ReqType] /\ \A g \in Handlers : Reads(g)
  BY <1>1, <1>4, ReqTypes DEF Reads, TypeOK, ReqType
<1> QED BY <1>3, <1>4, <1>5, <1>6, OtherHandlerStep

\* The checks of a move change nothing.
LEMMA CheckMoveStep ==
  ASSUME IInv, NEW h \in Handlers, CheckMove(h)
  PROVE  IInv'
<1>1. TypeOK /\ TreeOK
  BY DEF IInv, TypeOK
<1>2. PICK p \in Paths, q \in Paths, n \in Names :
        req' = [req EXCEPT ![h] =
          [op |-> "move", w |-> 0, got |-> 0, src |-> p, name |-> n, dst |-> q]]
  BY DEF CheckMove
<1> DEFINE r == [op |-> "move", w |-> 0, got |-> 0, src |-> p, name |-> n, dst |-> q]
<1>3. r \in ReqType /\ r.op = "move" /\ r.name = n
  BY Bounds, NamesApart DEF ReqType
<1>4. req' = [req EXCEPT ![h] = r]
  BY <1>2
<1> HIDE DEF r
<1>5. /\ req' \in [Handlers -> ReqType] /\ req'[h] = r
      /\ \A g \in Handlers \ {h} : req'[g] = req[g]
  BY <1>1, <1>3, <1>4, ReqSet
<1>6. \A g \in Handlers : Reads(g)
  BY <1>3, <1>5 DEF Reads
<1>7. UNCHANGED <<ent, tasks, queue, pc, cur, child, timedOut, main, signalled, stopping, missed>>
  BY DEF CheckMove, managerVars, workerVars, mainVars
<1>8. events' \in 0 .. MaxEvents
  BY <1>1, AcceptCounts DEF CheckMove
<1>9. Shuffled
  BY <1>1, <1>7, SameTree
<1> QED BY <1>5, <1>6, <1>7, <1>8, <1>9, OtherHandlerStep

\* The rename of a move, after whatever came between it and the checks.
LEMMA MoveStep ==
  ASSUME IInv, NEW h \in Handlers, Move(h)
  PROVE  IInv'
<1> DEFINE p == req[h].src
           q == req[h].dst
           n == req[h].name
<1>1. TypeOK /\ TreeOK /\ NamesInv
  BY DEF IInv, TypeOK
<1>2. p \in Paths /\ q \in Paths /\ n \in Names
  BY <1>1, ReqTypes
<1>3. \/ CanRename(p, n, q, n) /\ ent' = Moved(p, n, q)
      \/ UNCHANGED ent
  BY DEF Move
<1> HIDE DEF p, q, n
<1>4. Shuffled
  BY <1>1, <1>2, <1>3, MovedTree, SameTree
<1>5. req' \in [Handlers -> ReqType] /\ \A g \in Handlers : Reads(g)
  BY <1>1, AnsweredReads DEF Move
<1>6. UNCHANGED <<events, tasks, queue, pc, cur, child, timedOut, main, signalled, stopping, missed>>
  BY DEF Move, managerVars, workerVars, mainVars
<1>7. events' \in 0 .. MaxEvents
  BY <1>1, <1>6 DEF TypeOK
<1> QED BY <1>4, <1>5, <1>6, <1>7, OtherHandlerStep

\* A new download joins the queue.
LEMMA EnqueueStep ==
  ASSUME IInv, NEW h \in Handlers, Enqueue(h)
  PROVE  IInv'
<1> DEFINE r == [req[h] EXCEPT !.op = "notify"]
<1>1. TypeOK /\ TreeOK
  BY DEF IInv, TypeOK
<1>2. r \in ReqType /\ r.op = "notify"
  BY <1>1, ReqTypes DEF ReqType
<1>3. req' = [req EXCEPT ![h] = r]
  BY DEF Enqueue
<1> HIDE DEF r
<1>4. /\ req' \in [Handlers -> ReqType] /\ req'[h] = r
      /\ \A g \in Handlers \ {h} : req'[g] = req[g]
  BY <1>1, <1>2, <1>3, ReqSet
<1>5. \A g \in Handlers : Reads(g)
  BY <1>2, <1>4 DEF Reads
<1>6. UNCHANGED <<ent, pc, cur, child, timedOut, main, signalled, stopping, missed>>
  BY DEF Enqueue, workerVars, mainVars
<1>7. Shuffled
  BY <1>1, <1>6, SameTree
<1>8. NamesInv' /\ HandlerInv' /\ WritersApart' /\ CurlInv'
  BY <1>5, <1>6, <1>7, ReadingStep
<1>9. tasks' \in Seq({"queued", "running", "completed", "failed"})
  BY <1>1 DEF TypeOK, Enqueue
<1>10. queue' \in Seq(Tasks) /\ Len(queue') <= QueueLimit
  <2>1. Len(tasks) + 1 \in Tasks
    <3>1. tasks \in Seq({"queued", "running", "completed", "failed"}) /\ Len(tasks) < MaxTasks
      BY <1>1 DEF TypeOK, Enqueue
    <3> QED BY <3>1, Bounds DEF Tasks
  <2>2. queue \in Seq(Tasks) /\ Len(queue) < QueueLimit /\ queue' = Append(queue, Len(tasks) + 1)
    BY <1>1 DEF TypeOK, Enqueue
  <2> QED BY <2>1, <2>2, Bounds
<1>11. events' \in 0 .. MaxEvents
  BY <1>1, AcceptCounts DEF Enqueue
<1>12. TypeOK'
  <2>1. TreeOK'
    BY <1>7 DEF Shuffled
  <2> QED BY <1>1, <1>4, <1>6, <1>9, <1>10, <1>11, <2>1 DEF TypeOK, ReqType
<1> QED BY <1>8, <1>12 DEF IInv

\* The notification wakes the worker if it sleeps.
LEMMA NotifyOneStep ==
  ASSUME IInv, NEW h \in Handlers, NotifyOne(h)
  PROVE  IInv'
<1>1. TypeOK /\ TreeOK
  BY DEF IInv, TypeOK
<1>2. req' \in [Handlers -> ReqType] /\ \A g \in Handlers : Reads(g)
  BY <1>1, AnsweredReads DEF NotifyOne
<1>3. UNCHANGED <<ent, events, tasks, queue, cur, child, timedOut, main, signalled, stopping, missed>>
  BY DEF NotifyOne, managerVars, mainVars
<1>4. \/ pc' = pc
      \/ pc = "asleep" /\ pc' = "waiting"
  BY DEF NotifyOne
<1>5. Shuffled
  BY <1>1, <1>3, SameTree
<1>6. NamesInv' /\ HandlerInv' /\ WritersApart' /\ CurlInv'
  <2>1. \/ pc' = pc
        \/ pc \notin Busy \cup {"picked"} /\ pc' \notin Busy \cup {"picked"}
    BY <1>4 DEF Busy
  <2> QED BY <1>2, <1>3, <1>5, <2>1, ReadingStep
<1>7. TypeOK'
  <2>1. TreeOK'
    BY <1>5 DEF Shuffled
  <2> QED BY <1>1, <1>2, <1>3, <1>4, <2>1 DEF TypeOK, ReqType
<1> QED BY <1>6, <1>7 DEF IInv

-------------------------------------------------------------------------------
(* The worker, its curl, and the main thread. *)

\* Steps that only move a thread on.
LEMMA ThreadStep ==
  ASSUME IInv, ent' = ent, req' = req, events' = events, tasks' = tasks, queue' = queue,
         cur' = cur, child' = child,
         child # "none" => pc' \in Busy,
         pc' \in Busy \cup {"picked"} => pc \in Busy \cup {"picked"},
         pc' \in {"top", "waiting", "falling", "asleep", "picked", "running", "killing",
                  "ended", "settling", "gone"},
         main' \in {"starting", "serving", "closing", "notifying", "joining", "ended"},
         {timedOut', signalled', stopping', missed'} \subseteq {0, 1}
  PROVE  IInv'
<1>1. NamesInv' /\ HandlerInv' /\ WritersApart' /\ CurlInv'
  BY QuietStep
<1>2. TypeOK'
  BY DEF IInv, TypeOK, TreeOK
<1> QED BY <1>1, <1>2 DEF IInv

\* The worker between its tests, and while curl runs.
LEMMA WaitingStep ==
  ASSUME IInv, Top \/ FallAsleep \/ SeeExit \/ Interrupt
  PROVE  IInv'
<1>1. TypeOK /\ CurlInv
  BY DEF IInv
<1>2. /\ ent' = ent /\ req' = req /\ events' = events /\ tasks' = tasks /\ queue' = queue
      /\ cur' = cur /\ child' = child
      /\ main' = main /\ signalled' = signalled /\ stopping' = stopping /\ missed' = missed
  BY DEF Top, FallAsleep, SeeExit, Interrupt, handlerVars, managerVars, mainVars
<1>3. timedOut' \in {0, 1}
  BY <1>1 DEF TypeOK, Top, FallAsleep, SeeExit, Interrupt
<1>4. \/ pc = "top" /\ pc' \in {"gone", "waiting"}
      \/ pc = "falling" /\ pc' = "asleep"
      \/ pc = "running" /\ pc' \in {"ended", "killing"}
  BY DEF Top, FallAsleep, SeeExit, Interrupt, WorkerStep
<1>5. child # "none" => pc' \in Busy
  BY <1>1, <1>4 DEF CurlInv, Busy
<1>6. pc' \in Busy \cup {"picked"} => pc \in Busy \cup {"picked"}
  BY <1>4 DEF Busy
<1>7. pc' \in {"top", "waiting", "falling", "asleep", "picked", "running", "killing",
               "ended", "settling", "gone"}
  BY <1>4
<1>8. main' \in {"starting", "serving", "closing", "notifying", "joining", "ended"}
  BY <1>1, <1>2 DEF TypeOK
<1>9. {timedOut', signalled', stopping', missed'} \subseteq {0, 1}
  BY <1>1, <1>2, <1>3 DEF TypeOK
<1> QED BY <1>2, <1>5, <1>6, <1>7, <1>8, <1>9, ThreadStep

\* The main thread from its start to the join, and the signal.
LEMMA MainStep ==
  ASSUME IInv, Main \/ StopServer
  PROVE  IInv'
<1>1. TypeOK /\ CurlInv
  BY DEF IInv
<1>2. /\ ent' = ent /\ req' = req /\ events' = events /\ tasks' = tasks /\ queue' = queue
      /\ cur' = cur /\ child' = child /\ timedOut' = timedOut
  BY DEF Main, StartListening, SetStopping, NotifyAll, Join, StopServer,
         handlerVars, managerVars, workerVars
<1>3. \/ pc' = pc
      \/ pc = "asleep" /\ pc' = "waiting"
  BY DEF Main, StartListening, SetStopping, NotifyAll, Join, StopServer, workerVars
<1>4. main' \in {main, "serving", "closing", "notifying", "joining", "ended"}
  BY DEF Main, StartListening, SetStopping, NotifyAll, Join, StopServer
<1>5. signalled' \in {signalled, 1} /\ stopping' \in {stopping, 1} /\ missed' \in {missed, 1}
  BY DEF Main, StartListening, SetStopping, NotifyAll, Join, StopServer
<1>6. child # "none" => pc' \in Busy
  BY <1>1, <1>3 DEF CurlInv, Busy
<1>7. pc' \in Busy \cup {"picked"} => pc \in Busy \cup {"picked"}
  BY <1>3 DEF Busy
<1>8. pc' \in {"top", "waiting", "falling", "asleep", "picked", "running", "killing",
               "ended", "settling", "gone"}
  BY <1>1, <1>3 DEF TypeOK
<1>9. main' \in {"starting", "serving", "closing", "notifying", "joining", "ended"}
  BY <1>1, <1>4 DEF TypeOK
<1>10. {timedOut', signalled', stopping', missed'} \subseteq {0, 1}
  BY <1>1, <1>2, <1>5 DEF TypeOK
<1> QED BY <1>2, <1>6, <1>7, <1>8, <1>9, <1>10, ThreadStep

CurType == [id : 0 .. MaxTasks, w : 0 .. MaxWriters, k : 0 .. MaxSuffix, got : 0 .. Full]

\* The download in hand as the worker sets it.
LEMMA CurWithId ==
  ASSUME NEW i \in Tasks
  PROVE  /\ [NoTask EXCEPT !.id = i] \in CurType
         /\ [NoTask EXCEPT !.id = i].id = i
         /\ [NoTask EXCEPT !.id = i].w = 0 /\ [NoTask EXCEPT !.id = i].got = 0
<1>1. i \in 0 .. MaxTasks
  BY Bounds DEF Tasks
<1>2. [NoTask EXCEPT !.id = i] = [id |-> i, w |-> 0, k |-> 0, got |-> 0]
  BY DEF NoTask
<1> QED BY <1>1, <1>2, Bounds DEF CurType

\* The download in hand with its file.
LEMMA CurWithFile ==
  ASSUME NEW i \in Tasks, NEW w \in Writers, NEW k \in 0 .. MaxSuffix
  PROVE  [id |-> i, w |-> w, k |-> k, got |-> 0] \in CurType
BY Bounds DEF CurType, Tasks, Writers

\* A sequence whose status is set somewhere is one of statuses.
LEMMA StatusSet ==
  ASSUME NEW S, NEW s \in Seq(S), NEW i, NEW v \in S
  PROVE  [s EXCEPT ![i] = v] \in Seq(S)
<1>1. CASE i \in 1 .. Len(s)
  BY <1>1, ExceptSeq
<1>2. CASE i \notin 1 .. Len(s)
  <2>1. [s EXCEPT ![i] = v] = s
    <3>1. DOMAIN s = 1 .. Len(s) /\ s = [j \in DOMAIN s |-> s[j]]
      OBVIOUS
    <3> QED BY <1>2, <3>1
  <2> QED BY <2>1
<1> QED BY <1>1, <1>2

\* No download is in hand.
LEMMA NoTaskType == NoTask \in CurType /\ NoTask.w = 0 /\ NoTask.got = 0
BY Bounds DEF NoTask, CurType

\* The fields of the download in hand.
LEMMA CurIds ==
  ASSUME TypeOK
  PROVE  cur.id \in 0 .. MaxTasks /\ cur.k \in 0 .. MaxSuffix /\ cur.got \in 0 .. Full
BY DEF TypeOK

\* The worker tests its queue and takes the first id.
LEMMA TestStep ==
  ASSUME IInv, Test
  PROVE  IInv'
<1>1. TypeOK /\ TreeOK /\ HandlerInv /\ WritersApart /\ CurlInv
  BY DEF IInv, TypeOK
<1>2. /\ ent' = ent /\ req' = req /\ events' = events /\ child' = child /\ timedOut' = timedOut
      /\ main' = main /\ signalled' = signalled /\ stopping' = stopping /\ missed' = missed
  BY DEF Test, handlerVars, mainVars
<1>3. pc = "waiting" /\ child = "none"
  BY <1>1 DEF Test, CurlInv
<1>4. CASE pc' \in {"gone", "falling"} /\ UNCHANGED <<managerVars, cur>>
  <2>1. tasks' = tasks /\ queue' = queue /\ cur' = cur
    BY <1>4 DEF managerVars
  <2>2. pc' \notin Busy \cup {"picked"}
    BY <1>4 DEF Busy
  <2>3. {timedOut', signalled', stopping', missed'} \subseteq {0, 1}
    BY <1>1, <1>2 DEF TypeOK
  <2>4. main' \in {"starting", "serving", "closing", "notifying", "joining", "ended"}
    BY <1>1, <1>2 DEF TypeOK
  <2> QED BY <1>2, <1>3, <1>4, <2>1, <2>2, <2>3, <2>4, ThreadStep
<1>5. CASE /\ queue # <<>>
           /\ pc' = "picked"
           /\ queue' = Tail(queue)
           /\ tasks' = [tasks EXCEPT ![Head(queue)] = "running"]
           /\ cur' = [NoTask EXCEPT !.id = Head(queue)]
  <2>1. queue \in Seq(Tasks) /\ Len(queue) <= QueueLimit
    BY <1>1 DEF TypeOK
  <2>2. Head(queue) \in Tasks /\ Tail(queue) \in Seq(Tasks) /\ Len(Tail(queue)) <= QueueLimit
    BY <1>5, <2>1, Bounds
  <2>3. cur'.id = Head(queue) /\ cur'.w = 0 /\ cur'.got = 0 /\ cur' \in CurType
    BY <1>5, <2>2, CurWithId
  <2>4. tasks' \in Seq({"queued", "running", "completed", "failed"})
    <3>1. tasks \in Seq({"queued", "running", "completed", "failed"})
      BY <1>1 DEF TypeOK
    <3>2. [tasks EXCEPT ![Head(queue)] = "running"] \in
            Seq({"queued", "running", "completed", "failed"})
      BY <3>1, StatusSet
    <3> QED BY <1>5, <3>2
  <2>5. TypeOK'
    BY <1>1, <1>2, <1>5, <2>2, <2>3, <2>4 DEF TypeOK, TreeOK, CurType
  <2>6. Shuffled
    BY <1>1, <1>2, SameTree
  <2>7. TempsStay
    BY <2>6, ShuffledStay
  <2>8. \A h \in Handlers : Reads(h)
    BY <1>2 DEF Reads
  <2>9. HandlerInv' /\ WritersApart'
    BY <1>1, <2>3, <2>7, <2>8, HandlersKept, ApartKept
  <2>10. NamesInv'
    BY <2>6, ShuffledNames DEF IInv
  <2>11. CurlInv'
    BY <1>2, <1>3, <1>5, <2>2, <2>3 DEF CurlInv
  <2> QED BY <2>5, <2>9, <2>10, <2>11 DEF IInv
<1>6. \/ pc' \in {"gone", "falling"} /\ UNCHANGED <<managerVars, cur>>
      \/ /\ queue # <<>>
         /\ pc' = "picked"
         /\ queue' = Tail(queue)
         /\ tasks' = [tasks EXCEPT ![Head(queue)] = "running"]
         /\ cur' = [NoTask EXCEPT !.id = Head(queue)]
  BY DEF Test
<1> QED BY <1>4, <1>5, <1>6

\* Curl begins a file of its own, and no handler writes it.
LEMMA StartTransferStep ==
  ASSUME IInv, StartTransfer
  PROVE  IInv'
<1>1. TypeOK /\ TreeOK /\ NamesInv /\ HandlerInv /\ WritersApart /\ CurlInv
  BY DEF IInv, TypeOK
<1>2. PICK k \in 0 .. MaxSuffix, w \in Writers :
        /\ NewWriter(w)
        /\ cur' = [id |-> cur.id, w |-> w, k |-> k, got |-> 0]
        /\ ent' = [ent EXCEPT ![Root][DlTemp(k, cur.id)] = NewFile(w)]
  BY DEF StartTransfer
<1> DEFINE n == DlTemp(k, cur.id)
<1>3. cur.id \in Tasks
  BY <1>1 DEF StartTransfer, WorkerStep, CurlInv
<1>4. n \in TempNames /\ \A v \in Writers : n # UpTemp(v)
  BY <1>3, NamesOf, TempApart
<1>5. /\ cur' \in CurType
      /\ cur'.id = cur.id /\ cur'.w = w /\ cur'.k = k /\ cur'.got = 0
  BY <1>2, <1>3, CurWithFile
<1>6. ent' = [ent EXCEPT ![Root][n] = NewFile(w)]
  BY <1>2
<1> HIDE DEF n
<1>7. /\ TreeOK' /\ NamesInv' /\ Sized(ent', w, 0)
      /\ \A v \in Writers \ {w} : \A j : Sized(ent, v, j) => Sized(ent', v, j)
  <2> DEFINE a == Root
  <2>1. a \in Dirs /\ ent' = [ent EXCEPT ![a][n] = NewFile(w)]
    BY <1>6, Bounds
  <2> HIDE DEF a
  <2>2. /\ TreeOK' /\ NamesInv' /\ Sized(ent', w, 0)
        /\ \A v \in Writers \ {w} : \A j : Sized(ent, v, j) => Sized(ent', v, j)
    <3>1. NewWriter(w) /\ \A v \in Writers : n = UpTemp(v) => v = w
      BY <1>2, <1>4
    <3> QED BY <1>1, <1>4, <2>1, <3>1, NewFileTree
  <2> QED BY <2>2 DEF a
<1>8. /\ req' = req /\ events' = events /\ tasks' = tasks /\ queue' = queue
      /\ pc' = "running" /\ child' = "running" /\ timedOut' = 0
      /\ main' = main /\ signalled' = signalled /\ stopping' = stopping /\ missed' = missed
  BY DEF StartTransfer, WorkerStep, handlerVars, managerVars, mainVars
<1>9. TypeOK'
  BY <1>1, <1>5, <1>7, <1>8 DEF TypeOK, CurType
<1>10. \A h \in Handlers : req[h].w # w
  BY <1>2 DEF NewWriter, InUse
<1>11. HandlerInv'
  BY <1>1, <1>7, <1>8, <1>10 DEF HandlerInv, Receives
<1>12. WritersApart'
  BY <1>1, <1>5, <1>8, <1>10 DEF WritersApart, Receives
<1>13. CurlInv'
  BY <1>3, <1>5, <1>7, <1>8 DEF CurlInv
<1> QED BY <1>7, <1>9, <1>11, <1>12, <1>13 DEF IInv

\* The worker has seen how curl ended, or ends it.
LEMMA ReapStep ==
  ASSUME IInv, Reap
  PROVE  IInv'
<1>1. TypeOK /\ TreeOK /\ NamesInv /\ HandlerInv /\ WritersApart /\ CurlInv
  BY DEF IInv, TypeOK
<1>2. /\ ent' = ent /\ req' = req /\ events' = events /\ tasks' = tasks /\ queue' = queue
      /\ pc = "killing" /\ pc' = "ended" /\ cur' = cur /\ timedOut' = timedOut
      /\ main' = main /\ signalled' = signalled /\ stopping' = stopping /\ missed' = missed
  BY DEF Reap, WorkerStep, handlerVars, managerVars, mainVars
<1>3. \/ child' = child
      \/ child = "running" /\ child' = "killed"
  BY DEF Reap
<1>4. TypeOK'
  BY <1>1, <1>2, <1>3 DEF TypeOK, TreeOK
<1>5. Shuffled
  BY <1>1, <1>2, SameTree
<1>6. TempsStay
  BY <1>5, ShuffledStay
<1>7. NamesInv'
  BY <1>1, <1>5, ShuffledNames
<1>8. \A h \in Handlers : Reads(h)
  BY <1>2 DEF Reads
<1>9. HandlerInv' /\ WritersApart'
  BY <1>1, <1>2, <1>6, <1>8, HandlersKept, ApartKept
<1>10. child' \in Transfers => child \in Transfers
  BY <1>3 DEF Transfers
<1>11. child' = "done" => child = "done"
  BY <1>3
<1>12. pc' \in Busy /\ pc \in Busy
  BY <1>2 DEF Busy
<1>13. CurlInv'
  BY <1>1, <1>2, <1>6, <1>10, <1>11, <1>12, CurlKept
<1> QED BY <1>4, <1>7, <1>9, <1>13 DEF IInv

\* The worker publishes what curl wrote to the end, or nothing.
LEMMA SettleStep ==
  ASSUME IInv, Settle
  PROVE  IInv'
<1>1. TypeOK /\ TreeOK /\ NamesInv /\ HandlerInv /\ WritersApart /\ CurlInv
  BY DEF IInv, TypeOK
<1>2. /\ req' = req /\ events' = events /\ tasks' = tasks /\ queue' = queue
      /\ pc = "ended" /\ pc' = "settling" /\ cur' = cur /\ timedOut' = timedOut
      /\ main' = main /\ signalled' = signalled /\ stopping' = stopping /\ missed' = missed
  BY DEF Settle, WorkerStep, handlerVars, managerVars, mainVars
<1>3. cur.id \in Tasks /\ cur.k \in 0 .. MaxSuffix
  BY <1>1, <1>2, CurIds DEF CurlInv
<1>4. Temporary \in TempNames /\ Target(cur.k) \in FileNames
  BY <1>3, NamesOf DEF Temporary
<1>5. TreeOK' /\ NamesInv' /\ TempsStay /\ child' \in {child, "published"}
  <2>1. CASE Succeeded /\ stopping = 0 /\ CanPublish
    <3>1. ent' = Published(<<>>, Temporary, <<>>, Target(cur.k), cur.w) /\ child' = "published"
      BY <2>1 DEF Settle
    <3>2. CanRename(<<>>, Temporary, <<>>, Target(cur.k))
      BY <2>1 DEF CanPublish
    <3>3. Sized(ent, cur.w, Full)
      BY <1>1, <2>1 DEF Succeeded, CurlInv
    <3>4. <<>> \in Paths
      BY NamesOf
    <3> QED BY <1>1, <1>4, <3>1, <3>2, <3>3, <3>4, PublishedTree
  <2>2. CASE ~(Succeeded /\ stopping = 0 /\ CanPublish)
    <3>1. UNCHANGED <<ent, child>>
      BY <2>2 DEF Settle
    <3>2. Shuffled
      BY <1>1, <3>1, SameTree
    <3>3. TempsStay
      BY <3>2, ShuffledStay
    <3>4. NamesInv'
      BY <1>1, <3>2, ShuffledNames
    <3> QED BY <1>1, <3>1, <3>3, <3>4 DEF TreeOK
  <2> QED BY <2>1, <2>2
<1>6. TypeOK'
  BY <1>1, <1>2, <1>5 DEF TypeOK
<1>7. \A h \in Handlers : Reads(h)
  BY <1>2 DEF Reads
<1>8. HandlerInv' /\ WritersApart'
  BY <1>1, <1>2, <1>5, <1>7, HandlersKept, ApartKept
<1>9. child' \in Transfers => child \in Transfers
  BY <1>5 DEF Transfers
<1>10. child' = "done" => child = "done"
  BY <1>5
<1>11. pc' \in Busy /\ pc \in Busy
  BY <1>2 DEF Busy
<1>12. CurlInv'
  BY <1>1, <1>2, <1>5, <1>9, <1>10, <1>11, CurlKept
<1> QED BY <1>5, <1>6, <1>8, <1>12 DEF IInv

\* The status of a download, and the end of what failed.
LEMMA FinishStep ==
  ASSUME IInv, Finish
  PROVE  IInv'
<1>1. TypeOK /\ TreeOK /\ NamesInv /\ HandlerInv /\ WritersApart /\ CurlInv
  BY DEF IInv, TypeOK
<1>2. /\ req' = req /\ events' = events /\ queue' = queue
      /\ pc = "settling" /\ pc' = "top" /\ cur' = NoTask /\ child' = "none" /\ timedOut' = 0
      /\ main' = main /\ signalled' = signalled /\ stopping' = stopping /\ missed' = missed
  BY DEF Finish, WorkerStep, handlerVars, mainVars
<1>3. cur.id \in Tasks /\ cur.k \in 0 .. MaxSuffix
  BY <1>1, <1>2, CurIds DEF CurlInv
<1>4. Temporary \in Names /\ <<>> \in Paths
  BY <1>3, NamesOf, NamesApart DEF Temporary
<1>5. /\ ent' = ent \/ ent' = Removed(<<>>, Temporary)
      /\ \E s \in {"completed", "failed"} : tasks' = [tasks EXCEPT ![cur.id] = s]
  BY DEF Finish
<1>6. Shuffled
  BY <1>1, <1>4, <1>5, RemovedTree, SameTree
<1>7. TempsStay
  BY <1>6, ShuffledStay
<1>8. NamesInv'
  BY <1>1, <1>6, ShuffledNames
<1>9. tasks' \in Seq({"queued", "running", "completed", "failed"})
  <2>1. tasks \in Seq({"queued", "running", "completed", "failed"})
    BY <1>1 DEF TypeOK
  <2>2. \A v \in {"completed", "failed"} :
          [tasks EXCEPT ![cur.id] = v] \in Seq({"queued", "running", "completed", "failed"})
    BY <2>1, StatusSet
  <2> QED BY <1>5, <2>2
<1>10. TypeOK'
  <2>1. TreeOK'
    BY <1>6 DEF Shuffled
  <2> QED BY <1>1, <1>2, <1>9, <2>1, NoTaskType DEF TypeOK, CurType
<1>11. \A h \in Handlers : Reads(h)
  BY <1>2 DEF Reads
<1>12. HandlerInv' /\ WritersApart'
  BY <1>1, <1>2, <1>7, <1>11, NoTaskType, HandlersKept, ApartKept
<1>13. CurlInv'
  BY <1>2 DEF CurlInv
<1> QED BY <1>8, <1>10, <1>12, <1>13 DEF IInv

\* Curl writes a piece of its own file only.
LEMMA TransferGrowsStep ==
  ASSUME IInv, TransferGrows
  PROVE  IInv'
<1> DEFINE w == cur.w
           g == cur.got
<1>1. TypeOK /\ TreeOK /\ NamesInv /\ HandlerInv /\ WritersApart /\ CurlInv
  BY DEF IInv, TypeOK
<1>2. /\ req' = req /\ events' = events /\ tasks' = tasks /\ queue' = queue
      /\ pc' = pc /\ child = "running" /\ child' = "running" /\ timedOut' = timedOut
      /\ main' = main /\ signalled' = signalled /\ stopping' = stopping /\ missed' = missed
  BY DEF TransferGrows, handlerVars, managerVars, mainVars
<1>3. /\ w \in Writers /\ Sized(ent, w, g) /\ g \in 0 .. Full /\ g < Full
      /\ cur.id \in Tasks
      /\ pc \in Busy
  BY <1>1, <1>2, CurIds DEF CurlInv, TransferGrows, Busy
<1>4. /\ cur' \in CurType
      /\ cur'.id = cur.id /\ cur'.w = w /\ cur'.k = cur.k /\ cur'.got = g + 1
  <2>1. cur \in CurType
    BY <1>1 DEF TypeOK, CurType
  <2>2. cur' = [cur EXCEPT !.got = @ + 1]
    BY DEF TransferGrows
  <2> QED BY <1>3, <2>1, <2>2, Bounds DEF CurType
<1>5. ent' = Grown(w)
  BY DEF TransferGrows
<1> HIDE DEF w, g
<1>6. /\ TreeOK' /\ NamesInv' /\ Sized(ent', w, g + 1)
      /\ \A v \in Writers \ {w} : \A j : Sized(ent, v, j) => Sized(ent', v, j)
      /\ \A d \in Dirs : \A n \in Names :
           ent'[d][n].kind = ent[d][n].kind /\ ent'[d][n].ref = ent[d][n].ref
  BY <1>1, <1>3, <1>5, GrownTree
<1>7. TypeOK'
  BY <1>1, <1>2, <1>4, <1>6 DEF TypeOK, CurType
<1>8. HandlerInv'
  BY <1>1, <1>2, <1>6 DEF HandlerInv, WritersApart, Receives, w
<1>9. WritersApart'
  BY <1>1, <1>2, <1>4 DEF WritersApart, Receives, w
<1>10. CurlInv'
  BY <1>2, <1>3, <1>4, <1>6 DEF CurlInv, Busy
<1> QED BY <1>6, <1>7, <1>8, <1>9, <1>10 DEF IInv

\* Curl ends, well only with the last piece.
LEMMA TransferEndsStep ==
  ASSUME IInv, TransferEnds
  PROVE  IInv'
<1>1. TypeOK /\ TreeOK /\ NamesInv /\ HandlerInv /\ WritersApart /\ CurlInv
  BY DEF IInv, TypeOK
<1>2. /\ ent' = ent /\ req' = req /\ events' = events /\ tasks' = tasks /\ queue' = queue
      /\ pc' = pc /\ cur' = cur /\ timedOut' = timedOut
      /\ main' = main /\ signalled' = signalled /\ stopping' = stopping /\ missed' = missed
  BY DEF TransferEnds, handlerVars, managerVars, mainVars
<1>3. /\ child = "running" /\ child' \in {"done", "failed"}
      /\ child' = "done" => cur.got = Full
  BY DEF TransferEnds
<1>4. TypeOK'
  BY <1>1, <1>2, <1>3 DEF TypeOK, TreeOK
<1>5. Shuffled
  BY <1>1, <1>2, SameTree
<1>6. TempsStay
  BY <1>5, ShuffledStay
<1>7. NamesInv'
  BY <1>1, <1>5, ShuffledNames
<1>8. \A h \in Handlers : Reads(h)
  BY <1>2 DEF Reads
<1>9. HandlerInv' /\ WritersApart'
  BY <1>1, <1>2, <1>6, <1>8, HandlersKept, ApartKept
<1>10. child \in Transfers
  BY <1>3 DEF Transfers
<1>11. pc' \in Busy /\ pc \in Busy
  BY <1>1, <1>2, <1>3 DEF CurlInv, Busy
<1>12. CurlInv'
  BY <1>1, <1>2, <1>3, <1>6, <1>10, <1>11, CurlKept
<1> QED BY <1>4, <1>7, <1>9, <1>12 DEF IInv

\* The daemon dies with its curl and starts again.
LEMMA CrashStep ==
  ASSUME IInv, Crash
  PROVE  IInv'
<1>1. TypeOK /\ TreeOK /\ NamesInv /\ HandlerInv
  BY DEF IInv, TypeOK
<1>2. /\ ent' = Strayed(ent, Dirs \X TempNames) /\ req' = [h \in Handlers |-> Idle]
      /\ tasks' = <<>> /\ queue' = <<>>
      /\ pc' = "top" /\ cur' = NoTask /\ child' = "none" /\ timedOut' = 0
      /\ main' = "starting" /\ signalled' = 0 /\ stopping' = 0 /\ missed' = 0
  BY DEF Crash
<1>3. Shuffled
  BY <1>1, <1>2, CrashedTree
<1>4. TreeOK' /\ NamesInv'
  BY <1>1, <1>3, ShuffledNames DEF Shuffled
<1>5. \A h \in Handlers : req'[h].op = "idle"
  BY <1>2, IdleType
<1>6. HandlerInv' /\ WritersApart'
  BY <1>5 DEF HandlerInv, WritersApart, Receives
<1>7. CurlInv'
  BY <1>2 DEF CurlInv
<1>8. req' \in [Handlers -> ReqType]
  BY <1>2, IdleType
<1>9. events' \in 0 .. MaxEvents
  <2>1. events' = events + 1 /\ events < MaxEvents /\ events \in 0 .. MaxEvents
    BY <1>1 DEF TypeOK, Crash
  <2> QED BY <2>1, Bounds
<1>10. /\ tasks' \in Seq({"queued", "running", "completed", "failed"})
       /\ queue' \in Seq(Tasks) /\ Len(queue') <= QueueLimit
  BY <1>2, Bounds
<1>11. TypeOK'
  BY <1>2, <1>4, <1>8, <1>9, <1>10, NoTaskType DEF TypeOK, CurType, ReqType
<1> QED BY <1>4, <1>6, <1>7, <1>11 DEF IInv

-------------------------------------------------------------------------------
(* The invariant, and what follows from it. *)

\* An empty storage satisfies the invariant.
LEMMA InitHolds ==
  ASSUME Init
  PROVE  IInv
<1>1. \A d \in Dirs : \A n \in Names :
        \/ ent[d][n] = Free
        \/ n \in DirNames /\ ent[d][n] \in {DirEntry(2), DirEntry(3)}
  BY NamesOf DEF Init
<1>2. \A c \in {2, 3} :
        DirEntry(c) \in EntryType /\ ~IsFile(DirEntry(c)) /\ DirEntry(c).ref \in Dirs
  BY Bounds DEF DirEntry, EntryType, IsFile
<1>3. \A d \in Dirs : \A n \in Names : ent[d][n] \in EntryType /\ ~IsFile(ent[d][n])
  BY <1>1, <1>2, FreeIsNothing
<1>4. TreeOK
  <2>1. ent = [d \in Dirs |-> ent[d]] /\ \A d \in Dirs : ent[d] = [n \in Names |-> ent[d][n]]
    BY DEF Init
  <2>2. \A d \in Dirs : ent[d] \in [Names -> EntryType]
    BY <1>3, <2>1
  <2> QED BY <2>1, <2>2 DEF TreeOK
<1>5. NamesInv
  <2>1. \A d \in Dirs : \A n \in TempNames : ~IsDir(ent[d][n])
    BY <1>1, NamesApart, FreeIsNothing
  <2>2. \A d \in Dirs : \A n \in Names : IsDir(ent[d][n]) => ent[d][n].ref \in Dirs
    BY <1>1, <1>2, FreeIsNothing
  <2> QED BY <1>3, <2>1, <2>2, NamesApart, TempApart DEF NamesInv
<1>6. \A h \in Handlers : req[h].op = "idle"
  BY IdleType DEF Init
<1>7. HandlerInv /\ WritersApart
  BY <1>6 DEF HandlerInv, WritersApart, Receives
<1>8. CurlInv
  BY DEF Init, CurlInv
<1>9. req \in [Handlers -> ReqType]
  BY IdleType DEF Init
<1>10. /\ events \in 0 .. MaxEvents
       /\ tasks \in Seq({"queued", "running", "completed", "failed"})
       /\ queue \in Seq(Tasks) /\ Len(queue) <= QueueLimit
  BY Bounds DEF Init
<1>11. TypeOK
  BY <1>4, <1>9, <1>10, NoTaskType DEF TypeOK, CurType, ReqType, Init
<1> QED BY <1>5, <1>7, <1>8, <1>11 DEF IInv

\* Every step keeps the invariant.
LEMMA NextHolds ==
  ASSUME IInv, [Next]_vars
  PROVE  IInv'
<1>1. ASSUME NEW h \in Handlers, HandlerStep(h)
      PROVE  IInv'
  BY <1>1, ReceiveStep, PublishStep, UploadFailsStep, MoveStep, NotifyOneStep DEF HandlerStep
<1>2. ASSUME NEW h \in Handlers, Request(h)
      PROVE  IInv'
  BY <1>2, StartUploadStep, CreateDirectoryStep, RemoveStep, CheckMoveStep, EnqueueStep
     DEF Request
<1>3. CASE Worker
  BY <1>3, WaitingStep, TestStep, StartTransferStep, ReapStep, SettleStep, FinishStep DEF Worker
<1>4. CASE Curl
  BY <1>4, TransferGrowsStep, TransferEndsStep DEF Curl
<1>5. CASE Main \/ StopServer
  BY <1>5, MainStep
<1>6. CASE Crash
  BY <1>6, CrashStep
<1>7. CASE UNCHANGED vars
  BY <1>7 DEF vars, handlerVars, managerVars, workerVars, mainVars, IInv, TypeOK, TreeOK,
       NamesInv, HandlerInv, WritersApart, CurlInv, Receives, Temporary
<1> QED BY <1>1, <1>2, <1>3, <1>4, <1>5, <1>6, <1>7 DEF Next

\* The invariant holds of every behaviour, however requests, transfers, crashes
\* and the stop interleave.
THEOREM Invariance == Spec => []IInv
<1>1. Init => IInv
  BY InitHolds
<1>2. IInv /\ [Next]_vars => IInv'
  BY NextHolds
<1> QED BY <1>1, <1>2, PTL DEF Spec

\* Every variable keeps its type: the tree has entries and sizes in their bounds,
\* the queue keeps its limit, and no writer passes the end of a file.
THEOREM TypeCorrect == Spec => []TypeOK
<1>1. IInv => TypeOK
  BY DEF IInv
<1> QED BY <1>1, Invariance, PTL

\* No user ever sees an unfinished file under a name of its own: what lies under
\* such a name was whole when the upload or the download published it, whatever
\* was moved, deleted or restarted meanwhile, unless the download published another
\* file than its own, a leftover of an earlier daemon with the same name.
THEOREM WholeFiles == Spec => []VisibleIsWhole
<1>1. IInv => VisibleIsWhole
  BY DEF IInv, NamesInv, VisibleIsWhole
<1> QED BY <1>1, Invariance, PTL

-------------------------------------------------------------------------------
(* Where the temporary files are. *)

Unmarked(t, d, n) == IsFile(t[d][n]) /\ t[d][n].stray = 0

\* The file is the one a handler receives, where the path of its request leads to.
ByUpload(h, d, n) ==
  Receives(h) /\ n = UpTemp(req[h].w) /\ \E p \in Paths : req[h].src = p /\ Walk(p) = d

\* The file is the one curl writes.
ByCurl(d, n) == cur.w \in Writers /\ n = Temporary /\ d = Root /\ ent[d][n].ref = cur.w

\* An unmarked temporary file lies where its writer looks for it; so the writer that
\* ends without publishing it removes it.
Placed ==
  \A d \in Dirs : \A n \in TempNames :
    Unmarked(ent, d, n) => (\E h \in Handlers : ByUpload(h, d, n)) \/ ByCurl(d, n)

\* Only a worker that is busy has a writer, and a published file is gone from where
\* it was written.
CurlDone ==
  /\ cur.w # 0 => pc \in Busy
  /\ child = "published" => ~Unmarked(ent, Root, Temporary)

PlacedInv == IInv /\ Placed /\ CurlDone

\* One gets from directory x to directory d in at most one step.
Leads(x, d) == x = d \/ \E b \in DirNames : IsDir(ent[x][b]) /\ ent[x][b].ref = d

\* A path leads elsewhere only when an entry on its way has changed.
LEMMA WalkChanges ==
  ASSUME NEW p \in Paths, Walk(p) # NoDir, Walk(p)' # Walk(p), NamesInv
  PROVE  \E c \in Dirs : \E m \in DirNames :
           IsDir(ent[c][m]) /\ ent'[c][m] # ent[c][m] /\ Leads(ent[c][m].ref, Walk(p))
<1>1. CASE p = <<>>
  <2>1. Walk(p) = Root /\ Walk(p)' = Root
    BY <1>1 DEF Walk
  <2> QED BY <2>1
<1>2. CASE \E a \in DirNames : p = <<a>>
  <2>1. PICK a \in DirNames : p = <<a>>
    BY <1>2
  <2>2. Len(p) = 1 /\ p[1] = a
    BY <2>1
  <2>3. Walk(p) = Child(Root, a) /\ Walk(p)' = Child(Root, a)'
    BY <2>2 DEF Walk
  <2>4. IsDir(ent[Root][a]) /\ Walk(p) = ent[Root][a].ref
    BY <2>3 DEF Child
  <2>5. ent'[Root][a] # ent[Root][a]
    BY <2>3 DEF Child
  <2> QED BY <2>4, <2>5, Bounds DEF Leads
<1>3. CASE \E a \in DirNames, b \in DirNames : p = <<a, b>>
  <2>1. PICK a \in DirNames, b \in DirNames : p = <<a, b>>
    BY <1>3
  <2>2. Len(p) = 2 /\ p[1] = a /\ p[2] = b
    BY <2>1
  <2>3. Walk(p) = Child(Child(Root, a), b) /\ Walk(p)' = Child(Child(Root, a), b)'
    BY <2>2 DEF Walk
  <2> DEFINE c == Child(Root, a)
  <2>4. c # NoDir /\ IsDir(ent[c][b]) /\ Walk(p) = ent[c][b].ref
    BY <2>3 DEF Child
  <2>5. IsDir(ent[Root][a]) /\ c = ent[Root][a].ref
    BY <2>4 DEF Child
  <2>6. c \in Dirs
    BY <2>5, Bounds, NamesApart DEF NamesInv
  <2>7. CASE ent'[Root][a] # ent[Root][a]
    <3>1. Leads(ent[Root][a].ref, Walk(p))
      BY <2>4, <2>5 DEF Leads
    <3> QED BY <2>5, <2>7, <3>1, Bounds
  <2>8. CASE ent'[Root][a] = ent[Root][a]
    <3>1. c' = c
      BY <2>8 DEF Child
    <3>2. ent'[c][b] # ent[c][b]
      BY <2>3, <3>1 DEF Child
    <3> QED BY <2>4, <2>6, <3>2 DEF Leads
  <2> QED BY <2>7, <2>8
<1> QED BY <1>1, <1>2, <1>3 DEF Paths

\* Below a directory is all that can be reached from it.
LEMMA BelowClosed ==
  ASSUME NamesInv, NEW x \in Dirs
  PROVE  /\ x \in Below(x)
         /\ \A c \in Below(x) : \A m \in DirNames : IsDir(ent[c][m]) => ent[c][m].ref \in Below(x)
<1>1. x \in Below(x)
  BY DEF Below
<1>2. ASSUME NEW c \in Below(x), NEW m \in DirNames, IsDir(ent[c][m])
      PROVE  ent[c][m].ref \in Below(x)
  <2>1. c \in Dirs /\ ent[c][m].ref \in Dirs
    BY <1>2, NamesApart DEF Below, NamesInv
  <2>2. ASSUME NEW S \in SUBSET Dirs, x \in S, Inside(S) \subseteq S
        PROVE  ent[c][m].ref \in S
    <3>1. c \in S
      BY <2>2 DEF Below
    <3>2. <<c, m>> \in {y \in S \X DirNames : IsDir(ent[y[1]][y[2]])}
      BY <1>2, <3>1
    <3>3. ent[c][m].ref \in Inside(S)
      BY <3>2 DEF Inside
    <3> QED BY <2>2, <3>3
  <2> QED BY <2>1, <2>2 DEF Below
<1> QED BY <1>1, <1>2

\* So is what is one step further.
LEMMA LeadsBelow ==
  ASSUME NamesInv, NEW x \in Dirs, NEW c \in Below(x), NEW d, Leads(c, d)
  PROVE  d \in Below(x)
BY BelowClosed DEF Leads

\* The file n of directory d was there and unmarked before, and the paths that led to
\* its directory still do.
FileStays(d, n) ==
  /\ Unmarked(ent, d, n) /\ ent'[d][n].ref = ent[d][n].ref
  /\ \A p \in Paths : Walk(p) = d => Walk(p)' = d

\* So it is of every file that is unmarked.
FilesStay == \A d \in Dirs : \A n \in TempNames : Unmarked(ent', d, n) => FileStays(d, n)

\* Where no entry of a directory changes, paths lead to where they led.
LEMMA SameDirs ==
  ASSUME NamesInv, \A c \in Dirs : \A m \in DirNames : ent'[c][m] = ent[c][m]
  PROVE  \A p \in Paths : Walk(p) # NoDir => Walk(p)' = Walk(p)
BY WalkChanges

\* Then the files stay if no temporary file is new and no mark is lost.
LEMMA StayFiles ==
  ASSUME NamesInv, \A c \in Dirs : \A m \in DirNames : ent'[c][m] = ent[c][m],
         \A d \in Dirs : \A n \in TempNames : Unmarked(ent', d, n) =>
           Unmarked(ent, d, n) /\ ent'[d][n].ref = ent[d][n].ref
  PROVE  FilesStay
BY SameDirs, Bounds DEF FilesStay, FileStays

\* A step that leaves the tree alone.
LEMMA SameFiles ==
  ASSUME NamesInv, ent' = ent
  PROVE  FilesStay
BY StayFiles

\* remove(2) of a temporary file.
LEMMA RemovedFile ==
  ASSUME TreeOK, NamesInv, NEW p \in Paths, NEW n \in TempNames, ent' = Removed(p, n)
  PROVE  FilesStay /\ \A d \in Dirs : d = Walk(p) => ~Unmarked(ent', d, n)
<1>1. n \in Names /\ n \notin DirNames
  BY NamesApart
<1>2. CASE Walk(p) = NoDir
  BY <1>2, SameFiles, Bounds DEF Removed
<1>3. CASE Walk(p) # NoDir
  <2> DEFINE a == Walk(p)
  <2>1. a \in Dirs
    BY <1>3, WalkType
  <2>2. ent' = With(ent, a, n, Free)
    BY <1>3 DEF Removed, With
  <2> HIDE DEF a
  <2>3. \A d \in Dirs : \A k \in Names : ent'[d][k] = IF d = a /\ k = n THEN Free ELSE ent[d][k]
    BY <1>1, <2>1, <2>2, FreeIsNothing DEF With, TreeOK
  <2>4. \A c \in Dirs : \A m \in DirNames : ent'[c][m] = ent[c][m]
    BY <1>1, <2>3, NamesApart
  <2>5. \A d \in Dirs : \A k \in TempNames : Unmarked(ent', d, k) =>
          Unmarked(ent, d, k) /\ ent'[d][k].ref = ent[d][k].ref
    BY <2>3, NamesApart, FreeIsNothing DEF Unmarked
  <2>6. FilesStay
    BY <2>4, <2>5, StayFiles
  <2>7. \A d \in Dirs : d = a => ~Unmarked(ent', d, n)
    BY <1>1, <2>3, FreeIsNothing DEF Unmarked
  <2> QED BY <2>6, <2>7 DEF a
<1> QED BY <1>2, <1>3

\* remove_all: where a path has led into what is removed, no file is left.
LEMMA RemovedAllFiles ==
  ASSUME TreeOK, NamesInv, NEW q \in Paths, NEW k \in Names, At(q, k) # Free,
         ent' = RemovedAll(q, k)
  PROVE  FilesStay
<1> DEFINE x == At(q, k).ref
           gone == IF IsDir(At(q, k)) THEN Below(x) ELSE {}
           away(d, m) == d \in gone \/ (d = Walk(q) /\ m = k)
<1>1. \A d \in Dirs : \A m \in Names : ent'[d][m] = IF away(d, m) THEN Free ELSE ent[d][m]
  BY DEF RemovedAll
<1>2. Walk(q) \in Dirs /\ At(q, k) = ent[Walk(q)][k]
  BY AtType
<1>3. IsDir(At(q, k)) => x \in Dirs
  BY <1>2 DEF NamesInv
<1> SUFFICES ASSUME NEW d \in Dirs, NEW n \in TempNames, Unmarked(ent', d, n)
             PROVE  /\ Unmarked(ent, d, n) /\ ent'[d][n].ref = ent[d][n].ref
                    /\ \A p \in Paths : Walk(p) = d => Walk(p)' = d
  BY DEF FilesStay, FileStays
<1>4. d \notin gone /\ ent'[d][n] = ent[d][n]
  BY <1>1, NamesApart, FreeIsNothing DEF Unmarked
<1>5. ASSUME NEW p \in Paths, Walk(p) = d, Walk(p)' # d PROVE FALSE
  <2>1. PICK c \in Dirs, m \in DirNames :
          IsDir(ent[c][m]) /\ ent'[c][m] # ent[c][m] /\ Leads(ent[c][m].ref, d)
    BY <1>5, Bounds, WalkChanges
  <2>2. away(c, m)
    BY <1>1, <2>1, NamesApart
  <2>3. CASE c \in gone
    <3>1. IsDir(At(q, k)) /\ c \in Below(x)
      BY <2>3
    <3>2. ent[c][m].ref \in Below(x)
      BY <1>3, <2>1, <3>1, BelowClosed
    <3>3. d \in Below(x)
      BY <1>3, <2>1, <3>1, <3>2, LeadsBelow
    <3> QED BY <1>4, <3>1, <3>3
  <2>4. CASE c = Walk(q) /\ m = k
    <3>1. IsDir(At(q, k)) /\ ent[c][m].ref = x
      BY <1>2, <2>1, <2>4
    <3>2. x \in Below(x)
      BY <1>3, <3>1, BelowClosed
    <3>3. d \in Below(x)
      BY <1>3, <2>1, <3>1, <3>2, LeadsBelow
    <3> QED BY <1>4, <3>1, <3>3
  <2> QED BY <2>2, <2>3, <2>4
<1> QED BY <1>4, <1>5 DEF Unmarked

\* A move marks the file, or the files in what is moved, and what a directory
\* replaces is empty.
LEMMA MovedFiles ==
  ASSUME TreeOK, NamesInv, NEW p \in Paths, NEW q \in Paths, NEW k \in Names,
         CanRename(p, k, q, k), ent' = Moved(p, k, q)
  PROVE  FilesStay
<1> DEFINE x == At(p, k).ref
           L == IF IsDir(At(p, k)) THEN Below(x) \X TempNames ELSE {<<Walk(q), k>>}
           r == Renamed(p, k, q, k)
<1>1. Walk(q) \in Dirs
  BY WalkType DEF CanRename
<1>2. Walk(p) \in Dirs /\ At(p, k) = ent[Walk(p)][k] /\ At(p, k) \in EntryType
  BY AtType DEF CanRename
<1>3. IsDir(At(p, k)) => x \in Dirs /\ k \notin TempNames
  BY <1>2 DEF NamesInv
<1>4. /\ r \in [Dirs -> [Names -> EntryType]]
      /\ \A d \in Dirs : \A m \in Names :
           r[d][m] = IF d = Walk(p) /\ m = k THEN Free
                     ELSE IF d = Walk(q) /\ m = k THEN ent[Walk(p)][k] ELSE ent[d][m]
  BY <1>1, <1>2, FreeIsNothing DEF Renamed, TreeOK
<1>5. ent' = Strayed(r, L)
  BY DEF Moved
<1> HIDE DEF r, L, x
<1>6. \A d \in Dirs : \A m \in Names :
        ent'[d][m] = IF <<d, m>> \in L /\ m \in TempNames /\ IsFile(r[d][m])
                     THEN [r[d][m] EXCEPT !.stray = 1] ELSE r[d][m]
  <2> DEFINE marked(d, m) == <<d, m>> \in L /\ m \in TempNames /\ IsFile(r[d][m])
             s == [d \in Dirs |-> [m \in Names |->
                     IF marked(d, m) THEN [r[d][m] EXCEPT !.stray = 1] ELSE r[d][m]]]
  <2>1. ent' = s
    BY <1>5 DEF Strayed
  <2> HIDE DEF marked
  <2>2. \A d \in Dirs : \A m \in Names :
          s[d][m] = IF marked(d, m) THEN [r[d][m] EXCEPT !.stray = 1] ELSE r[d][m]
    OBVIOUS
  <2> HIDE DEF s
  <2> QED BY <2>1, <2>2 DEF marked
<1> SUFFICES ASSUME NEW d \in Dirs, NEW n \in TempNames, Unmarked(ent', d, n)
             PROVE  /\ Unmarked(ent, d, n) /\ ent'[d][n].ref = ent[d][n].ref
                    /\ \A s \in Paths : Walk(s) = d => Walk(s)' = d
  BY DEF FilesStay, FileStays
<1>7. <<d, n>> \notin L /\ ent'[d][n] = r[d][n] /\ IsFile(r[d][n])
  <2>1. n \in Names /\ r[d][n] \in EntryType
    BY <1>4, NamesApart
  <2>2. CASE <<d, n>> \in L /\ IsFile(r[d][n])
    <3>1. ent'[d][n] = [r[d][n] EXCEPT !.stray = 1]
      BY <1>6, <2>1, <2>2
    <3>2. ent'[d][n].stray = 1
      BY <2>1, <3>1 DEF EntryType
    <3> QED BY <3>2 DEF Unmarked
  <2>3. CASE ~(<<d, n>> \in L /\ IsFile(r[d][n]))
    <3>1. ent'[d][n] = r[d][n]
      BY <1>6, <2>1, <2>3
    <3> QED BY <2>3, <3>1 DEF Unmarked
  <2> QED BY <2>2, <2>3
<1>8. ent'[d][n] = ent[d][n]
  <2>1. n \in Names
    BY NamesApart
  <2>2. ~(d = Walk(p) /\ n = k)
    BY <1>4, <1>7, <2>1, FreeIsNothing
  <2>3. ~(d = Walk(q) /\ n = k)
    BY <1>3, <1>7 DEF L
  <2> QED BY <1>4, <1>7, <2>1, <2>2, <2>3
<1>9. ASSUME NEW s \in Paths, Walk(s) = d, Walk(s)' # d PROVE FALSE
  <2>1. PICK c \in Dirs, m \in DirNames :
          IsDir(ent[c][m]) /\ ent'[c][m] # ent[c][m] /\ Leads(ent[c][m].ref, d)
    BY <1>9, Bounds, WalkChanges
  <2>2. ent'[c][m] = r[c][m]
    BY <1>6, NamesApart
  <2>3. CASE c = Walk(p) /\ m = k
    <3>1. IsDir(At(p, k)) /\ ent[c][m].ref = x
      BY <1>2, <2>1, <2>3 DEF x
    <3>2. x \in Below(x)
      BY <1>3, <3>1, BelowClosed
    <3>3. d \in Below(x)
      BY <1>3, <2>1, <3>1, <3>2, LeadsBelow
    <3> QED BY <1>7, <3>1, <3>3 DEF L
  <2>4. CASE ~(c = Walk(p) /\ m = k)
    <3>1. c = Walk(q) /\ m = k
      BY <1>4, <2>1, <2>2, <2>4, NamesApart
    <3>2. At(q, k) = ent[c][m] /\ IsDir(At(q, k))
      BY <1>1, <2>1, <3>1, Bounds DEF At
    <3>3. Empty(ent[c][m].ref)
      BY <3>2, FreeIsNothing DEF CanRename, IsFile, IsDir
    <3>4. ent[c][m].ref = d
      BY <2>1, <3>3, NamesApart, FreeIsNothing DEF Leads, Empty
    <3>5. ent[d][n] = Free
      BY <3>3, <3>4, NamesApart DEF Empty
    <3> QED BY <1>8, <3>5, FreeIsNothing DEF Unmarked
  <2> QED BY <2>3, <2>4
<1> QED BY <1>8, <1>9 DEF Unmarked

\* A writer's files grow where they are.
LEMMA GrownFiles ==
  ASSUME TreeOK, NamesInv, NEW w \in Writers, ent' = Grown(w)
  PROVE  FilesStay
<1> DEFINE mine(d, n) == IsFile(ent[d][n]) /\ ent[d][n].ref = w
           s == [d \in Dirs |-> [n \in Names |->
                  IF mine(d, n) THEN [ent[d][n] EXCEPT !.size = @ + 1] ELSE ent[d][n]]]
<1>1. ent' = s
  BY DEF Grown
<1>2. \A d \in Dirs : \A n \in DirNames : ~mine(d, n)
  BY DEF NamesInv
<1> HIDE DEF mine
<1>3. \A d \in Dirs : \A n \in Names :
        s[d][n] = IF mine(d, n) THEN [ent[d][n] EXCEPT !.size = @ + 1] ELSE ent[d][n]
  OBVIOUS
<1> HIDE DEF s
<1>4. \A d \in Dirs : \A n \in DirNames : ent'[d][n] = ent[d][n]
  BY <1>1, <1>2, <1>3, NamesApart
<1>5. \A e \in EntryType : /\ [e EXCEPT !.size = @ + 1].kind = e.kind
                           /\ [e EXCEPT !.size = @ + 1].ref = e.ref
                           /\ [e EXCEPT !.size = @ + 1].stray = e.stray
  BY DEF EntryType
<1>6. ASSUME NEW d \in Dirs, NEW n \in TempNames
      PROVE  ent'[d][n].kind = ent[d][n].kind /\ ent'[d][n].ref = ent[d][n].ref
             /\ ent'[d][n].stray = ent[d][n].stray
  <2>1. n \in Names /\ ent[d][n] \in EntryType
    BY NamesApart DEF TreeOK
  <2>2. CASE mine(d, n)
    BY <1>1, <1>3, <1>5, <2>1, <2>2
  <2>3. CASE ~mine(d, n)
    BY <1>1, <1>3, <2>1, <2>3
  <2> QED BY <2>2, <2>3
<1> QED BY <1>4, <1>6, StayFiles DEF Unmarked, IsFile

\* A published file is gone from where it was written.
LEMMA PublishedFile ==
  ASSUME TreeOK, NamesInv, NEW p \in Paths, NEW n \in TempNames, NEW m \in FileNames, NEW w,
         CanRename(p, n, p, m), ent' = Published(p, n, p, m, w)
  PROVE  FilesStay /\ \A d \in Dirs : d = Walk(p) => ~Unmarked(ent', d, n)
<1> DEFINE e == [At(p, n) EXCEPT !.ref = 0, !.stray = IF At(p, n).ref = w THEN 0 ELSE 1]
           c == Walk(p)
<1>1. n \in Names /\ m \in Names /\ m \notin TempNames /\ m \notin DirNames /\ n \notin DirNames
  BY NamesApart
<1>2. c \in Dirs /\ At(p, n) \in EntryType
  BY <1>1, AtType DEF CanRename
<1>3. ent' = With(With(ent, c, m, e), c, n, Free)
  BY DEF Published, With
<1> HIDE DEF e, c
<1>4. \A d \in Dirs : \A k \in Names :
        ent'[d][k] = IF d = c /\ k = n THEN Free
                     ELSE IF d = c /\ k = m THEN e ELSE ent[d][k]
  BY <1>1, <1>2, <1>3 DEF With, TreeOK
<1>5. \A d \in Dirs : \A k \in DirNames : ent'[d][k] = ent[d][k]
  BY <1>1, <1>4, NamesApart
<1>6. \A d \in Dirs : \A k \in TempNames :
        Unmarked(ent', d, k) => Unmarked(ent, d, k) /\ ent'[d][k].ref = ent[d][k].ref
  BY <1>1, <1>4, NamesApart, FreeIsNothing DEF Unmarked
<1>7. FilesStay
  BY <1>5, <1>6, StayFiles
<1>8. \A d \in Dirs : d = c => ~Unmarked(ent', d, n)
  BY <1>1, <1>4, FreeIsNothing DEF Unmarked
<1> QED BY <1>7, <1>8 DEF c

\* A new directory takes nothing away.
LEMMA CreatedFiles ==
  ASSUME TreeOK, NamesInv, NEW k \in DirNames, NEW x, ent[Root][k] = Free,
         ent' = [ent EXCEPT ![Root][k] = DirEntry(x)]
  PROVE  FilesStay
<1>1. k \in Names /\ k \notin TempNames /\ Root \in Dirs
  BY NamesApart, Bounds
<1>2. \A d \in Dirs : \A n \in Names : d # Root \/ n # k => ent'[d][n] = ent[d][n]
  BY <1>1 DEF TreeOK
<1>3. ASSUME NEW p \in Paths, Walk(p) # NoDir, Walk(p)' # Walk(p) PROVE FALSE
  <2>1. PICK c \in Dirs, m \in DirNames : IsDir(ent[c][m]) /\ ent'[c][m] # ent[c][m]
    BY <1>3, WalkChanges
  <2> QED BY <1>2, <2>1, NamesApart, FreeIsNothing
<1>4. \A d \in Dirs : \A n \in TempNames : ent'[d][n] = ent[d][n]
  BY <1>1, <1>2, NamesApart
<1> QED BY <1>3, <1>4, Bounds DEF FilesStay, FileStays, Unmarked

\* A handler goes on with its file or has no unmarked file left.
Continues(h) ==
  \/ Receives(h) => req'[h].op = "receive" /\ req'[h].w = req[h].w /\ req'[h].src = req[h].src
  \/ \A d \in Dirs : \A n \in TempNames : ByUpload(h, d, n) => ~Unmarked(ent', d, n)

\* So does curl.
CurlContinues ==
  \/ cur'.w = cur.w /\ cur'.k = cur.k /\ cur'.id = cur.id
  \/ \A d \in Dirs : \A n \in TempNames : ByCurl(d, n) => ~Unmarked(ent', d, n)

\* Where the writers go on, a file that stays is still its writer's.
LEMMA OwnerStays ==
  ASSUME TypeOK, Placed, \A h \in Handlers : Continues(h), CurlContinues,
         NEW d \in Dirs, NEW n \in TempNames, Unmarked(ent', d, n), FileStays(d, n)
  PROVE  (\E h \in Handlers : ByUpload(h, d, n)') \/ ByCurl(d, n)'
<1>1. CASE \E h \in Handlers : ByUpload(h, d, n)
  <2>1. PICK h \in Handlers : ByUpload(h, d, n)
    BY <1>1
  <2>2. Receives(h) /\ req'[h].op = "receive" /\ req'[h].w = req[h].w /\ req'[h].src = req[h].src
    BY <2>1 DEF ByUpload, Continues
  <2>3. PICK p \in Paths : req[h].src = p /\ Walk(p) = d
    BY <2>1 DEF ByUpload
  <2>4. Walk(p)' = d
    BY <2>3 DEF FileStays
  <2>5. ByUpload(h, d, n)'
    BY <2>1, <2>2, <2>3, <2>4 DEF ByUpload, Receives
  <2> QED BY <2>5
<1>2. CASE ByCurl(d, n)
  BY <1>2 DEF ByCurl, CurlContinues, FileStays, Temporary
<1> QED BY <1>1, <1>2 DEF Placed, FileStays

\* So if all files stay, each lies where its writer looks for it.
LEMMA PlacedKept ==
  ASSUME TypeOK, Placed, FilesStay, \A h \in Handlers : Continues(h), CurlContinues
  PROVE  Placed'
<1>1. ASSUME NEW d \in Dirs, NEW n \in TempNames, Unmarked(ent', d, n)
      PROVE  (\E h \in Handlers : ByUpload(h, d, n)') \/ ByCurl(d, n)'
  BY <1>1, OwnerStays DEF FilesStay
<1> QED BY <1>1 DEF Placed, Unmarked

\* The download goes on, or none is under way.
LEMMA DownloadGoesOn ==
  ASSUME PlacedInv, FilesStay, \A h \in Handlers : Continues(h),
         cur'.w = cur.w, cur'.k = cur.k, cur'.id = cur.id,
         child' = "published" => child = "published", pc \in Busy => pc' \in Busy
  PROVE  Placed' /\ CurlDone'
<1>2. Placed'
  BY PlacedKept DEF PlacedInv, IInv, CurlContinues
<1>3. cur'.w # 0 => pc' \in Busy
  BY DEF PlacedInv, CurlDone
<1>4. ASSUME child' = "published" PROVE ~Unmarked(ent', Root, Temporary')
  <2>1. cur.id \in Tasks /\ ~Unmarked(ent, Root, Temporary)
    BY <1>4 DEF PlacedInv, CurlDone, IInv, CurlInv
  <2>2. Temporary \in TempNames /\ Temporary' = Temporary
    BY <2>1, NamesOf DEF PlacedInv, IInv, TypeOK, Temporary
  <2> QED BY <2>1, <2>2, Bounds DEF FilesStay, FileStays
<1> QED BY <1>2, <1>3, <1>4 DEF CurlDone, Unmarked

\* A handler is answered that receives no file, or whose file is gone.
LEMMA AnswerContinues ==
  ASSUME TypeOK, NEW h \in Handlers, Answered(h),
         Receives(h) => \A d \in Dirs : \A n \in TempNames :
                          ByUpload(h, d, n) => ~Unmarked(ent', d, n)
  PROVE  \A g \in Handlers : Continues(g)
<1>1. \A g \in Handlers \ {h} : req'[g] = req[g]
  BY ReqSet, IdleType DEF Answered
<1>2. Continues(h)
  BY DEF Continues, ByUpload
<1> QED BY <1>1, <1>2 DEF Continues, Receives

\* The only files of a handler lie where its request leads to.
LEMMA UploadGone ==
  ASSUME TypeOK, NEW h \in Handlers,
         \A d \in Dirs : d = Walk(req[h].src) => ~Unmarked(ent', d, UpTemp(req[h].w))
  PROVE  \A d \in Dirs : \A n \in TempNames : ByUpload(h, d, n) => ~Unmarked(ent', d, n)
BY DEF ByUpload

-------------------------------------------------------------------------------
(* The steps that keep it. *)

\* A piece of an upload.
LEMMA ReceivePlaced ==
  ASSUME PlacedInv, NEW h \in Handlers, Receive(h)
  PROVE  Placed' /\ CurlDone'
<1> USE DEF PlacedInv, IInv
<1>1. req[h].w \in Writers
  BY DEF Receive, HandlerInv, Receives
<1>2. FilesStay
  BY <1>1, GrownFiles DEF Receive, TypeOK
<1>3. req \in [Handlers -> ReqType]
  BY ReqTypes
<1>4. /\ \A g \in Handlers \ {h} : req'[g] = req[g]
      /\ req'[h].op = req[h].op /\ req'[h].w = req[h].w /\ req'[h].src = req[h].src
  BY <1>3 DEF Receive, ReqType
<1>5. \A g \in Handlers : Continues(g)
  BY <1>4 DEF Continues, Receives
<1> QED BY <1>2, <1>5, DownloadGoesOn DEF Receive, workerVars

\* The last piece has come: the file takes its name.
LEMMA PublishPlaced ==
  ASSUME PlacedInv, NEW h \in Handlers, Publish(h)
  PROVE  Placed' /\ CurlDone'
<1> USE DEF PlacedInv, IInv
<1>1. req[h].src \in Paths /\ UpTemp(req[h].w) \in TempNames /\ req[h].name \in FileNames
  BY ReqTypes, TempApart DEF Publish, HandlerInv, Receives
<1>2. /\ FilesStay
      /\ \A d \in Dirs : d = Walk(req[h].src) => ~Unmarked(ent', d, UpTemp(req[h].w))
  BY <1>1, PublishedFile DEF Publish, TypeOK
<1>3. \A g \in Handlers : Continues(g)
  BY <1>2, UploadGone, AnswerContinues DEF Publish
<1> QED BY <1>2, <1>3, DownloadGoesOn DEF Publish, workerVars

\* An upload that fails takes its file with it.
LEMMA UploadFailsPlaced ==
  ASSUME PlacedInv, NEW h \in Handlers, UploadFails(h)
  PROVE  Placed' /\ CurlDone'
<1> USE DEF PlacedInv, IInv
<1>1. req[h].src \in Paths /\ UpTemp(req[h].w) \in TempNames
  BY ReqTypes, TempApart DEF UploadFails, Fails, HandlerInv, Receives
<1>2. /\ FilesStay
      /\ \A d \in Dirs : d = Walk(req[h].src) => ~Unmarked(ent', d, UpTemp(req[h].w))
  BY <1>1, RemovedFile DEF UploadFails, TypeOK
<1>3. \A g \in Handlers : Continues(g)
  BY <1>2, UploadGone, AnswerContinues DEF UploadFails, Fails
<1> QED BY <1>2, <1>3, DownloadGoesOn DEF UploadFails, workerVars

\* The rename of a move, or its failure.
LEMMA MovePlaced ==
  ASSUME PlacedInv, NEW h \in Handlers, Move(h)
  PROVE  Placed' /\ CurlDone'
<1> USE DEF PlacedInv, IInv
<1> DEFINE p == req[h].src
           q == req[h].dst
           n == req[h].name
<1>1. p \in Paths /\ q \in Paths /\ n \in Names /\ ~Receives(h)
  BY ReqTypes DEF Move, Receives
<1>2. (CanRename(p, n, q, n) /\ ent' = Moved(p, n, q)) \/ ent' = ent
  BY DEF Move
<1>3. \A g \in Handlers : Continues(g)
  BY <1>1, AnswerContinues DEF Move
<1> HIDE DEF p, q, n
<1>4. FilesStay
  BY <1>1, <1>2, MovedFiles, SameFiles DEF TypeOK
<1> QED BY <1>3, <1>4, DownloadGoesOn DEF Move, workerVars

\* The notification of the worker, after which the handler is done.
LEMMA NotifyOnePlaced ==
  ASSUME PlacedInv, NEW h \in Handlers, NotifyOne(h)
  PROVE  Placed' /\ CurlDone'
<1> USE DEF PlacedInv, IInv
<1>1. FilesStay
  BY SameFiles DEF NotifyOne
<1>2. \A g \in Handlers : Continues(g)
  BY AnswerContinues DEF NotifyOne, Receives
<1>3. pc \in Busy => pc' \in Busy
  BY DEF NotifyOne, Busy
<1> QED BY <1>1, <1>2, <1>3, DownloadGoesOn DEF NotifyOne

\* A new file is its writer's, and the others stay.
LEMMA NewFilePlaced ==
  ASSUME PlacedInv, NEW a \in Dirs, NEW m \in TempNames, NEW w,
         ent' = [ent EXCEPT ![a][m] = NewFile(w)]
  PROVE  /\ \A d \in Dirs : \A n \in TempNames :
              (d # a \/ n # m) /\ Unmarked(ent', d, n) => FileStays(d, n)
         /\ \A p \in Paths : Walk(p) # NoDir => Walk(p)' = Walk(p)
         /\ ent'[a][m] = NewFile(w)
<1>1. m \in Names /\ m \notin DirNames /\ ent \in [Dirs -> [Names -> EntryType]] /\ NamesInv
  BY NamesApart DEF PlacedInv, IInv, TypeOK, TreeOK
<1>2. /\ ent'[a][m] = NewFile(w)
      /\ \A d \in Dirs : \A n \in Names : d # a \/ n # m => ent'[d][n] = ent[d][n]
  BY <1>1
<1>3. \A d \in Dirs : \A n \in DirNames : ent'[d][n] = ent[d][n]
  BY <1>1, <1>2, NamesApart
<1>4. \A p \in Paths : Walk(p) # NoDir => Walk(p)' = Walk(p)
  BY <1>1, <1>3, SameDirs
<1>5. \A d \in Dirs : \A n \in TempNames : d # a \/ n # m => ent'[d][n] = ent[d][n]
  BY <1>2, NamesApart
<1> QED BY <1>2, <1>4, <1>5, Bounds DEF FileStays, Unmarked

\* An upload begins with a file of its own.
LEMMA StartUploadPlaced ==
  ASSUME PlacedInv, NEW h \in Handlers, StartUpload(h)
  PROVE  Placed' /\ CurlDone'
<1> USE DEF PlacedInv, IInv
<1>1. PICK p \in Paths, k \in UploadNames, w \in Writers :
        /\ Walk(p) # NoDir
        /\ ent' = [ent EXCEPT ![Walk(p)][UpTemp(w)] = NewFile(w)]
        /\ req' = [req EXCEPT ![h] =
             [op |-> "receive", w |-> w, got |-> 0, src |-> p, name |-> Target(k), dst |-> p]]
  BY DEF StartUpload
<1> DEFINE a == Walk(p)
           m == UpTemp(w)
           r == [op |-> "receive", w |-> w, got |-> 0, src |-> p, name |-> Target(k), dst |-> p]
<1>2. a \in Dirs /\ m \in TempNames
  BY <1>1, WalkType, TempApart
<1>3. req \in [Handlers -> ReqType]
  BY ReqTypes
<1>4. /\ req'[h].op = "receive" /\ req'[h].w = w /\ req'[h].src = p
      /\ \A g \in Handlers \ {h} : req'[g] = req[g]
  BY <1>1, <1>3
<1>5. ent' = [ent EXCEPT ![a][m] = NewFile(w)]
  BY <1>1
<1>6. /\ cur' = cur /\ child' = child /\ pc' = pc
      /\ req[h] = Idle
  BY DEF StartUpload, Accept, Serving, workerVars
<1>7. \A g \in Handlers : Continues(g)
  BY <1>4, <1>6, IdleType DEF Continues, Receives
<1>8. CurlContinues
  BY <1>6 DEF CurlContinues
<1>9. Walk(p)' = a
  BY <1>1, <1>2, <1>5, NewFilePlaced
<1>10. \A d \in Dirs : \A n \in TempNames : d = a /\ n = m => ByUpload(h, d, n)'
  BY <1>4, <1>9 DEF ByUpload, Receives
<1> HIDE DEF a, m
<1>11. ASSUME NEW d \in Dirs, NEW n \in TempNames, Unmarked(ent', d, n)
       PROVE  (\E g \in Handlers : ByUpload(g, d, n)') \/ ByCurl(d, n)'
  <2>1. CASE d = a /\ n = m
    BY <1>10, <2>1
  <2>2. CASE d # a \/ n # m
    <3>1. FileStays(d, n)
      BY <1>2, <1>5, <1>11, <2>2, NewFilePlaced
    <3> QED BY <1>7, <1>8, <1>11, <3>1, OwnerStays
  <2> QED BY <2>1, <2>2
<1>12. Placed'
  BY <1>11 DEF Placed, Unmarked
<1>13. ASSUME child' = "published" PROVE ~Unmarked(ent', Root, Temporary')
  <2>1. cur.id \in Tasks /\ ~Unmarked(ent, Root, Temporary)
    BY <1>6, <1>13 DEF CurlDone, CurlInv
  <2>2. Temporary \in TempNames /\ Temporary' = Temporary /\ Temporary # m
    BY <1>6, <2>1, NamesOf, TempApart DEF TypeOK, Temporary, m
  <2>3. ASSUME NEW d \in Dirs, Unmarked(ent', d, Temporary) PROVE Unmarked(ent, d, Temporary)
    <3>1. FileStays(d, Temporary)
      BY <1>2, <1>5, <2>2, <2>3, NewFilePlaced
    <3> QED BY <3>1 DEF FileStays
  <2> QED BY <2>1, <2>2, <2>3, Bounds
<1>14. CurlDone'
  BY <1>6, <1>13 DEF CurlDone, Unmarked
<1> QED BY <1>12, <1>14

\* A new directory, the checks of a move, and a new download touch no file, and a
\* removal leaves the others where they are.
LEMMA RequestPlaced ==
  ASSUME PlacedInv, NEW h \in Handlers,
         CreateDirectory(h) \/ Remove(h) \/ CheckMove(h) \/ Enqueue(h)
  PROVE  Placed' /\ CurlDone'
<1> USE DEF PlacedInv, IInv
<1>1. /\ cur' = cur /\ child' = child /\ pc' = pc
      /\ req[h] = Idle
  BY DEF CreateDirectory, Remove, CheckMove, Enqueue, Accept, Serving, workerVars
<1>2. \A g \in Handlers \ {h} : req'[g] = req[g]
  BY ReqTypes DEF CreateDirectory, Remove, CheckMove, Enqueue
<1>3. \A g \in Handlers : Continues(g)
  BY <1>1, <1>2, IdleType DEF Continues, Receives
<1>4. FilesStay
  <2>1. CASE CreateDirectory(h)
    <3>1. PICK n \in DirNames, d \in Dirs :
            ent[Root][n] = Free /\ ent' = [ent EXCEPT ![Root][n] = DirEntry(d)]
      BY <2>1 DEF CreateDirectory
    <3> QED BY <3>1, CreatedFiles DEF TypeOK
  <2>2. CASE Remove(h)
    <3>1. PICK p \in Paths, n \in Names : At(p, n) # Free /\ ent' = RemovedAll(p, n)
      BY <2>2 DEF Remove
    <3> QED BY <3>1, RemovedAllFiles DEF TypeOK
  <2>3. CASE CheckMove(h) \/ Enqueue(h)
    BY <2>3, SameFiles DEF CheckMove, Enqueue
  <2> QED BY <2>1, <2>2, <2>3
<1> QED BY <1>1, <1>3, <1>4, DownloadGoesOn

\* The main thread, the signal, and the worker where it keeps its download; and the
\* steps of others.
LEMMA ThreadPlaced ==
  ASSUME PlacedInv,
         Main \/ StopServer \/ Top \/ FallAsleep \/ SeeExit \/ Interrupt \/ Reap \/ TransferEnds
           \/ UNCHANGED vars
  PROVE  Placed' /\ CurlDone'
<1> USE DEF PlacedInv, IInv
<1>1. ent' = ent /\ req' = req /\ cur' = cur
  BY DEF Main, StartListening, SetStopping, NotifyAll, Join, StopServer, Top, FallAsleep, SeeExit,
         Interrupt, Reap, TransferEnds, vars, handlerVars, workerVars
<1>2. child' = "published" => child = "published"
  BY DEF Main, StartListening, SetStopping, NotifyAll, Join, StopServer, Top, FallAsleep, SeeExit,
         Interrupt, Reap, TransferEnds, vars, workerVars
<1>3. pc \in Busy => pc' \in Busy
  BY DEF Main, StartListening, SetStopping, NotifyAll, Join, StopServer, Top, FallAsleep, SeeExit,
         Interrupt, Reap, TransferEnds, WorkerStep, vars, workerVars, Busy
<1>4. \A h \in Handlers : Continues(h)
  BY <1>1 DEF Continues, Receives
<1> QED BY <1>1, <1>2, <1>3, <1>4, SameFiles, DownloadGoesOn

\* The worker takes a download from the queue before it has a file.
LEMMA TestPlaced ==
  ASSUME PlacedInv, Test
  PROVE  Placed' /\ CurlDone'
<1> USE DEF PlacedInv, IInv
<1>1. ent' = ent /\ req' = req /\ child' = child /\ pc = "waiting" /\ child = "none"
  BY DEF Test, handlerVars, CurlInv
<1>2. cur.w = 0
  BY <1>1 DEF CurlDone, Busy
<1>3. cur'.w = 0
  BY <1>2 DEF Test, NoTask
<1>4. CurlContinues
  BY <1>2, WritersAreSome DEF CurlContinues, ByCurl
<1>5. \A h \in Handlers : Continues(h)
  BY <1>1 DEF Continues, Receives
<1>6. Placed'
  BY <1>1, <1>4, <1>5, SameFiles, PlacedKept
<1> QED BY <1>1, <1>3, <1>6 DEF CurlDone

\* Curl begins with a file of its own, where the worker will look for it.
LEMMA StartTransferPlaced ==
  ASSUME PlacedInv, StartTransfer
  PROVE  Placed' /\ CurlDone'
<1> USE DEF PlacedInv, IInv
<1>1. PICK k \in 0 .. MaxSuffix, w \in Writers :
        /\ cur' = [id |-> cur.id, w |-> w, k |-> k, got |-> 0]
        /\ ent' = [ent EXCEPT ![Root][DlTemp(k, cur.id)] = NewFile(w)]
  BY DEF StartTransfer
<1> DEFINE a == Root
           m == DlTemp(k, cur.id)
<1>2. pc = "picked" /\ req' = req /\ pc' = "running" /\ child' = "running"
  BY DEF StartTransfer, WorkerStep, handlerVars
<1>3. cur.id \in Tasks
  BY <1>2 DEF CurlInv
<1>4. a \in Dirs /\ m \in TempNames
  BY <1>3, NamesOf, Bounds
<1>5. cur.w = 0
  BY <1>2 DEF CurlDone, Busy
<1>6. CurlContinues
  BY <1>5, WritersAreSome DEF CurlContinues, ByCurl
<1>7. \A h \in Handlers : Continues(h)
  BY <1>2 DEF Continues, Receives
<1>8. ent' = [ent EXCEPT ![a][m] = NewFile(w)]
  BY <1>1
<1>9. cur'.w = w /\ Temporary' = m
  BY <1>1 DEF Temporary
<1> HIDE DEF a, m
<1>10. ent'[a][m].ref = w
  <2>1. ent'[a][m] = NewFile(w)
    BY <1>4, <1>8, NewFilePlaced
  <2> QED BY <2>1 DEF NewFile
<1>11. \A d \in Dirs : \A n \in TempNames : d = a /\ n = m => ByCurl(d, n)'
  BY <1>9, <1>10 DEF ByCurl, a
<1>12. ASSUME NEW d \in Dirs, NEW n \in TempNames, Unmarked(ent', d, n)
       PROVE  (\E g \in Handlers : ByUpload(g, d, n)') \/ ByCurl(d, n)'
  <2>1. CASE d = a /\ n = m
    BY <1>11, <2>1
  <2>2. CASE d # a \/ n # m
    <3>1. FileStays(d, n)
      BY <1>4, <1>8, <1>12, <2>2, NewFilePlaced
    <3> QED BY <1>6, <1>7, <1>12, <3>1, OwnerStays
  <2> QED BY <2>1, <2>2
<1>13. Placed'
  BY <1>12 DEF Placed, Unmarked
<1> QED BY <1>2, <1>13 DEF CurlDone, Busy

\* The rename takes the file away from where it was written, or it stays.
LEMMA SettlePlaced ==
  ASSUME PlacedInv, Settle
  PROVE  Placed' /\ CurlDone'
<1> USE DEF PlacedInv, IInv
<1>1. req' = req /\ cur' = cur /\ pc = "ended" /\ pc' = "settling"
  BY DEF Settle, WorkerStep, handlerVars
<1>2. \A h \in Handlers : Continues(h)
  BY <1>1 DEF Continues, Receives
<1>3. cur.id \in Tasks /\ cur.k \in 0 .. MaxSuffix
  BY <1>1, CurIds DEF CurlInv
<1>4. Temporary \in TempNames /\ Target(cur.k) \in FileNames /\ Temporary' = Temporary
  BY <1>1, <1>3, NamesOf DEF Temporary
<1>5. CASE Succeeded /\ stopping = 0 /\ CanPublish
  <2>1. /\ ent' = Published(<<>>, Temporary, <<>>, Target(cur.k), cur.w)
        /\ CanRename(<<>>, Temporary, <<>>, Target(cur.k))
    BY <1>5 DEF Settle, CanPublish
  <2>2. <<>> \in Paths
    BY NamesOf
  <2>3. FilesStay /\ \A d \in Dirs : d = Walk(<<>>) => ~Unmarked(ent', d, Temporary)
    BY <1>4, <2>1, <2>2, PublishedFile DEF TypeOK
  <2>4. Placed'
    BY <1>1, <1>2, <2>3, PlacedKept DEF CurlContinues
  <2>5. ~Unmarked(ent', Root, Temporary)
    BY <2>3, RootPath, Bounds
  <2>6. CurlDone'
    BY <1>1, <1>4, <2>5 DEF CurlDone, Unmarked, Busy
  <2> QED BY <2>4, <2>6
<1>6. CASE ~(Succeeded /\ stopping = 0 /\ CanPublish)
  <2>1. ent' = ent /\ child' = child /\ pc' \in Busy
    BY <1>1, <1>6 DEF Settle, Busy
  <2> QED BY <1>1, <1>2, <2>1, SameFiles, DownloadGoesOn
<1> QED BY <1>5, <1>6

\* The worker gives up its download only when no unmarked file of it is left.
LEMMA FinishPlaced ==
  ASSUME PlacedInv, Finish
  PROVE  Placed' /\ CurlDone'
<1> USE DEF PlacedInv, IInv
<1>1. req' = req /\ cur' = NoTask /\ child' = "none" /\ pc = "settling"
  BY DEF Finish, WorkerStep, handlerVars
<1>2. \A h \in Handlers : Continues(h)
  BY <1>1 DEF Continues, Receives
<1>3. Temporary \in TempNames /\ <<>> \in Paths
  BY <1>1, CurIds, NamesOf DEF CurlInv, Temporary
<1>4. FilesStay /\ ~Unmarked(ent', Root, Temporary)
  <2>1. CASE child = "published" /\ stopping = 0
    <3>1. ent' = ent
      BY <2>1 DEF Finish
    <3>2. FilesStay
      BY <3>1, SameFiles
    <3>3. ~Unmarked(ent, Root, Temporary)
      BY <2>1 DEF CurlDone
    <3> QED BY <3>1, <3>2, <3>3
  <2>2. CASE ~(child = "published" /\ stopping = 0)
    <3>1. ent' = Removed(<<>>, Temporary)
      BY <2>2 DEF Finish
    <3>2. FilesStay /\ \A d \in Dirs : d = Walk(<<>>) => ~Unmarked(ent', d, Temporary)
      BY <1>3, <3>1, RemovedFile DEF TypeOK
    <3> QED BY <3>2, RootPath, Bounds
  <2> QED BY <2>1, <2>2
<1>5. CurlContinues
  BY <1>4 DEF CurlContinues, ByCurl
<1>6. Placed'
  BY <1>2, <1>4, <1>5, PlacedKept
<1> QED BY <1>1, <1>6, NoTaskType DEF CurlDone

\* A piece of a download.
LEMMA TransferGrowsPlaced ==
  ASSUME PlacedInv, TransferGrows
  PROVE  Placed' /\ CurlDone'
<1> USE DEF PlacedInv, IInv
<1>1. req' = req /\ child = "running" /\ child' = child /\ pc' = pc /\ cur.w \in Writers
  BY DEF TransferGrows, handlerVars, CurlInv
<1>2. cur'.w = cur.w /\ cur'.k = cur.k /\ cur'.id = cur.id
  BY DEF TransferGrows, TypeOK
<1>3. \A h \in Handlers : Continues(h)
  BY <1>1 DEF Continues, Receives
<1>4. FilesStay
  BY <1>1, GrownFiles DEF TransferGrows, TypeOK
<1> QED BY <1>1, <1>2, <1>3, <1>4, DownloadGoesOn

\* After a crash every temporary file is marked.
LEMMA CrashPlaced ==
  ASSUME PlacedInv, Crash
  PROVE  Placed' /\ CurlDone'
<1>1. ent' = Strayed(ent, Dirs \X TempNames) /\ cur' = NoTask /\ child' = "none"
  BY DEF Crash
<1>2. ent \in [Dirs -> [Names -> EntryType]]
  BY DEF PlacedInv, IInv, TypeOK, TreeOK
<1>3. ASSUME NEW d \in Dirs, NEW n \in TempNames PROVE ~Unmarked(ent', d, n)
  <2>1. n \in Names /\ ent[d][n] \in EntryType
    BY <1>2, NamesApart
  <2>2. ent'[d][n] = IF IsFile(ent[d][n]) THEN [ent[d][n] EXCEPT !.stray = 1] ELSE ent[d][n]
    BY <1>1, <2>1, StrayedEntry DEF Strayed
  <2> QED BY <2>1, <2>2 DEF Unmarked, EntryType
<1>4. Placed'
  BY <1>3 DEF Placed, Unmarked
<1> QED BY <1>1, <1>4, NoTaskType DEF CurlDone

\* Every step keeps each temporary file where its writer will find it.
LEMMA PlacedStep ==
  ASSUME PlacedInv, [Next]_vars
  PROVE  PlacedInv'
<1>1. IInv'
  BY NextHolds DEF PlacedInv
<1>2. ASSUME NEW h \in Handlers, HandlerStep(h) \/ Request(h)
      PROVE  Placed' /\ CurlDone'
  BY <1>2, ReceivePlaced, PublishPlaced, UploadFailsPlaced, MovePlaced, NotifyOnePlaced,
     StartUploadPlaced, RequestPlaced DEF HandlerStep, Request
<1>3. ASSUME Worker \/ Curl \/ Main \/ StopServer \/ UNCHANGED vars
      PROVE  Placed' /\ CurlDone'
  BY <1>3, ThreadPlaced, TestPlaced, StartTransferPlaced, SettlePlaced, FinishPlaced,
     TransferGrowsPlaced DEF Worker, Curl
<1>4. ASSUME Crash PROVE Placed' /\ CurlDone'
  BY <1>4, CrashPlaced
<1>5. Placed' /\ CurlDone'
  BY <1>2, <1>3, <1>4 DEF Next
<1> QED BY <1>1, <1>5 DEF PlacedInv

\* An empty storage has no files.
LEMMA PlacedInit ==
  ASSUME Init
  PROVE  PlacedInv
<1>1. \A d \in Dirs : \A n \in TempNames : ent[d][n] = Free
  BY NamesApart, NamesOf DEF Init
<1>2. Placed
  BY <1>1, FreeIsNothing DEF Placed, Unmarked
<1>3. CurlDone
  BY NoTaskType DEF Init, CurlDone
<1> QED BY <1>2, <1>3, InitHolds DEF PlacedInv

\* No temporary file is left behind: whoever writes one publishes or removes it,
\* whatever the other threads do to the tree meanwhile, unless it or a directory
\* above it was moved, or the daemon died.
THEOREM TemporariesOwned == Spec => []NoLeftover
<1>1. PlacedInv => NoLeftover
  <2> SUFFICES ASSUME PlacedInv, NEW d \in Dirs, NEW n \in TempNames, IsFile(ent[d][n]),
                      ent[d][n].stray # 1
               PROVE  \/ \E h \in Handlers : req[h].w = ent[d][n].ref
                      \/ cur.w = ent[d][n].ref
    BY DEF NoLeftover
  <2> USE DEF PlacedInv, IInv
  <2>1. Unmarked(ent, d, n)
    BY NamesApart DEF Unmarked, TypeOK, TreeOK, EntryType
  <2>2. ASSUME NEW h \in Handlers, ByUpload(h, d, n) PROVE req[h].w = ent[d][n].ref
    BY <2>2 DEF ByUpload, HandlerInv, NamesInv
  <2>3. ByCurl(d, n) => cur.w = ent[d][n].ref
    BY DEF ByCurl
  <2> QED BY <2>1, <2>2, <2>3 DEF Placed
<1>2. Init => PlacedInv
  BY PlacedInit
<1>3. PlacedInv /\ [Next]_vars => PlacedInv'
  BY PlacedStep
<1> QED BY <1>1, <1>2, <1>3, PTL DEF Spec

-------------------------------------------------------------------------------
(* The queue and the sleep of the worker. *)

\* SleepsWithReason, and the same for the worker between its test and its sleep,
\* which nobody can queue a download in between.
SleepInv ==
  /\ SleepsWithReason
  /\ pc = "falling" =>
       queue = <<>> /\ (stopping = 1 => main = "notifying" \/ missed = 1)

\* A handler keeps its notification until it has sent it.
LEMMA NotifierStays ==
  ASSUME TypeOK, NEW g \in Handlers, HandlerStep(g) \/ Request(g), ~NotifyOne(g),
         NEW h \in Handlers, req[h].op = "notify"
  PROVE  req'[h].op = "notify"
<1>1. Idle.op = "idle"
  BY IdleType
<1>2. req[g].op \in {"receive", "move", "idle"}
  BY <1>1 DEF HandlerStep, Request, Receive, Publish, UploadFails, Fails, Move, StartUpload,
       CreateDirectory, Remove, CheckMove, Enqueue, Accept, Serving
<1>3. g # h
  BY <1>2
<1>4. req' = req \/ \E r : req' = [req EXCEPT ![g] = r]
  BY DEF HandlerStep, Request, Receive, Publish, UploadFails, Fails, Move, StartUpload,
       CreateDirectory, Remove, CheckMove, Enqueue, Answered
<1> QED BY <1>3, <1>4 DEF TypeOK

\* Only a request that queues a download brings a sleeping worker something to do,
\* and the handler of that request is to notify it.
LEMMA HandlerSleeps ==
  ASSUME TypeOK, SleepInv, NEW g \in Handlers, HandlerStep(g) \/ Request(g)
  PROVE  SleepInv'
<1>1. CASE NotifyOne(g)
  BY <1>1 DEF NotifyOne, SleepInv, SleepsWithReason, managerVars, mainVars
<1>2. CASE Enqueue(g)
  <2>1. req'[g].op = "notify" /\ pc # "falling" /\ pc' = pc /\ stopping' = stopping
        /\ main' = main /\ missed' = missed
    BY <1>2 DEF Enqueue, MutexFree, TypeOK, workerVars, mainVars
  <2> QED BY <2>1 DEF SleepInv, SleepsWithReason
<1>3. CASE ~NotifyOne(g) /\ ~Enqueue(g)
  <2>1. /\ queue' = queue /\ pc' = pc /\ stopping' = stopping /\ main' = main
        /\ missed' = missed
    BY <1>3 DEF HandlerStep, Request, Receive, Publish, UploadFails, Fails, Move, StartUpload,
         CreateDirectory, Remove, CheckMove, managerVars, workerVars, mainVars
  <2>2. \A h \in Handlers : req[h].op = "notify" => req'[h].op = "notify"
    BY <1>3, NotifierStays
  <2> QED BY <2>1, <2>2 DEF SleepInv, SleepsWithReason
<1> QED BY <1>1, <1>2, <1>3

\* The worker falls asleep only after it has found its queue empty and no stop.
LEMMA WorkerSleeps ==
  ASSUME TypeOK, SleepInv, Worker \/ Curl
  PROVE  SleepInv'
<1>1. CASE FallAsleep
  <2>1. /\ pc = "falling" /\ pc' = "asleep" /\ queue' = queue /\ stopping' = stopping
        /\ main' = main /\ missed' = missed
    BY <1>1 DEF FallAsleep, WorkerStep, managerVars, mainVars
  <2> QED BY <2>1 DEF SleepInv, SleepsWithReason
<1>2. CASE Test
  <2>1. pc' # "asleep" /\ (pc' = "falling" => stopping' = 0 /\ queue' = <<>>)
    BY <1>2 DEF Test, managerVars, mainVars
  <2> QED BY <2>1 DEF SleepInv, SleepsWithReason
<1>3. CASE Top \/ StartTransfer \/ SeeExit \/ Interrupt \/ Reap \/ Settle \/ Finish
  <2>1. pc' \notin {"asleep", "falling"}
    BY <1>3 DEF Top, StartTransfer, SeeExit, Interrupt, Reap, Settle, Finish, WorkerStep
  <2> QED BY <2>1 DEF SleepInv, SleepsWithReason
<1>4. CASE Curl
  <2>1. /\ req' = req /\ queue' = queue /\ pc' = pc /\ stopping' = stopping /\ main' = main
        /\ missed' = missed
    BY <1>4 DEF Curl, TransferGrows, TransferEnds, handlerVars, managerVars, mainVars
  <2> QED BY <2>1 DEF SleepInv, SleepsWithReason
<1> QED BY <1>1, <1>2, <1>3, <1>4 DEF Worker

\* The destructor wakes the worker, unless it is about to fall asleep.
LEMMA MainSleeps ==
  ASSUME TypeOK, SleepInv, Main \/ StopServer \/ Crash \/ UNCHANGED vars
  PROVE  SleepInv'
<1> USE DEF SleepInv, SleepsWithReason
<1>1. CASE StartListening \/ StopServer
  <2>1. /\ req' = req /\ queue' = queue /\ pc' = pc /\ stopping' = stopping
        /\ main # "notifying" \/ main' = main
        /\ missed = 1 => missed' = 1
    BY <1>1 DEF StartListening, StopServer, handlerVars, managerVars, workerVars
  <2> QED BY <2>1
<1>2. CASE SetStopping \/ Join
  <2>1. /\ req' = req /\ queue' = queue /\ pc' = pc /\ missed' = missed
        /\ main' = "notifying" \/ (stopping' = stopping /\ main # "notifying")
    BY <1>2 DEF SetStopping, Join, handlerVars, managerVars, workerVars
  <2> QED BY <2>1
<1>3. CASE NotifyAll
  <2>1. /\ queue' = queue /\ stopping' = stopping /\ pc' # "asleep"
        /\ pc' = "falling" => pc = "falling" /\ missed' = 1
    BY <1>3 DEF NotifyAll, managerVars
  <2> QED BY <2>1
<1>4. CASE Crash
  <2>1. pc' = "top"
    BY <1>4 DEF Crash
  <2> QED BY <2>1
<1>5. CASE UNCHANGED vars
  BY <1>5 DEF vars, handlerVars, managerVars, workerVars, mainVars
<1> QED BY <1>1, <1>2, <1>3, <1>4, <1>5 DEF Main

\* A download and a stop get through to the worker wherever it is, except for a stop
\* that is notified just before it falls asleep, and one before the server listens.
THEOREM WakeupsArrive == Spec => []SleepsWithReason
<1>1. Init => SleepInv
  BY DEF Init, SleepInv, SleepsWithReason
<1>2. TypeOK /\ SleepInv /\ [Next]_vars => SleepInv'
  BY HandlerSleeps, WorkerSleeps, MainSleeps DEF Next
<1>3. SleepInv => SleepsWithReason
  BY DEF SleepInv
<1> QED BY <1>1, <1>2, <1>3, TypeCorrect, PTL DEF Spec

\* The queue has the downloads that wait, once each and in the order in which they
\* were accepted, the worker the one that runs, and a later one waits: none is lost
\* between the two, done twice or overtaken.
QueueIsExact ==
  /\ \A i \in DOMAIN tasks : tasks[i] = "queued" <=> \E j \in DOMAIN queue : queue[j] = i
  /\ \A i \in DOMAIN tasks : tasks[i] = "running" <=> cur.id = i
  /\ \A j, k \in DOMAIN queue : j < k => queue[j] < queue[k]
  /\ \A j \in DOMAIN queue : cur.id < queue[j] /\ queue[j] <= Len(tasks)

\* QueueIsExact, and that a worker that has not yet taken a download has none.
Between == {"top", "waiting", "falling", "asleep", "gone"}
QueueInv ==
  /\ QueueIsExact
  /\ cur.id <= Len(tasks)
  /\ pc \in Between => cur.id = 0

\* Steps that leave the downloads alone.
LEMMA QueueStays ==
  ASSUME QueueInv, tasks' = tasks, queue' = queue, cur'.id = cur.id,
         pc' \in Between => pc \in Between
  PROVE  QueueInv'
BY DEF QueueInv, QueueIsExact

\* The handlers: a new download is the last one of the queue.
LEMMA HandlerQueues ==
  ASSUME TypeOK, QueueInv, NEW h \in Handlers, HandlerStep(h) \/ Request(h)
  PROVE  QueueInv'
<1>1. CASE Enqueue(h)
  <2> DEFINE n == Len(tasks) + 1
  <2>1. /\ tasks' = Append(tasks, "queued") /\ queue' = Append(queue, n)
        /\ cur' = cur /\ pc' = pc
    BY <1>1 DEF Enqueue, workerVars
  <2>2. /\ tasks \in Seq({"queued", "running", "completed", "failed"})
        /\ queue \in Seq(Tasks) /\ cur.id \in Nat /\ Tasks \subseteq Int
    BY Bounds DEF TypeOK, Tasks
  <2>3. /\ DOMAIN tasks = 1 .. Len(tasks) /\ DOMAIN tasks' = 1 .. n
        /\ Len(tasks) \in Nat /\ Len(tasks') = n
        /\ \A i \in 1 .. Len(tasks) : tasks'[i] = tasks[i]
        /\ tasks'[n] = "queued"
    BY <2>1, <2>2
  <2>4. /\ DOMAIN queue = 1 .. Len(queue) /\ DOMAIN queue' = 1 .. Len(queue) + 1
        /\ Len(queue) \in Nat
        /\ \A j \in 1 .. Len(queue) : queue'[j] = queue[j] /\ queue[j] \in Int
        /\ queue'[Len(queue) + 1] = n
    <3>1. \A j \in 1 .. Len(queue) : queue[j] \in Tasks
      BY <2>2
    <3>2. n \in Tasks
      <4>1. Len(tasks) \in Nat /\ Len(tasks) < MaxTasks
        BY <1>1, <2>3 DEF Enqueue
      <4> QED BY <4>1, Bounds DEF Tasks
    <3>3. queue' \in Seq(Tasks) /\ Len(queue') = Len(queue) + 1
      BY <2>1, <2>2, <3>2, AppendProperties
    <3>4. /\ \A j \in 1 .. Len(queue) : queue'[j] = queue[j]
          /\ queue'[Len(queue) + 1] = n
      BY <2>1, <2>2, <3>2, AppendProperties
    <3>5. Len(queue) \in Nat /\ DOMAIN queue = 1 .. Len(queue) /\ DOMAIN queue' = 1 .. Len(queue')
      BY <2>2, <3>3
    <3> QED BY <2>2, <3>1, <3>3, <3>4, <3>5
  <2> HIDE DEF n
  <2>5. n = Len(tasks) + 1
    BY DEF n
  <2>6. \A j \in 1 .. Len(queue) : cur.id < queue[j] /\ queue[j] <= Len(tasks)
    BY <2>4 DEF QueueInv, QueueIsExact
  <2>7. ASSUME NEW i \in DOMAIN tasks'
        PROVE  tasks'[i] = "queued" <=> \E j \in DOMAIN queue' : queue'[j] = i
    <3>1. CASE i = n
      BY <2>3, <2>4, <3>1
    <3>2. CASE i # n
      <4>1. i \in 1 .. Len(tasks) /\ tasks'[i] = tasks[i]
        BY <2>3, <2>5, <3>2
      <4>2. tasks[i] = "queued" <=> \E j \in 1 .. Len(queue) : queue[j] = i
        BY <2>3, <2>4, <4>1 DEF QueueInv, QueueIsExact
      <4>3. (\E j \in 1 .. Len(queue) + 1 : queue'[j] = i)
              <=> \E j \in 1 .. Len(queue) : queue[j] = i
        BY <2>4, <3>2
      <4> QED BY <2>4, <4>1, <4>2, <4>3
    <3> QED BY <3>1, <3>2
  <2>8. ASSUME NEW i \in DOMAIN tasks'
        PROVE  tasks'[i] = "running" <=> cur'.id = i
    <3>1. CASE i = n
      BY <2>1, <2>2, <2>3, <2>5, <3>1 DEF QueueInv
    <3>2. CASE i # n
      BY <2>1, <2>3, <2>5, <3>2 DEF QueueInv, QueueIsExact
    <3> QED BY <3>1, <3>2
  <2>9. \A j, k \in DOMAIN queue' : j < k => queue'[j] < queue'[k]
    <3>1. \A j, k \in 1 .. Len(queue) : j < k => queue[j] < queue[k]
      BY <2>4 DEF QueueInv, QueueIsExact
    <3> QED BY <2>3, <2>4, <2>5, <2>6, <3>1
  <2>10. \A j \in DOMAIN queue' : cur'.id < queue'[j] /\ queue'[j] <= Len(tasks')
    BY <2>1, <2>2, <2>3, <2>4, <2>5, <2>6 DEF QueueInv
  <2>11. cur'.id <= Len(tasks') /\ (pc' \in Between => cur'.id = 0)
    BY <2>1, <2>2, <2>3, <2>5 DEF QueueInv
  <2> QED BY <2>7, <2>8, <2>9, <2>10, <2>11 DEF QueueInv, QueueIsExact
<1>2. CASE ~Enqueue(h)
  <2>1. /\ tasks' = tasks /\ queue' = queue /\ cur' = cur
        /\ pc' \in Between => pc \in Between
    BY <1>2 DEF HandlerStep, Request, Receive, Publish, UploadFails, Fails, Move, NotifyOne,
         StartUpload, CreateDirectory, Remove, CheckMove, managerVars, workerVars, Between
  <2> QED BY <2>1, QueueStays
<1> QED BY <1>1, <1>2

\* The worker takes the first download of the queue.
LEMMA TestQueues ==
  ASSUME TypeOK, QueueInv, Test
  PROVE  QueueInv'
<1>1. CASE tasks' = tasks /\ queue' = queue /\ cur' = cur
  BY <1>1, QueueStays DEF Test, Between
<1>2. CASE /\ queue # <<>>
           /\ pc' = "picked"
           /\ queue' = Tail(queue)
           /\ tasks' = [tasks EXCEPT ![Head(queue)] = "running"]
           /\ cur' = [NoTask EXCEPT !.id = Head(queue)]
  <2> DEFINE first == Head(queue)
  <2>1. /\ tasks \in Seq({"queued", "running", "completed", "failed"})
        /\ queue \in Seq(Tasks) /\ Tasks \subseteq Int
    BY Bounds DEF TypeOK, Tasks
  <2>2. /\ Len(queue) \in Nat /\ Len(queue) >= 1 /\ DOMAIN queue = 1 .. Len(queue)
        /\ first = queue[1]
        /\ \A j \in 1 .. Len(queue) : queue[j] \in Int
    BY <1>2, <2>1
  <2>3. /\ DOMAIN queue' = 1 .. Len(queue) - 1
        /\ \A j \in 1 .. Len(queue) - 1 : queue'[j] = queue[j + 1]
    BY <1>2, <2>1, <2>2
  <2>4. /\ Len(tasks') = Len(tasks) /\ DOMAIN tasks' = DOMAIN tasks
        /\ DOMAIN tasks = 1 .. Len(tasks) /\ Len(tasks) \in Nat
        /\ \A i \in DOMAIN tasks : tasks'[i] = IF i = first THEN "running" ELSE tasks[i]
    BY <1>2, <2>1
  <2>5. cur'.id = first /\ pc' = "picked" /\ cur.id = 0
    BY <1>2 DEF NoTask, QueueInv, Test, Between
  <2> HIDE DEF first
  <2>6. \A j, k \in 1 .. Len(queue) : j < k => queue[j] < queue[k]
    BY <2>2 DEF QueueInv, QueueIsExact
  <2>7. \A j \in 1 .. Len(queue) - 1 : first < queue'[j] /\ queue'[j] <= Len(tasks)
    <3>1. \A j \in 1 .. Len(queue) : queue[j] <= Len(tasks)
      BY <2>2 DEF QueueInv, QueueIsExact
    <3> QED BY <2>2, <2>3, <2>6, <3>1
  <2>8. ASSUME NEW i \in DOMAIN tasks'
        PROVE  tasks'[i] = "queued" <=> \E j \in DOMAIN queue' : queue'[j] = i
    <3>1. CASE i = first
      <4>1. tasks'[i] = "running"
        BY <2>4, <3>1
      <4>2. first \in Int /\ \A j \in 1 .. Len(queue) - 1 : queue'[j] \in Int
        BY <2>2, <2>3
      <4>3. \A j \in 1 .. Len(queue) - 1 : queue'[j] # i
        BY <2>7, <3>1, <4>2
      <4> QED BY <2>3, <4>1, <4>3
    <3>2. CASE i # first
      <4>1. tasks'[i] = tasks[i] /\ i \in DOMAIN tasks
        BY <2>4, <3>2
      <4>2. tasks[i] = "queued" <=> \E j \in 1 .. Len(queue) : queue[j] = i
        BY <2>2, <4>1 DEF QueueInv, QueueIsExact
      <4>3. ASSUME NEW j \in 1 .. Len(queue), queue[j] = i
            PROVE  \E k \in 1 .. Len(queue) - 1 : queue'[k] = i
        <5>1. j # 1
          BY <2>2, <3>2, <4>3
        <5>2. j - 1 \in 1 .. Len(queue) - 1 /\ queue'[j - 1] = queue[j]
          BY <2>2, <2>3, <5>1
        <5> QED BY <4>3, <5>2
      <4>4. ASSUME NEW k \in 1 .. Len(queue) - 1, queue'[k] = i
            PROVE  \E j \in 1 .. Len(queue) : queue[j] = i
        <5>1. k + 1 \in 1 .. Len(queue) /\ queue[k + 1] = i
          BY <2>2, <2>3, <4>4
        <5> QED BY <5>1
      <4> QED BY <2>3, <4>1, <4>2, <4>3, <4>4
    <3> QED BY <3>1, <3>2
  <2>9. ASSUME NEW i \in DOMAIN tasks'
        PROVE  tasks'[i] = "running" <=> cur'.id = i
    <3>1. i \in DOMAIN tasks /\ (tasks[i] = "running" <=> cur.id = i) /\ cur.id # i
      BY <2>4, <2>5 DEF QueueInv, QueueIsExact
    <3> QED BY <2>4, <2>5, <3>1
  <2>10. \A j, k \in DOMAIN queue' : j < k => queue'[j] < queue'[k]
    BY <2>2, <2>3, <2>6
  <2>11. first <= Len(tasks)
    BY <2>2 DEF QueueInv, QueueIsExact
  <2>12. pc' \notin Between
    BY <2>5 DEF Between
  <2> QED
    BY <2>3, <2>4, <2>5, <2>7, <2>8, <2>9, <2>10, <2>11, <2>12 DEF QueueInv, QueueIsExact
<1> QED BY <1>1, <1>2 DEF Test, managerVars

\* The download that is done is no longer the worker's.
LEMMA FinishQueues ==
  ASSUME TypeOK, QueueInv, Finish
  PROVE  QueueInv'
<1>1. PICK status \in {"completed", "failed"} : tasks' = [tasks EXCEPT ![cur.id] = status]
  BY DEF Finish
<1>2. queue' = queue /\ cur'.id = 0
  BY DEF Finish, NoTask
<1>3. /\ tasks \in Seq({"queued", "running", "completed", "failed"})
      /\ queue \in Seq(Tasks) /\ cur.id \in Nat /\ Tasks \subseteq Nat
  BY Bounds DEF TypeOK, Tasks
<1>4. /\ Len(tasks') = Len(tasks) /\ DOMAIN tasks' = DOMAIN tasks
      /\ DOMAIN tasks = 1 .. Len(tasks) /\ Len(tasks) \in Nat
      /\ \A i \in DOMAIN tasks : tasks'[i] = IF i = cur.id THEN status ELSE tasks[i]
  BY <1>1, <1>3
<1>5. \A j \in DOMAIN queue : queue[j] \in Nat
  <2>1. \A j \in DOMAIN queue : queue[j] \in Tasks
    BY <1>3
  <2> QED BY <1>3, <2>1
<1>6. \A i \in DOMAIN tasks : i = cur.id => tasks[i] = "running"
  BY DEF QueueInv, QueueIsExact
<1>7. ASSUME NEW i \in DOMAIN tasks'
      PROVE  /\ tasks'[i] = "queued" <=> \E j \in DOMAIN queue' : queue'[j] = i
             /\ tasks'[i] = "running" <=> cur'.id = i
  <2>1. /\ tasks[i] = "queued" <=> \E j \in DOMAIN queue : queue[j] = i
        /\ tasks[i] = "running" <=> cur.id = i
        /\ i \in DOMAIN tasks /\ i # 0
    BY <1>4 DEF QueueInv, QueueIsExact
  <2>2. tasks'[i] = "queued" <=> tasks[i] = "queued"
    BY <1>4, <1>6, <2>1
  <2>3. tasks'[i] # "running"
    BY <1>4, <2>1
  <2> QED BY <1>2, <2>1, <2>2, <2>3
<1>8. \A j \in DOMAIN queue' : cur'.id < queue'[j] /\ queue'[j] <= Len(tasks')
  BY <1>2, <1>3, <1>4, <1>5 DEF QueueInv, QueueIsExact
<1>9. \A j, k \in DOMAIN queue' : j < k => queue'[j] < queue'[k]
  BY <1>2 DEF QueueInv, QueueIsExact
<1>10. cur'.id <= Len(tasks')
  BY <1>2, <1>4
<1> QED BY <1>2, <1>7, <1>8, <1>9, <1>10 DEF QueueInv, QueueIsExact

\* No download is lost, done twice or overtaken on its way from the request to the
\* worker, and none is left "running" by a worker that has ended.
THEOREM DownloadsInOrder == Spec => []QueueIsExact
<1>1. Init => QueueInv
  <2> SUFFICES ASSUME Init PROVE QueueInv
    OBVIOUS
  <2>1. tasks = <<>> /\ queue = <<>> /\ cur.id = 0
    BY DEF Init, NoTask
  <2> QED BY <2>1 DEF QueueInv, QueueIsExact
<1>2. TypeOK /\ QueueInv /\ [Next]_vars => QueueInv'
  <2> SUFFICES ASSUME TypeOK, QueueInv, [Next]_vars PROVE QueueInv'
    OBVIOUS
  <2>1. CASE Top \/ FallAsleep \/ StartTransfer \/ SeeExit \/ Interrupt \/ Reap \/ Settle \/ Curl
    <3>1. /\ tasks' = tasks /\ queue' = queue
          /\ pc' \in Between => pc \in Between
      BY <2>1 DEF Top, FallAsleep, StartTransfer, SeeExit, Interrupt, Reap, Settle, Curl,
           TransferGrows, TransferEnds, WorkerStep, managerVars, Between
    <3>2. cur'.id = cur.id
      BY <2>1 DEF Top, FallAsleep, StartTransfer, SeeExit, Interrupt, Reap, Settle, Curl,
           TransferGrows, TransferEnds, TypeOK
    <3> QED BY <3>1, <3>2, QueueStays
  <2>2. CASE Main \/ StopServer \/ UNCHANGED vars
    <3>1. /\ tasks' = tasks /\ queue' = queue /\ cur' = cur
          /\ pc' \in Between => pc \in Between
      BY <2>2 DEF Main, StartListening, SetStopping, NotifyAll, Join, StopServer, vars,
           managerVars, workerVars, Between
    <3> QED BY <3>1, QueueStays
  <2>3. CASE Crash
    <3>1. tasks' = <<>> /\ queue' = <<>> /\ cur'.id = 0
      BY <2>3 DEF Crash, NoTask
    <3> QED BY <3>1 DEF QueueInv, QueueIsExact
  <2> QED
    BY <2>1, <2>2, <2>3, HandlerQueues, TestQueues, FinishQueues DEF Next, Worker
<1>3. QueueInv => QueueIsExact
  BY DEF QueueInv
<1> QED BY <1>1, <1>2, <1>3, TypeCorrect, PTL DEF Spec

===============================================================================
