------------------------------- MODULE Storage --------------------------------
(* The storage root of the daemon and the threads that work on it: the HTTP    *)
(* handlers (uploads, new directories, moves, deletions, new downloads), the   *)
(* worker thread of the download manager with the curl process it runs, and    *)
(* the main thread, which shuts them down.  There are no locks between         *)
(* handlers; the download manager has one mutex.                               *)
EXTENDS FileTree

CONSTANTS
  NHandlers,  \* threads of the HTTP server
  UploadNames, \* bound: the suffixes k of the names uploads have
  QueueLimit, \* downloads that may wait
  MaxEvents   \* bound: requests and crashes

ASSUME StorageAssumption ==
  /\ {NHandlers, QueueLimit, MaxEvents} \subseteq Nat
  /\ UploadNames \subseteq 0 .. MaxSuffix
  /\ MaxWriters >= MaxEvents
  /\ MaxTasks >= 1 /\ MaxSuffix >= MaxEvents - 1

Handlers == 1 .. NHandlers

VARIABLES
  req,       \* what each handler has in hand
  events,    \* requests and crashes counted against MaxEvents
  tasks,     \* the downloads of this daemon in the order of their ids
  queue,     \* ids of downloads that wait
  pc,        \* where the worker is
  cur,       \* the download of the worker: its id, writer and target
  child,     \* the curl process of the worker
  timedOut,  \* the runner has met the deadline
  main,      \* where the main thread is
  signalled, \* SIGTERM or SIGINT has come
  stopping,  \* DownloadManager::stopping_
  missed     \* history: a stop came when nobody took notice of it

handlerVars == <<req, events>>
managerVars == <<tasks, queue>>
workerVars == <<pc, cur, child, timedOut>>
mainVars == <<main, signalled, stopping, missed>>
vars == <<ent, handlerVars, managerVars, workerVars, mainVars>>

-------------------------------------------------------------------------------
(* What a handler has in hand: the paths it has resolved. *)

Idle == [op |-> "idle", w |-> 0, got |-> 0, src |-> <<>>, name |-> Target(0), dst |-> <<>>]
NoTask == [id |-> 0, w |-> 0, k |-> 0, got |-> 0]

\* The threads are alike: a request goes to the first one that is idle.
Serving(h) ==
  /\ main = "serving"
  /\ req[h] = Idle
  /\ \A g \in 1 .. h - 1 : req[g] # Idle
Accept(h) == Serving(h) /\ events < MaxEvents /\ events' = events + 1
Answered(h) == req' = [req EXCEPT ![h] = Idle]

\* The writer nobody is, nor names the file of, least so that the numbers stay
\* small.
InUse(w) ==
  \/ \E h \in Handlers : req[h].w = w \/ req[h].name = UpTemp(w)
  \/ cur.w = w
  \/ \E d \in Dirs : \E n \in TempNames : IsFile(ent[d][n]) /\ ent[d][n].ref = w
  \/ \E d \in Dirs : IsFile(ent[d][UpTemp(w)])
NewWriter(w) == ~InUse(w) /\ \A v \in 1 .. w - 1 : InUse(v)

\* The worker holds the mutex from its test of the queue until it sleeps, and
\* while it publishes a download.
MutexFree == pc \notin {"falling", "settling"}

Init ==
  /\ ent = [d \in Dirs |-> [n \in Names |->
       IF d = Root /\ n = <<"a", 0>> THEN DirEntry(2)
       ELSE IF d = Root /\ n = <<"b", 0>> THEN DirEntry(3) ELSE Free]]
  /\ events = 0
  /\ req = [h \in Handlers |-> Idle]
  /\ tasks = <<>> /\ queue = <<>>
  /\ pc = "top" /\ cur = NoTask /\ child = "none" /\ timedOut = 0
  /\ main = "starting" /\ signalled = 0 /\ stopping = 0 /\ missed = 0

-------------------------------------------------------------------------------
(* POST /api/upload *)

StartUpload(h) ==
  /\ Accept(h)
  /\ \E p \in Paths : \E k \in UploadNames : \E w \in Writers :
       /\ Walk(p) # NoDir
       /\ NewWriter(w)
       /\ ent' = [ent EXCEPT ![Walk(p)][UpTemp(w)] = NewFile(w)]
       /\ req' = [req EXCEPT ![h] =
            [op |-> "receive", w |-> w, got |-> 0, src |-> p, name |-> Target(k), dst |-> p]]
  /\ UNCHANGED <<managerVars, workerVars, mainVars>>

Receive(h) ==
  /\ req[h].op = "receive"
  /\ req[h].got < Full
  /\ ent' = Grown(req[h].w)
  /\ req' = [req EXCEPT ![h].got = @ + 1]
  /\ UNCHANGED <<events, managerVars, workerVars, mainVars>>

\* Mutant: a broken connection is not told from the end of the body.
PublishAny(h) ==
  /\ req[h].op = "receive"
  /\ CanRename(req[h].src, UpTemp(req[h].w), req[h].src, req[h].name)
  /\ ent' = Published(req[h].src, UpTemp(req[h].w), req[h].src, req[h].name, req[h].w)
  /\ Answered(h)
  /\ UNCHANGED <<events, managerVars, workerVars, mainVars>>

Publish(h) ==
  /\ req[h].op = "receive"
  /\ req[h].got = Full
  /\ CanRename(req[h].src, UpTemp(req[h].w), req[h].src, req[h].name)
  /\ ent' = Published(req[h].src, UpTemp(req[h].w), req[h].src, req[h].name, req[h].w)
  /\ Answered(h)
  /\ UNCHANGED <<events, managerVars, workerVars, mainVars>>

\* The connection breaks, a write fails, or rename fails: an exception.
Fails(h) ==
  /\ req[h].op = "receive"
  /\ \/ req[h].got < Full
     \/ ~CanRename(req[h].src, UpTemp(req[h].w), req[h].src, req[h].name)
  /\ Answered(h)

\* Mutant: the temporary file is left behind.
UploadJustFails(h) ==
  /\ Fails(h)
  /\ UNCHANGED <<ent, events, managerVars, workerVars, mainVars>>

UploadFails(h) ==
  /\ Fails(h)
  /\ ent' = Removed(req[h].src, UpTemp(req[h].w))
  /\ UNCHANGED <<events, managerVars, workerVars, mainVars>>

-------------------------------------------------------------------------------
(* The file service *)

\* Bound: new directories are made in the root.
CreateDirectory(h) ==
  /\ Accept(h)
  /\ \E n \in DirNames : \E d \in Dirs :
       /\ ent[Root][n] = Free
       /\ Unused(d)
       /\ \A c \in 1 .. d - 1 : ~Unused(c)
       /\ ent' = [ent EXCEPT ![Root][n] = DirEntry(d)]
  /\ UNCHANGED <<req, managerVars, workerVars, mainVars>>

Remove(h) ==
  /\ Accept(h)
  /\ \E p \in Paths : \E n \in Names :
       /\ At(p, n) # Free
       /\ ent' = RemovedAll(p, n)
  /\ UNCHANGED <<req, managerVars, workerVars, mainVars>>

\* FileService::move up to its last check.  What it moves may be an unfinished
\* file, which the list shows like any other.
CheckMove(h) ==
  /\ Accept(h)
  /\ \E p, q \in Paths : \E n \in Names :
       /\ At(p, n) # Free
       /\ Walk(q) # NoDir
       /\ IsDir(At(p, n)) => At(p, n).ref \notin Passed(q)
       /\ p # q
       /\ At(q, n) = Free
       /\ req' = [req EXCEPT ![h] =
            [op |-> "move", w |-> 0, got |-> 0, src |-> p, name |-> n, dst |-> q]]
  /\ UNCHANGED <<ent, managerVars, workerVars, mainVars>>

\* Its rename, which works on the tree of this moment.
Move(h) ==
  LET p == req[h].src
      q == req[h].dst
      n == req[h].name
  IN  /\ req[h].op = "move"
      /\ \/ /\ CanRename(p, n, q, n)
            /\ ent' = Moved(p, n, q)
         \/ ~CanRename(p, n, q, n) /\ UNCHANGED ent
      /\ Answered(h)
      /\ UNCHANGED <<events, managerVars, workerVars, mainVars>>

-------------------------------------------------------------------------------
(* The download manager: POST /api/downloads *)

\* Mutant: the worker is not notified.
EnqueueQuietly(h) ==
  /\ Accept(h)
  /\ MutexFree
  /\ Len(tasks) < MaxTasks
  /\ Len(queue) < QueueLimit
  /\ tasks' = Append(tasks, "queued")
  /\ queue' = Append(queue, Len(tasks) + 1)
  /\ UNCHANGED <<ent, req, workerVars, mainVars>>

Enqueue(h) ==
  /\ Accept(h)
  /\ MutexFree
  /\ Len(tasks) < MaxTasks
  /\ Len(queue) < QueueLimit
  /\ tasks' = Append(tasks, "queued")
  /\ queue' = Append(queue, Len(tasks) + 1)
  /\ req' = [req EXCEPT ![h].op = "notify"]
  /\ UNCHANGED <<ent, workerVars, mainVars>>

\* wake_.notify_one, after the unlock.
NotifyOne(h) ==
  /\ req[h].op = "notify"
  /\ pc' = IF pc = "asleep" THEN "waiting" ELSE pc
  /\ Answered(h)
  /\ UNCHANGED <<ent, events, managerVars, cur, child, timedOut, mainVars>>

-------------------------------------------------------------------------------
(* The worker thread: DownloadManager::work and download *)

WorkerStep(from, to) == pc = from /\ pc' = to

Top ==
  /\ pc = "top"
  /\ pc' = IF stopping = 1 THEN "gone" ELSE "waiting"
  /\ UNCHANGED <<ent, handlerVars, managerVars, cur, child, timedOut, mainVars>>

\* The predicate of the wait, under the mutex.
Test ==
  /\ pc = "waiting"
  /\ \/ stopping = 1 /\ pc' = "gone" /\ UNCHANGED <<managerVars, cur>>
     \/ stopping = 0 /\ queue = <<>> /\ pc' = "falling" /\ UNCHANGED <<managerVars, cur>>
     \/ /\ stopping = 0
        /\ queue # <<>>
        /\ pc' = "picked"
        /\ queue' = Tail(queue)
        /\ tasks' = [tasks EXCEPT ![Head(queue)] = "running"]
        /\ cur' = [NoTask EXCEPT !.id = Head(queue)]
  /\ UNCHANGED <<ent, handlerVars, child, timedOut, mainVars>>

\* The condition variable gives the mutex up and puts the worker to sleep.
FallAsleep ==
  /\ WorkerStep("falling", "asleep")
  /\ UNCHANGED <<ent, handlerVars, managerVars, cur, child, timedOut, mainVars>>

\* uniqueTarget: the first name that nothing has.
FirstFree(k) ==
  /\ ent[Root][Target(k)] = Free
  /\ \A j \in 0 .. k - 1 : ent[Root][Target(j)] # Free

\* The name is chosen, and curl starts, which opens its output anew.
StartTransfer ==
  /\ WorkerStep("picked", "running")
  /\ \E k \in 0 .. MaxSuffix : \E w \in Writers :
       /\ FirstFree(k)
       /\ NewWriter(w)
       /\ cur' = [id |-> cur.id, w |-> w, k |-> k, got |-> 0]
       /\ ent' = [ent EXCEPT ![Root][DlTemp(k, cur.id)] = NewFile(w)]
  /\ child' = "running"
  /\ timedOut' = 0
  /\ UNCHANGED <<handlerVars, managerVars, mainVars>>

\* runCommand sees that curl has ended.
SeeExit ==
  /\ WorkerStep("running", "ended")
  /\ child # "running"
  /\ UNCHANGED <<ent, handlerVars, managerVars, cur, child, timedOut, mainVars>>

\* It meets the deadline or sees the cancel flag while curl runs, and kills it.
Interrupt ==
  /\ WorkerStep("running", "killing")
  /\ child = "running"
  /\ \/ timedOut' = 1
     \/ stopping = 1 /\ timedOut' = 0
  /\ UNCHANGED <<ent, handlerVars, managerVars, cur, child, mainVars>>

\* Curl may still have ended by itself before the signal.
Reap ==
  /\ WorkerStep("killing", "ended")
  /\ child' = IF child = "running" THEN "killed" ELSE child
  /\ UNCHANGED <<ent, handlerVars, managerVars, cur, timedOut, mainVars>>

\* CommandResult::ok
Succeeded == child = "done" /\ timedOut = 0

Temporary == DlTemp(cur.k, cur.id)
CanPublish == CanRename(<<>>, Temporary, <<>>, Target(cur.k))

\* The rename, under the mutex.
Settle ==
  /\ WorkerStep("ended", "settling")
  /\ IF Succeeded /\ stopping = 0 /\ CanPublish
     THEN /\ ent' = Published(<<>>, Temporary, <<>>, Target(cur.k), cur.w)
          /\ child' = "published"
     ELSE UNCHANGED <<ent, child>>
  /\ UNCHANGED <<handlerVars, managerVars, cur, timedOut, mainVars>>

\* The status; a failed download has its file removed.
Finish ==
  /\ WorkerStep("settling", "top")
  /\ IF child = "published" /\ stopping = 0
     THEN /\ tasks' = [tasks EXCEPT ![cur.id] = "completed"]
          /\ UNCHANGED ent
     ELSE /\ tasks' = [tasks EXCEPT ![cur.id] = "failed"]
          /\ ent' = Removed(<<>>, Temporary)
  /\ child' = "none" /\ cur' = NoTask /\ timedOut' = 0
  /\ UNCHANGED <<handlerVars, queue, mainVars>>

-------------------------------------------------------------------------------
(* Curl *)

TransferGrows ==
  /\ child = "running"
  /\ cur.got < Full
  /\ cur' = [cur EXCEPT !.got = @ + 1]
  /\ ent' = Grown(cur.w)
  /\ UNCHANGED <<handlerVars, managerVars, pc, child, timedOut, mainVars>>

TransferEnds ==
  /\ child = "running"
  /\ child' = IF cur.got = Full THEN "done" ELSE "failed"
  /\ UNCHANGED <<ent, handlerVars, managerVars, pc, cur, timedOut, mainVars>>

-------------------------------------------------------------------------------
(* The main thread *)

StartListening ==
  /\ main = "starting"
  /\ main' = "serving"
  /\ UNCHANGED <<ent, handlerVars, managerVars, workerVars,
                 signalled, stopping, missed>>

\* stopServer: Server::stop does nothing before the server listens.
StopServer ==
  /\ signalled = 0
  /\ signalled' = 1
  /\ main' = IF main = "serving" THEN "closing" ELSE main
  /\ missed' = IF main = "starting" THEN 1 ELSE missed
  /\ UNCHANGED <<ent, handlerVars, managerVars, workerVars,
                 stopping>>

\* The server has let its handlers end; ~DownloadManager sets its flag, without
\* the mutex.
SetStopping ==
  /\ main = "closing"
  /\ \A h \in Handlers : req[h] = Idle
  /\ main' = "notifying"
  /\ stopping' = 1
  /\ UNCHANGED <<ent, handlerVars, managerVars, workerVars,
                 signalled, missed>>

\* Mutant: the destructor does not wake the worker.
NotifyNobody ==
  /\ main = "notifying"
  /\ main' = "joining"
  /\ UNCHANGED <<ent, handlerVars, managerVars, workerVars,
                 signalled, stopping, missed>>

\* wake_.notify_all, without the mutex.
NotifyAll ==
  /\ main = "notifying"
  /\ main' = "joining"
  /\ pc' = IF pc = "asleep" THEN "waiting" ELSE pc
  /\ missed' = IF pc = "falling" THEN 1 ELSE missed
  /\ UNCHANGED <<ent, handlerVars, managerVars, cur, child, timedOut,
                 signalled, stopping>>

\* No task has a temporary file any more when the worker is gone.
Join ==
  /\ main = "joining"
  /\ pc = "gone"
  /\ main' = "ended"
  /\ UNCHANGED <<ent, handlerVars, managerVars, workerVars,
                 signalled, stopping, missed>>

\* The daemon dies, with its curl, and is started again.
Crash ==
  /\ main # "ended"
  /\ events < MaxEvents
  /\ events' = events + 1
  /\ ent' = Strayed(ent, Dirs \X TempNames)
  /\ req' = [h \in Handlers |-> Idle]
  /\ tasks' = <<>> /\ queue' = <<>>
  /\ pc' = "top" /\ cur' = NoTask /\ child' = "none" /\ timedOut' = 0
  /\ main' = "starting" /\ signalled' = 0 /\ stopping' = 0 /\ missed' = 0

-------------------------------------------------------------------------------
HandlerStep(h) ==
  \/ Receive(h) \/ Publish(h) \/ UploadFails(h) \/ Move(h) \/ NotifyOne(h)

Request(h) ==
  \/ StartUpload(h) \/ CreateDirectory(h) \/ Remove(h) \/ CheckMove(h) \/ Enqueue(h)

Worker ==
  \/ Top \/ Test \/ FallAsleep \/ StartTransfer \/ SeeExit \/ Interrupt \/ Reap
  \/ Settle \/ Finish

Curl == TransferGrows \/ TransferEnds

Main == StartListening \/ SetStopping \/ NotifyAll \/ Join

Next ==
  \/ \E h \in Handlers : HandlerStep(h) \/ Request(h)
  \/ Worker \/ Curl \/ Main \/ StopServer \/ Crash

Spec == Init /\ [][Next]_vars

\* A client that sends nothing meets the read timeout, and a transfer its
\* deadline, so that each thread but the sleeping worker can go on in the end.
\* That some thread does is all the properties need.  Curl need never end by
\* itself, and nobody has to send a request.
Progress == Worker \/ Main \/ \E h \in Handlers : HandlerStep(h)

FairSpec == Spec /\ WF_vars(Progress)

-------------------------------------------------------------------------------
(* Properties *)

TypeOK ==
  /\ TreeOK
  /\ events \in 0 .. MaxEvents
  /\ req \in [Handlers ->
       [op : {"idle", "receive", "move", "notify"}, w : 0 .. MaxWriters,
        got : 0 .. Full, src : Paths, name : Names, dst : Paths]]
  /\ tasks \in Seq({"queued", "running", "completed", "failed"})
  /\ queue \in Seq(Tasks) /\ Len(queue) <= QueueLimit
  /\ pc \in {"top", "waiting", "falling", "asleep", "picked", "running", "killing",
             "ended", "settling", "gone"}
  /\ cur \in [id : 0 .. MaxTasks, w : 0 .. MaxWriters, k : 0 .. MaxSuffix, got : 0 .. Full]
  /\ child \in {"none", "running", "done", "failed", "killed", "published"}
  /\ main \in {"starting", "serving", "closing", "notifying", "joining", "ended"}
  /\ {timedOut, signalled, stopping, missed} \subseteq {0, 1}

\* "Written to a temporary file, renamed when it succeeds", of uploads and of
\* downloads: no user ever sees an unfinished file under a name of its own,
\* whatever files and directories are moved or deleted meanwhile, the unfinished
\* ones too.  Excused is what a download publishes that is not the file its curl
\* wrote: ids start again with the daemon, so that a leftover of an earlier one,
\* moved away and back in its place, has the name of the file it should be.
VisibleIsWhole ==
  \A d \in Dirs : \A n \in FileNames :
    IsFile(ent[d][n]) => ent[d][n].size = Full \/ ent[d][n].stray = 1

\* A temporary file nobody works on any more is left behind only when it or a
\* directory above it was moved, or the daemon died.
NoLeftover ==
  \A d \in Dirs : \A n \in TempNames : IsFile(ent[d][n]) =>
    \/ ent[d][n].stray = 1
    \/ \E h \in Handlers : req[h].w = ent[d][n].ref
    \/ cur.w = ent[d][n].ref

\* The worker never sleeps over a download unless the handler that queued it is
\* about to notify it, nor over a stop unless the destructor is, or its notification
\* fell between the test of the queue and the sleep.
SleepsWithReason ==
  pc = "asleep" =>
    /\ queue # <<>> => \E h \in Handlers : req[h].op = "notify"
    /\ stopping = 1 => main = "notifying" \/ missed = 1

\* Every download a running daemon accepts ends, however its wake-up interleaves
\* with the worker, and whatever becomes of the file it writes.  (There are
\* finitely many requests, so it is enough that at some moment none is left.)
AllEnded == \A i \in DOMAIN tasks : tasks[i] \in {"completed", "failed"}
EveryDownloadEnds == ~AllEnded ~> AllEnded \/ main # "serving"

\* A stop request ends the daemon, also in the middle of a transfer, unless it
\* comes before the server listens, or the notification falls between the
\* worker's test of the queue and its sleep.
StopEnds == signalled = 1 ~> main = "ended" \/ missed = 1 \/ signalled = 0
===============================================================================
