--------------------------- MODULE ProcessControl ---------------------------
(***************************************************************************)
(* Starting, stopping and upgrading a process by its pid file: the command *)
(* line (src/util/startup), the signal goroutine (src/util/kprocess) and   *)
(* what main does around them (src/app), on Linux and macOS.               *)
(*                                                                         *)
(* `-s start' becomes the application unless the pid file exists; `-s      *)
(* restart' and `-s stop' signal the process the file names, and end.  The *)
(* application writes the file when it is ready and removes it when it is  *)
(* stopped; an upgrade is a child with the same command line.  All that    *)
(* orders these steps is the file.                                         *)
(*                                                                         *)
(* The processes are those of `-s start'; one restart or stop is on its    *)
(* way at a time (cli).                                                    *)
(***************************************************************************)
EXTENDS Naturals

CONSTANTS MaxProcs,       \* bound: processes run with -s start
          None,           \* no process, no file
          Dir,            \* the file is a directory (app.go:154)
          MaxEvents       \* bound: crashes, failures, signals and removals from outside

ASSUME ProcessAssumption ==
    /\ MaxProcs \in Nat /\ MaxEvents \in Nat
    /\ None \notin Nat /\ Dir \notin Nat /\ Dir # None

Procs == 1..MaxProcs      \* their pids, in the order they are started

VARIABLES pidFile,        \* whose pid is in the file
          cli,            \* the restart or stop command that has read the file
          pc,             \* per process, its main goroutine
          parent,         \* ... the process it is an upgrade of
          sig,            \* ... its channel of signals, of capacity one
          handler,        \* ... its signal goroutine
          child,          \* ... the upgrade it is waiting for
          exitCh,         \* ... kp.Exit() is closed
          events,
          raced,          \* history: a start was accepted before another one had
                          \* written the file, or the file of a running process was
                          \* removed, by hand or by another process
          abandoned       \* history: the process that wrote the file crashed, could not
                          \* tell its parent, stopped serving, ended before it had
                          \* removed the file, or had been told to stop before it
                          \* wrote it

signals == <<sig, handler, child, exitCh>>
history == <<events, raced, abandoned>>
vars == <<pidFile, cli, pc, parent, signals, history>>

TypeOK ==
    /\ pidFile \in Procs \cup {None, Dir}
    /\ cli \in {None} \cup ({"restart", "stop"} \X Procs)
    /\ pc \in [Procs -> {"free", "check", "setup", "listening", "announce", "serving",
                         "draining", "leaving", "refused", "dead"}]
    /\ parent \in [Procs -> Procs \cup {None}]
    /\ sig \in [Procs -> {"none", "term", "usr1"}]
    /\ handler \in [Procs -> {"none", "loop", "remove", "upgrade", "done"}]
    /\ child \in [Procs -> Procs \cup {None}]
    /\ exitCh \in [Procs -> BOOLEAN]
    /\ events \in 0..MaxEvents
    /\ raced \in BOOLEAN
    /\ abandoned \in BOOLEAN

Init ==
    /\ pidFile \in {None, Dir}
    /\ cli = None
    /\ pc = [p \in Procs |-> "free"]
    /\ parent = [p \in Procs |-> None]
    /\ sig = [p \in Procs |-> "none"]
    /\ handler = [p \in Procs |-> "none"]
    /\ child = [p \in Procs |-> None]
    /\ exitCh = [p \in Procs |-> FALSE]
    /\ events = 0 /\ raced = FALSE /\ abandoned = FALSE

At(labels) == {p \in Procs : pc[p] \in labels}
Fresh(p) == p \in Procs /\ pc[p] = "free" /\ \A q \in Procs : q < p => pc[q] # "free"
Running(p) == pc[p] \notin {"free", "refused", "dead"}
Window == At({"setup", "listening"})             \* between the check and the file
Announced == At({"announce", "serving"})
Accepted == {p \in Window \cup Announced : ~exitCh[p]}
Orphaned(p) == parent[p] \in Procs /\ ~Running(parent[p])
Goto(p, l) == pc' = [pc EXCEPT ![p] = l]

(* A process ends, and leaves nothing but, when it should not, the file.   *)
Ends(p, l, early) ==
    /\ Goto(p, l)
    /\ abandoned' = (abandoned \/ (pidFile = p /\ early))
    /\ parent' = [parent EXCEPT ![p] = None]
    /\ sig' = [sig EXCEPT ![p] = "none"]
    /\ handler' = [handler EXCEPT ![p] = "none"]
    /\ child' = [child EXCEPT ![p] = None]
    /\ exitCh' = [exitCh EXCEPT ![p] = FALSE]

-----------------------------------------------------------------------------
(* Mistakes the code does not make, for the properties to catch.           *)

(* A directory is taken for a process.                                     *)
BugReadPid(c) ==
    /\ cli = None /\ pidFile # None
    /\ cli' = <<c, pidFile>>
    /\ UNCHANGED <<pidFile, pc, parent, signals, history>>

(* The lookup of the pid file is forgotten.                                *)
BugCheckStart(p) ==
    /\ pc[p] = "check"
    /\ Goto(p, "setup")
    /\ raced' = (raced \/ Window # {})
    /\ UNCHANGED <<pidFile, cli, parent, signals, events, abandoned>>

(* The file is removed before the exit channel is closed.                  *)
BugTakeTerm(p) ==
    /\ Running(p) /\ handler[p] = "loop" /\ sig[p] = "term"
    /\ sig' = [sig EXCEPT ![p] = "none"]
    /\ handler' = [handler EXCEPT ![p] = "remove"]
    /\ pidFile' = IF pidFile = Dir THEN Dir ELSE None
    /\ UNCHANGED <<cli, pc, parent, child, exitCh, history>>

(* Stop alone, without the removal of the file.                            *)
BugRemovePid(p) ==
    /\ Running(p) /\ handler[p] = "remove"
    /\ handler' = [handler EXCEPT ![p] = "done"]
    /\ UNCHANGED <<pidFile, cli, pc, parent, sig, child, exitCh, history>>

(* An upgrade that waits for its child for ever.                           *)
BugUpgradeTimeout(p) == FALSE

-----------------------------------------------------------------------------
(* Commands *)

(* The operator runs -s start.                                             *)
Launch ==
    /\ \E p \in Procs : Fresh(p) /\ Goto(p, "check")
    /\ UNCHANGED <<pidFile, cli, parent, signals, history>>

(* It is refused if the file is there, whatever is in it.                  *)
CheckStart(p) ==
    /\ pc[p] = "check"
    /\ IF pidFile # None THEN Ends(p, "refused", FALSE) /\ raced' = raced
       ELSE /\ Goto(p, "setup") /\ raced' = (raced \/ Window # {})
            /\ UNCHANGED <<parent, signals, abandoned>>
    /\ UNCHANGED <<pidFile, cli, events>>

(* -s restart and -s stop read the file, ...                               *)
ReadPid(c) ==
    /\ cli = None /\ pidFile \in Procs
    /\ cli' = <<c, pidFile>>
    /\ UNCHANGED <<pidFile, pc, parent, signals, history>>

(* ... and signal the process, unless it has ended since.  A signal goes   *)
(* into the channel of the process, or is dropped if the channel is full.  *)
Delivered(p, s) == sig' = [sig EXCEPT ![p] = IF @ = "none" THEN s ELSE @]

SendSignal ==
    /\ cli # None
    /\ cli' = None
    /\ IF Running(cli[2]) THEN Delivered(cli[2], IF cli[1] = "stop" THEN "term" ELSE "usr1")
       ELSE sig' = sig
    /\ UNCHANGED <<pidFile, pc, parent, handler, child, exitCh, history>>

-----------------------------------------------------------------------------
(* The main goroutine *)

(* kp.Listen: the signal goroutine starts; the port may be taken by        *)
(* anybody, and then main leaves without having been ready.                *)
Listen(p) ==
    /\ pc[p] = "setup"
    /\ handler' = [handler EXCEPT ![p] = "loop"]
    /\ Goto(p, "listening") \/ Goto(p, "leaving")
    /\ UNCHANGED <<pidFile, cli, parent, sig, child, exitCh, history>>

(* Initialisation or registration fails; main leaves.                      *)
SetUpFails(p) ==
    /\ pc[p] = "setup"
    /\ Ends(p, "dead", FALSE)
    /\ UNCHANGED <<pidFile, cli, events, raced>>

(* Ready writes the pid file, over any other, if it can, ...               *)
WritePid(p) ==
    /\ pc[p] = "listening"
    /\ \/ Goto(p, "announce") /\ pidFile' = p /\ abandoned' = exitCh[p]
       \/ Goto(p, "draining") /\ UNCHANGED <<pidFile, abandoned>>
    /\ UNCHANGED <<cli, parent, signals, events, raced>>

(* ... and then tells the parent, if there is one.  The parent of an       *)
(* upgrade may have ended meanwhile: then the write to its pipe fails, and *)
(* main leaves without removing the file.                                  *)
Announce(p) ==
    /\ pc[p] = "announce"
    /\ IF Orphaned(p) THEN Goto(p, "draining") /\ abandoned' = (abandoned \/ pidFile = p)
       ELSE Goto(p, "serving") /\ abandoned' = abandoned
    /\ UNCHANGED <<pidFile, cli, parent, signals, events, raced>>

(* <-kp.Exit().                                                            *)
Exit(p) ==
    /\ pc[p] = "serving" /\ exitCh[p]
    /\ Goto(p, "draining")
    /\ UNCHANGED <<pidFile, cli, parent, signals, history>>

(* Serve returns with an error, and nobody removes the pid file.           *)
ServeFails(p) ==
    /\ pc[p] = "serving" /\ events < MaxEvents
    /\ events' = events + 1
    /\ abandoned' = (abandoned \/ pidFile = p)
    /\ Goto(p, "draining")
    /\ UNCHANGED <<pidFile, cli, parent, signals, raced>>

(* Unregistration, drain and appShutdown, 30 s at most: main returns, and  *)
(* with it the signal goroutine ends wherever it is.                       *)
Die(p) ==
    /\ pc[p] \in {"draining", "leaving"}
    /\ Ends(p, "dead", handler[p] = "remove")
    /\ UNCHANGED <<pidFile, cli, events, raced>>

-----------------------------------------------------------------------------
(* The signal goroutine *)

(* stop: Upgrader.Stop closes the exit channel ...                         *)
TakeTerm(p) ==
    /\ Running(p) /\ handler[p] = "loop" /\ sig[p] = "term"
    /\ sig' = [sig EXCEPT ![p] = "none"]
    /\ exitCh' = [exitCh EXCEPT ![p] = TRUE]
    /\ handler' = [handler EXCEPT ![p] = "remove"]
    /\ UNCHANGED <<pidFile, cli, pc, parent, child, history>>

(* ... and then the file is removed, whoever it names.                     *)
RemovePid(p) ==
    /\ Running(p) /\ handler[p] = "remove"
    /\ pidFile' = IF pidFile = Dir THEN Dir ELSE None
    /\ handler' = [handler EXCEPT ![p] = "done"]
    /\ abandoned' = FALSE
    /\ raced' = (raced \/ (pidFile \in Procs \ {p} /\ Running(pidFile)))
    /\ UNCHANGED <<cli, pc, parent, sig, child, exitCh, events>>

(* upgrade: refused before Ready, while the parent is there and after the  *)
(* exit; otherwise a child with the same command line, unless it cannot be *)
(* run.  Ready admits upgrades from just before it writes the file; a      *)
(* restart, which reads the file, comes after that.                        *)
TakeUsr1(p) ==
    /\ Running(p) /\ handler[p] = "loop" /\ sig[p] = "usr1"
    /\ sig' = [sig EXCEPT ![p] = "none"]
    /\ \/ UNCHANGED <<pc, parent, handler, child>>
       \/ /\ pc[p] \in {"announce", "serving", "draining"} /\ ~exitCh[p]
          /\ parent[p] = None \/ Orphaned(p)
          /\ handler' = [handler EXCEPT ![p] = "upgrade"]
          /\ \E c \in Procs :
                /\ Fresh(c) /\ Goto(c, "check")
                /\ parent' = [parent EXCEPT ![c] = p]
                /\ child' = [child EXCEPT ![p] = c]
    /\ UNCHANGED <<pidFile, cli, exitCh, history>>

Upgrading(p) == Running(p) /\ handler[p] = "upgrade"

(* The child is ready: the parent may leave, ...                           *)
UpgradeDone(p) ==
    /\ Upgrading(p) /\ pc[child[p]] = "serving"
    /\ exitCh' = [exitCh EXCEPT ![p] = TRUE]
    /\ handler' = [handler EXCEPT ![p] = "loop"]
    /\ child' = [child EXCEPT ![p] = None]
    /\ UNCHANGED <<pidFile, cli, pc, parent, sig, history>>

(* ... it has ended ("child exited"), ...                                  *)
UpgradeFails(p) ==
    /\ Upgrading(p) /\ ~Running(child[p])
    /\ handler' = [handler EXCEPT ![p] = "loop"]
    /\ child' = [child EXCEPT ![p] = None]
    /\ UNCHANGED <<pidFile, cli, pc, parent, sig, exitCh, history>>

(* ... or it is killed after UpgradeTimeout.                               *)
UpgradeTimeout(p) ==
    /\ Upgrading(p) /\ Running(child[p]) /\ pc[child[p]] # "serving"
    /\ pc' = [pc EXCEPT ![child[p]] = "dead"]
    /\ parent' = [parent EXCEPT ![child[p]] = None]
    /\ sig' = [sig EXCEPT ![child[p]] = "none"]
    /\ handler' = [handler EXCEPT ![child[p]] = "none", ![p] = "loop"]
    /\ child' = [child EXCEPT ![child[p]] = None, ![p] = None]
    /\ exitCh' = [exitCh EXCEPT ![child[p]] = FALSE]
    /\ abandoned' = (abandoned \/ pidFile = child[p])
    /\ UNCHANGED <<pidFile, cli, events, raced>>

-----------------------------------------------------------------------------
(* The environment *)

(* A supervisor sends SIGTERM, which ends a process that does not listen   *)
(* to signals yet.                                                         *)
Terminate(p) ==
    /\ p \in At({"setup", "listening", "announce", "serving"})
    /\ events < MaxEvents
    /\ events' = events + 1
    /\ IF handler[p] = "none" THEN Ends(p, "dead", FALSE)
       ELSE Delivered(p, "term") /\ UNCHANGED <<pc, parent, handler, child, exitCh, abandoned>>
    /\ UNCHANGED <<pidFile, cli, raced>>

Crash(p) ==
    /\ Running(p) /\ events < MaxEvents
    /\ events' = events + 1
    /\ Ends(p, "dead", TRUE)
    /\ UNCHANGED <<pidFile, cli, raced>>

(* The operator removes the file, be it stale or not.                      *)
OperatorRemoves ==
    /\ pidFile \in Procs /\ events < MaxEvents
    /\ pidFile' = None
    /\ events' = events + 1
    /\ raced' = (raced \/ Running(pidFile))
    /\ abandoned' = FALSE
    /\ UNCHANGED <<cli, pc, parent, signals>>

-----------------------------------------------------------------------------
Main(p) == Listen(p) \/ SetUpFails(p) \/ WritePid(p) \/ Announce(p) \/ Exit(p) \/ Die(p)
Handler(p) ==
    TakeTerm(p) \/ RemovePid(p) \/ TakeUsr1(p) \/ UpgradeDone(p) \/ UpgradeFails(p)
    \/ UpgradeTimeout(p)

Next ==
    \/ Launch \/ (\E c \in {"restart", "stop"} : ReadPid(c)) \/ SendSignal
    \/ \E p \in Procs :
          \/ CheckStart(p) \/ Main(p) \/ ServeFails(p) \/ Handler(p) \/ Terminate(p) \/ Crash(p)
    \/ OperatorRemoves

(* The goroutines of a process run, and the drain is bounded by the forced *)
(* exit.  Nobody need run a command, and nothing need fail.                *)
Spec == Init /\ [][Next]_vars /\ \A p \in Procs : WF_vars(Main(p)) /\ WF_vars(Handler(p))

-----------------------------------------------------------------------------
(* Properties *)

(* The check of the pid file and its writing are far apart (startup.go:30, *)
(* tableflip_linux.go:47).  Unless two starts overlapped between the two,  *)
(* or the file of a running process was removed, at most one process that  *)
(* has not been told to exit is past its check.                            *)
OneUnlessRaced == ~raced => \A p, q \in Accepted : p = q

(* ... and a serving process that has not been told to exit is the one the *)
(* file names, so that restart and stop reach it.                          *)
ReachableUnlessRaced ==
    \A p \in Announced :
        ~exitCh[p] /\ ~raced => pidFile = p

(* "-s restart: restart the current process" (README.md:360) starts the    *)
(* upgrade through the same check as any other start (startup.go:30), and  *)
(* it finds the file of its own parent: from the moment its parent has     *)
(* written the file and as long as that serves, no upgrade gets past the   *)
(* check, unless starts raced.                                             *)
UpgradesReplaceNobody ==
    ~raced => \A p \in Procs :
        child[p] # None /\ p \in Announced => pc[child[p]] \in {"check", "refused", "dead"}

(* A file that names a process that has ended, and refuses every start, is *)
(* left behind only by a process that crashed, stopped serving, was told   *)
(* to stop too early, could not tell its parent that it is ready           *)
(* (tableflip_linux.go:47-49), or whose main goroutine was faster than the *)
(* one that removes the file (54-60).                                      *)
StaleOnlyAfterCut ==
    \A p \in Procs :
        pidFile = p => Running(p) \/ abandoned

(* A SIGTERM that has been put in the channel of a process ends it, also   *)
(* one that arrives during an upgrade, whose child never gets ready.       *)
StopsWhenTold ==
    \A p \in Procs : sig[p] = "term" ~> pc[p] = "dead"

(* "-s restart: restart the current process" (README.md:360): the child is *)
(* not refused by the pid file of its own parent.                          *)
RestartNotRefused ==
    [][\A c \in Procs :
           pc[c] = "check" /\ parent[c] # None => pc'[c] # "refused"]_vars
==============================================================================
