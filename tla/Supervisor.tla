----------------------------- MODULE Supervisor -----------------------------
(***************************************************************************)
(* The life of the socket files: `run` (cli/commands/run.rs) with          *)
(* prepare_socket_path (utils/socket.rs), for several instances of the     *)
(* program that share a file system, may be configured for the same path,  *)
(* and may be killed and started again at any moment.                      *)
(***************************************************************************)
CONSTANTS
    Procs,   \* instances of the program
    Names,   \* names of the configured sockets
    Config,  \* per instance: the path of each socket it is to serve
    Paths,
    Inodes,  \* inode numbers; a freed number is used again
    NoFile,  \* nothing at a path; no inode; no listener
    Link,    \* a symbolic link at a path
    NoName

ASSUME SupervisorAssumption ==
    /\ \A p \in Procs : /\ DOMAIN Config[p] \subseteq Names
                        /\ \A n \in DOMAIN Config[p] : Config[p][n] \in Paths
    /\ NoFile \notin Inodes \cup {Link}
    /\ Link \notin Inodes
    /\ NoName \notin Names

VARIABLES
    fs,       \* what is at each path
    pc,       \* where each instance is
    left,     \* the sockets an instance has still to start, or to clean up
    entry,    \* the socket it is working on
    sock,     \* per instance and socket: the inode its open listener is bound to
    started,  \* socket_paths: the sockets that were started ...
    watched,  \* ... and the inode that was recorded for each
    ended,    \* how the instance ended last
    alone,    \* history: no other instance has been alive since it started
    own       \* history: the paths whose file the instance, in this life, made

vars == <<fs, pc, left, entry, sock, started, watched, ended, alone, own>>

Label == {"off", "pick", "stat", "unlink", "bind", "chmod", "record", "run",
          "clean", "remove"}

Ending == {"none", "clean", "bail", "crash", "sigterm"}

TypeOK ==
    /\ fs \in [Paths -> Inodes \cup {NoFile, Link}]
    /\ pc \in [Procs -> Label]
    /\ left \in [Procs -> SUBSET Names]
    /\ entry \in [Procs -> Names \cup {NoName}]
    /\ sock \in [Procs -> [Names -> Inodes \cup {NoFile}]]
    /\ started \in [Procs -> SUBSET Names]
    /\ watched \in [Procs -> [Names -> Inodes \cup {NoFile, Link}]]
    /\ ended \in [Procs -> Ending]
    /\ alone \in [Procs -> BOOLEAN]
    /\ own \in [Procs -> SUBSET Paths]
    \* "No sockets could be started": nobody serves, or stops, with nothing.
    /\ \A p \in Procs : pc[p] \in {"run", "clean", "remove"} => started[p] # {}

NoSockets == [n \in Names |-> NoFile]

Init ==
    /\ fs \in [Paths -> {NoFile, Link}]
    /\ pc = [p \in Procs |-> "off"]
    /\ left = [p \in Procs |-> {}]
    /\ entry = [p \in Procs |-> NoName]
    /\ sock = [p \in Procs |-> NoSockets]
    /\ started = [p \in Procs |-> {}]
    /\ watched = [p \in Procs |-> NoSockets]
    /\ ended = [p \in Procs |-> "none"]
    /\ alone = [p \in Procs |-> FALSE]
    /\ own = [p \in Procs |-> {}]

Goto(p, label) == pc' = [pc EXCEPT ![p] = label]

(* The path of the socket an instance is working on. *)
PathAt(p) == Config[p][entry[p]]

(* A number is free when no file and no open listener holds its inode. *)
FreeInodes ==
    Inodes \ ({fs[f] : f \in Paths} \cup {sock[p][n] : p \in Procs, n \in Names})

-----------------------------------------------------------------------------
(***************************************************************************)
(* Starting: one turn of `for (name, spec) in &config.sockets` for each    *)
(* socket, in any order (a HashMap).                                       *)
(***************************************************************************)
Start(p) ==
    /\ pc[p] = "off" /\ DOMAIN Config[p] # {}
    /\ Goto(p, "pick")
    /\ left' = [left EXCEPT ![p] = DOMAIN Config[p]]
    /\ ended' = [ended EXCEPT ![p] = "none"]
    /\ alone' = [q \in Procs |-> q = p /\ \A r \in Procs \ {p} : pc[r] = "off"]
    /\ UNCHANGED <<fs, entry, sock, started, watched, own>>

Pick(p) ==
    /\ pc[p] = "pick"
    /\ \E n \in left[p] :
          /\ entry' = [entry EXCEPT ![p] = n]
          /\ left' = [left EXCEPT ![p] = @ \ {n}]
    /\ Goto(p, "stat")
    /\ UNCHANGED <<fs, sock, started, watched, ended, alone, own>>

(* `continue`: an error skips the socket and leaves the others alone. *)
NextEntry(p) ==
    /\ Goto(p, "pick")
    /\ entry' = [entry EXCEPT ![p] = NoName]

(***************************************************************************)
(* The upstream socket does not exist, a filter does not parse, or its     *)
(* keys cannot be loaded: nothing has been done for this socket yet.       *)
(***************************************************************************)
SkipEntry(p) ==
    /\ pc[p] = "stat"
    /\ NextEntry(p)
    /\ UNCHANGED <<fs, left, sock, started, watched, ended, alone, own>>

(***************************************************************************)
(* An operator marked "Mutant" is no part of the model: it is the action   *)
(* below it with a plausible mistake, which a property has to catch.       *)
(***************************************************************************)
(* Mutant: an existing file is left where it is. *)
StatKeepsFile(p) ==
    /\ pc[p] = "stat"
    /\ fs[PathAt(p)] # Link
    /\ Goto(p, "bind")
    /\ UNCHANGED <<fs, left, entry, sock, started, watched, ended, alone, own>>

(* remove_existing_socket: symlink_metadata *)
StatPath(p) ==
    /\ pc[p] = "stat"
    /\ fs[PathAt(p)] # Link
    /\ Goto(p, IF fs[PathAt(p)] = NoFile THEN "bind" ELSE "unlink")
    /\ UNCHANGED <<fs, left, entry, sock, started, watched, ended, alone, own>>

(* The file at a path is removed, whoever has made it. *)
Delete(f) ==
    /\ fs' = [fs EXCEPT ![f] = NoFile]
    /\ own' = [q \in Procs |-> own[q] \ {f}]

(* remove_existing_socket: remove_file, of whatever is at the path by now *)
UnlinkPath(p) ==
    /\ pc[p] = "unlink"
    /\ fs[PathAt(p)] # NoFile
    /\ Delete(PathAt(p))
    /\ Goto(p, "bind")
    /\ UNCHANGED <<left, entry, sock, started, watched, ended, alone>>

(* UnixListener::bind creates the file *)
Bind(p) ==
    /\ pc[p] = "bind"
    /\ fs[PathAt(p)] = NoFile
    /\ \E i \in FreeInodes :
          /\ fs' = [fs EXCEPT ![PathAt(p)] = i]
          /\ sock' = [sock EXCEPT ![p][entry[p]] = i]
    /\ own' = [own EXCEPT ![p] = @ \cup {PathAt(p)}]
    /\ Goto(p, "chmod")
    /\ UNCHANGED <<left, entry, started, watched, ended, alone>>

(* set_socket_permissions, of whatever is at the path by now *)
SetPermissions(p) ==
    /\ pc[p] = "chmod"
    /\ fs[PathAt(p)] # NoFile
    /\ Goto(p, "record")
    /\ UNCHANGED <<fs, left, entry, sock, started, watched, ended, alone, own>>

(* `continue` in the middle of a start: the listener, if there is one, is *)
(* dropped; a file it has made stays, and is not in socket_paths.          *)
AbandonEntry(p) ==
    /\ sock' = [sock EXCEPT ![p][entry[p]] = NoFile]
    /\ NextEntry(p)
    /\ UNCHANGED <<fs, left, started, watched, ended, alone, own>>

(***************************************************************************)
(* A step of the start fails because of what is at the path: a link        *)
(* (SymlinkDetected), no file any more (RemoveError, PermissionError), or  *)
(* another file that has come.                                             *)
(***************************************************************************)
StartFails(p) ==
    /\ \/ pc[p] = "stat" /\ fs[PathAt(p)] = Link
       \/ pc[p] = "unlink" /\ fs[PathAt(p)] = NoFile
       \/ pc[p] = "bind" /\ fs[PathAt(p)] # NoFile
       \/ pc[p] = "chmod" /\ fs[PathAt(p)] = NoFile
    /\ AbandonEntry(p)

(***************************************************************************)
(* A step of the start fails for a reason of its own, whatever is at the   *)
(* path: permissions, a directory that cannot be made, a full disk.        *)
(* (fs::metadata, right after a chmod of the same path has succeeded, is   *)
(* taken to find what is there.)                                           *)
(***************************************************************************)
StepFails(p) ==
    /\ pc[p] \in {"stat", "unlink", "bind", "chmod"}
    /\ AbandonEntry(p)

(* Mutant: the inode is not recorded. *)
RecordForgotten(p) ==
    /\ pc[p] = "record"
    /\ started' = [started EXCEPT ![p] = @ \cup {entry[p]}]
    /\ NextEntry(p)
    /\ UNCHANGED <<fs, left, sock, watched, ended, alone, own>>

(* fs::metadata of the path, socket_paths.push, and the accept task *)
Record(p) ==
    /\ pc[p] = "record"
    /\ watched' = [watched EXCEPT ![p][entry[p]] = fs[PathAt(p)]]
    /\ started' = [started EXCEPT ![p] = @ \cup {entry[p]}]
    /\ NextEntry(p)
    /\ UNCHANGED <<fs, left, sock, ended, alone, own>>

(* Mutant: it is not checked that there is anything to serve. *)
ServeNothing(p) ==
    /\ pc[p] = "pick" /\ left[p] = {}
    /\ Goto(p, "run")
    /\ UNCHANGED <<fs, left, entry, sock, started, watched, ended, alone, own>>

Serve(p) ==
    /\ pc[p] = "pick" /\ left[p] = {} /\ started[p] # {}
    /\ Goto(p, "run")
    /\ UNCHANGED <<fs, left, entry, sock, started, watched, ended, alone, own>>

-----------------------------------------------------------------------------
(***************************************************************************)
(* Serving and stopping.                                                   *)
(***************************************************************************)

(* What remains of an instance that is gone: its files. *)
Gone(p, how) ==
    /\ Goto(p, "off")
    /\ left' = [left EXCEPT ![p] = {}]
    /\ entry' = [entry EXCEPT ![p] = NoName]
    /\ sock' = [sock EXCEPT ![p] = NoSockets]
    /\ started' = [started EXCEPT ![p] = {}]
    /\ watched' = [watched EXCEPT ![p] = NoSockets]
    /\ ended' = [ended EXCEPT ![p] = how]
    /\ own' = [own EXCEPT ![p] = {}]
    /\ UNCHANGED <<fs, alone>>

(* "No sockets could be started." *)
Bail(p) ==
    /\ pc[p] = "pick" /\ left[p] = {} /\ started[p] = {}
    /\ Gone(p, "bail")

(* An error of accept() ends the accept loop of one socket, and only that. *)
AcceptFails(p) ==
    /\ \E n \in started[p] :
          sock[p][n] # NoFile /\ sock' = [sock EXCEPT ![p][n] = NoFile]
    /\ UNCHANGED <<fs, pc, left, entry, started, watched, ended, alone, own>>

BeginCleanup(p) ==
    /\ Goto(p, "clean")
    /\ left' = [left EXCEPT ![p] = started[p]]
    /\ UNCHANGED <<fs, entry, sock, started, watched, ended, alone, own>>

(* The file of a socket is not, or is no more, the one that was recorded. *)
Mismatch(p, n) ==
    n \in started[p] /\ watched[p][n] # NoFile /\ fs[Config[p][n]] # watched[p][n]

(* Mutant: only a missing file is noticed, not a replaced one. *)
MonitorMissesChange(p) ==
    /\ pc[p] = "run" /\ \E n \in Names : Mismatch(p, n) /\ fs[Config[p][n]] = NoFile
    /\ BeginCleanup(p)

(* A tick of the inode monitor *)
MonitorExits(p) ==
    /\ pc[p] = "run" /\ \E n \in Names : Mismatch(p, n)
    /\ BeginCleanup(p)

(* SIGINT, once signal::ctrl_c() is awaited *)
Interrupt(p) == pc[p] = "run" /\ BeginCleanup(p)

(* Mutant: the cleanup ends at the first file that is missing. *)
CheckExistsBreaks(p) ==
    /\ pc[p] = "clean"
    /\ \E n \in left[p] :
          IF fs[Config[p][n]] = NoFile
          THEN left' = [left EXCEPT ![p] = {}] /\ UNCHANGED <<pc, entry>>
          ELSE /\ left' = [left EXCEPT ![p] = @ \ {n}]
               /\ Goto(p, "remove")
               /\ entry' = [entry EXCEPT ![p] = n]
    /\ UNCHANGED <<fs, sock, started, watched, ended, alone, own>>

(* `if path.exists()` *)
CheckExists(p) ==
    /\ pc[p] = "clean"
    /\ \E n \in left[p] :
          /\ left' = [left EXCEPT ![p] = @ \ {n}]
          /\ IF fs[Config[p][n]] = NoFile
             THEN UNCHANGED <<pc, entry>>
             ELSE Goto(p, "remove") /\ entry' = [entry EXCEPT ![p] = n]
    /\ UNCHANGED <<fs, sock, started, watched, ended, alone, own>>

(* remove_file; that the file is gone by now is only logged, and that the *)
(* removal of a file the instance could create is refused is left out.     *)
RemoveFile(p) ==
    /\ pc[p] = "remove"
    /\ Delete(PathAt(p))
    /\ entry' = [entry EXCEPT ![p] = NoName]
    /\ Goto(p, "clean")
    /\ UNCHANGED <<left, sock, started, watched, ended, alone>>

Exit(p) ==
    /\ pc[p] = "clean" /\ left[p] = {}
    /\ Gone(p, "clean")

(***************************************************************************)
(* SIGKILL, a panic of the main task, a power failure; SIGINT before it is *)
(* awaited.  SIGTERM has no handler and ends the process in the same way.  *)
(***************************************************************************)
Crash(p) == pc[p] # "off" /\ Gone(p, "crash")

Terminate(p) == pc[p] # "off" /\ Gone(p, "sigterm")

(* External: somebody removes the file of a socket that is being served. *)
UserRemoves(f) ==
    /\ fs[f] # NoFile
    /\ \E p \in Procs : pc[p] = "run" /\ \E n \in started[p] : Config[p][n] = f
    /\ Delete(f)
    /\ UNCHANGED <<pc, left, entry, sock, started, watched, ended, alone>>

-----------------------------------------------------------------------------
(* What an instance does on its own account. *)
Progress(p) ==
    \/ Pick(p) \/ StatPath(p) \/ UnlinkPath(p) \/ Bind(p) \/ SetPermissions(p)
    \/ StartFails(p) \/ Record(p) \/ Serve(p) \/ Bail(p)
    \/ MonitorExits(p) \/ CheckExists(p) \/ RemoveFile(p) \/ Exit(p)

(* What happens to it. *)
Disturb(p) ==
    \/ Start(p) \/ SkipEntry(p) \/ StepFails(p) \/ AcceptFails(p)
    \/ Interrupt(p) \/ Crash(p) \/ Terminate(p)

Next ==
    \/ \E p \in Procs : Progress(p) \/ Disturb(p)
    \/ \E f \in Paths : UserRemoves(f)

(***************************************************************************)
(* A process that can take its next step takes it, and its timer ticks.    *)
(* Starting, stopping and failing are up to the environment.               *)
(***************************************************************************)
Spec == Init /\ [][Next]_vars

FairSpec == Spec /\ \A p \in Procs : WF_vars(Progress(p))

-----------------------------------------------------------------------------
(***************************************************************************)
(* Properties.                                                             *)
(***************************************************************************)

(* Clients that open the path of socket n reach instance p. *)
Reachable(p, n) == sock[p][n] # NoFile /\ fs[Config[p][n]] = sock[p][n]

(***************************************************************************)
(* As long as clients reach an instance at a path, what it watches there   *)
(* is its own socket: two instances that start together may record the     *)
(* inode of one another, but then the one that did is out of reach.        *)
(***************************************************************************)
ReachableWatchesOwn ==
    \A p \in Procs : \A n \in started[p] :
        Reachable(p, n) => watched[p][n] = sock[p][n]

Ends(p, how) == pc[p] # "off" /\ pc'[p] = "off" /\ ended'[p] = how

(***************************************************************************)
(* An instance that stops by itself (SIGINT, or the inode monitor) leaves  *)
(* no file of a socket it has started, listened to or not, that it made    *)
(* itself: whatever was removed, replaced or failed in the meantime.       *)
(***************************************************************************)
CleanStopLeavesNoSocket ==
    [][\A p \in Procs : Ends(p, "clean") =>
            \A n \in started[p] : Config[p][n] \notin own[p]]_vars

(***************************************************************************)
(* Files left by crashed instances keep nobody from starting: a step of    *)
(* the start fails for what it finds at the path only if that is a link,   *)
(* or if another instance has been alive since this one was started.       *)
(***************************************************************************)
StartRecovers ==
    [][\A p \in Procs : StartFails(p) => fs[PathAt(p)] = Link \/ ~alone[p]]_vars

(***************************************************************************)
(* An instance always comes to rest: it is gone, or it serves and every    *)
(* file it watches is the one it recorded.  A lost or replaced file ends   *)
(* it, and no contention keeps it in its start or its cleanup.             *)
(***************************************************************************)
AtRest(p) == pc[p] = "off" \/ (pc[p] = "run" /\ \A n \in Names : ~Mismatch(p, n))

ComesToRest == \A p \in Procs : []<>AtRest(p)

(***************************************************************************)
(* CHANGELOG.md, "Exit on socket inode change detection" and "Socket file  *)
(* replacement/removal detection": no instance serves for ever on a        *)
(* listener that clients cannot reach, its file being replaced or removed. *)
(***************************************************************************)
Unreachable(p, n) == pc[p] = "run" /\ sock[p][n] # NoFile /\ ~Reachable(p, n)

ReplacedInstanceExits == \A p \in Procs, n \in Names : []<>~Unreachable(p, n)

=============================================================================
