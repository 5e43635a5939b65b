-------------------------- MODULE SupervisorProofs --------------------------
(***************************************************************************)
(* Proofs about Supervisor, for every number of instances, every           *)
(* configuration and every interleaving of starts, stops and crashes.      *)
(***************************************************************************)
EXTENDS Supervisor, TLAPS

Starting == {"pick", "stat", "unlink", "bind", "chmod", "record"}

AtEntry == {"stat", "unlink", "bind", "chmod", "record", "remove"}

(* The sockets an instance deals with are configured, and dealt with once. *)
EntryInv ==
    \A p \in Procs :
        /\ started[p] \cup left[p] \subseteq DOMAIN Config[p]
        /\ pc[p] \in AtEntry => entry[p] \in DOMAIN Config[p]
        /\ pc[p] \in Starting => left[p] \cap started[p] = {}
        /\ pc[p] \in AtEntry \ {"remove"} => entry[p] \notin left[p] \cup started[p]
        /\ pc[p] = "off" => started[p] = {}

(* An inode belongs to one listener; a listener to a socket that is started *)
(* or in the middle of its start.                                          *)
SockInv ==
    /\ \A p, q \in Procs : \A m, n \in Names :
          sock[p][m] # NoFile /\ sock[p][m] = sock[q][n] => p = q /\ m = n
    /\ \A p \in Procs : \A n \in Names :
          sock[p][n] # NoFile =>
              n \in started[p] \/ (pc[p] \in {"chmod", "record"} /\ n = entry[p])

(* The cleanup has dealt with socket n. *)
Passed(p, n) ==
    \/ pc[p] = "clean" /\ n \notin left[p]
    \/ pc[p] = "remove" /\ n \notin left[p] \cup {entry[p]}

(* An own file is there, unless the cleanup has passed its socket. *)
OwnInv ==
    \A p \in Procs :
        /\ \A f \in own[p] : fs[f] # NoFile
        /\ \A n \in started[p] : Passed(p, n) => Config[p][n] \notin own[p]

(* An instance that is alone finds each path as it left it. *)
AloneInv ==
    \A p \in Procs : alone[p] /\ pc[p] # "off" =>
        /\ \A q \in Procs \ {p} : pc[q] = "off"
        /\ pc[p] = "unlink" => fs[PathAt(p)] # NoFile
        /\ pc[p] = "bind" => fs[PathAt(p)] = NoFile
        /\ pc[p] = "chmod" => fs[PathAt(p)] # NoFile

IInv ==
    TypeOK /\ EntryInv /\ SockInv /\ ReachableWatchesOwn /\ OwnInv /\ AloneInv
-----------------------------------------------------------------------------
(***************************************************************************)
(* Type correctness.                                                       *)
(***************************************************************************)
LEMMA ConfigType ==
    ASSUME NEW p \in Procs
    PROVE  /\ DOMAIN Config[p] \subseteq Names
           /\ \A n \in DOMAIN Config[p] : Config[p][n] \in Paths
  BY SupervisorAssumption

LEMMA TypeInit == Init => TypeOK
  BY DEF Init, TypeOK, NoSockets, Label, Ending

LEMMA EntryInit == Init => EntryInv
  BY DEF Init, EntryInv, AtEntry, Starting

LEMMA GoneType ==
    ASSUME TypeOK, NEW p \in Procs, NEW how \in Ending, Gone(p, how)
    PROVE  TypeOK'
  BY DEF TypeOK, Gone, Goto, NoSockets, Label

LEMMA TypeStep == TypeOK /\ EntryInv /\ [Next]_vars => TypeOK'
<1> SUFFICES ASSUME TypeOK, EntryInv, [Next]_vars PROVE TypeOK'
  OBVIOUS
<1>1. ASSUME NEW p \in Procs, Progress(p) PROVE TypeOK'
  <2> USE DEF TypeOK, Label
  <2>1. CASE Pick(p)
    BY <2>1 DEF Pick, Goto
  <2>2. CASE StatPath(p) \/ SetPermissions(p) \/ Serve(p)
    BY <2>2 DEF StatPath, SetPermissions, Serve, Goto
  <2>3. CASE UnlinkPath(p)
    BY <2>3 DEF UnlinkPath, Delete, Goto
  <2>4. CASE Bind(p)
    <3>1. PICK i \in FreeInodes : /\ fs' = [fs EXCEPT ![PathAt(p)] = i]
                                  /\ sock' = [sock EXCEPT ![p][entry[p]] = i]
      BY <2>4 DEF Bind
    <3>2. i \in Inodes
      BY DEF FreeInodes
    <3>3. PathAt(p) \in Paths
      BY <2>4, ConfigType DEF Bind, EntryInv, AtEntry, PathAt
    <3>4. own' \in [Procs -> SUBSET Paths]
      BY <2>4, <3>3 DEF Bind
    <3>5. /\ fs' \in [Paths -> Inodes \cup {NoFile, Link}]
          /\ sock' \in [Procs -> [Names -> Inodes \cup {NoFile}]]
      BY <3>1, <3>2
    <3> QED
      BY <2>4, <3>4, <3>5 DEF Bind, Goto
  <2>5. CASE StartFails(p)
    BY <2>5 DEF StartFails, AbandonEntry, NextEntry, Goto
  <2>6. CASE Record(p)
    <3>1. entry[p] \in Names /\ PathAt(p) \in Paths
      BY <2>6, ConfigType DEF Record, EntryInv, AtEntry, PathAt
    <3>2. fs[PathAt(p)] \in Inodes \cup {NoFile, Link}
      BY <3>1
    <3> QED
      BY <2>6, <3>1, <3>2 DEF Record, NextEntry, Goto
  <2>7. CASE Bail(p) \/ Exit(p)
    BY <2>7, GoneType DEF Bail, Exit, Ending
  <2>8. CASE MonitorExits(p)
    BY <2>8 DEF MonitorExits, BeginCleanup, Goto
  <2>9. CASE CheckExists(p)
    <3>1. PICK n \in left[p] :
              /\ left' = [left EXCEPT ![p] = @ \ {n}]
              /\ IF fs[Config[p][n]] = NoFile
                 THEN UNCHANGED <<pc, entry>>
                 ELSE Goto(p, "remove") /\ entry' = [entry EXCEPT ![p] = n]
      BY <2>9 DEF CheckExists
    <3>2. n \in Names
      OBVIOUS
    <3>3. UNCHANGED <<fs, sock, started, watched, ended, alone, own>> /\ pc[p] = "clean"
      BY <2>9 DEF CheckExists
    <3>4. CASE fs[Config[p][n]] = NoFile
      BY <3>1, <3>3, <3>4
    <3>5. CASE fs[Config[p][n]] # NoFile
      BY <3>1, <3>2, <3>3, <3>5 DEF Goto
    <3> QED
      BY <3>4, <3>5
  <2>10. CASE RemoveFile(p)
    BY <2>10 DEF RemoveFile, Delete, Goto
  <2> QED
    BY <1>1, <2>1, <2>2, <2>3, <2>4, <2>5, <2>6, <2>7, <2>8, <2>9, <2>10 DEF Progress
<1>2. ASSUME NEW p \in Procs, Disturb(p) PROVE TypeOK'
  <2> USE DEF TypeOK, Label
  <2>1. CASE Start(p)
    <3>1. "none" \in Ending
      BY DEF Ending
    <3>2. alone' \in [Procs -> BOOLEAN]
      BY <2>1 DEF Start
    <3> QED
      BY <2>1, <3>1, <3>2, ConfigType DEF Start, Goto
  <2>2. CASE SkipEntry(p)
    BY <2>2 DEF SkipEntry, NextEntry, Goto
  <2>3. CASE AcceptFails(p)
    BY <2>3 DEF AcceptFails
  <2>4. CASE Interrupt(p)
    BY <2>4 DEF Interrupt, BeginCleanup, Goto
  <2>5. CASE Crash(p) \/ Terminate(p)
    BY <2>5, GoneType DEF Crash, Terminate, Ending
  <2>6. CASE StepFails(p)
    BY <2>6 DEF StepFails, AbandonEntry, NextEntry, Goto
  <2> QED
    BY <1>2, <2>1, <2>2, <2>3, <2>4, <2>5, <2>6 DEF Disturb
<1>3. ASSUME NEW f \in Paths, UserRemoves(f) PROVE TypeOK'
  BY <1>3 DEF TypeOK, UserRemoves, Delete
<1>4. CASE UNCHANGED vars
  BY <1>4 DEF vars, TypeOK
<1> QED
  BY <1>1, <1>2, <1>3, <1>4 DEF Next

(***************************************************************************)
(* The start takes the configured sockets one after the other.             *)
(***************************************************************************)
LEMMA GoneEntry ==
    ASSUME TypeOK, EntryInv, NEW p \in Procs, NEW how, Gone(p, how)
    PROVE  EntryInv'
  BY DEF TypeOK, EntryInv, Gone, Goto, AtEntry, Starting

LEMMA EntryStep == TypeOK /\ EntryInv /\ [Next]_vars => EntryInv'
<1> SUFFICES ASSUME TypeOK, EntryInv, [Next]_vars PROVE EntryInv'
  OBVIOUS
<1>1. ASSUME NEW p \in Procs, Progress(p) PROVE EntryInv'
  <2> USE DEF TypeOK, EntryInv, AtEntry, Starting
  <2>1. CASE Pick(p)
    BY <2>1 DEF Pick, Goto
  <2>2. CASE StatPath(p) \/ UnlinkPath(p) \/ Bind(p) \/ SetPermissions(p) \/ Serve(p)
    <3>1. /\ UNCHANGED <<left, entry, started>>
          /\ \E label \in {"bind", "unlink", "chmod", "record", "run"} :
                /\ pc' = [pc EXCEPT ![p] = label]
                /\ label # "run" => pc[p] \in AtEntry \ {"remove"}
      BY <2>2 DEF StatPath, UnlinkPath, Bind, SetPermissions, Serve, Goto
    <3> QED
      BY <3>1
  <2>3. CASE StartFails(p)
    BY <2>3 DEF StartFails, AbandonEntry, NextEntry, Goto
  <2>4. CASE Record(p)
    BY <2>4 DEF Record, NextEntry, Goto
  <2>5. CASE Bail(p) \/ Exit(p)
    BY <2>5, GoneEntry DEF Bail, Exit
  <2>6. CASE MonitorExits(p)
    BY <2>6 DEF MonitorExits, BeginCleanup, Goto
  <2>7. CASE CheckExists(p)
    BY <2>7 DEF CheckExists, Goto
  <2>8. CASE RemoveFile(p)
    BY <2>8 DEF RemoveFile, Goto
  <2> QED
    BY <1>1, <2>1, <2>2, <2>3, <2>4, <2>5, <2>6, <2>7, <2>8 DEF Progress
<1>2. ASSUME NEW p \in Procs, Disturb(p) PROVE EntryInv'
  <2> USE DEF TypeOK, EntryInv, AtEntry, Starting
  <2>1. CASE Start(p)
    BY <2>1 DEF Start, Goto
  <2>2. CASE SkipEntry(p) \/ StepFails(p)
    BY <2>2 DEF SkipEntry, StepFails, AbandonEntry, NextEntry, Goto
  <2>3. CASE AcceptFails(p)
    BY <2>3 DEF AcceptFails
  <2>4. CASE Interrupt(p)
    BY <2>4 DEF Interrupt, BeginCleanup, Goto
  <2>5. CASE Crash(p) \/ Terminate(p)
    BY <2>5, GoneEntry DEF Crash, Terminate
  <2> QED
    BY <1>2, <2>1, <2>2, <2>3, <2>4, <2>5 DEF Disturb
<1>3. ASSUME NEW f \in Paths, UserRemoves(f) PROVE EntryInv'
  BY <1>3 DEF EntryInv, UserRemoves
<1>4. CASE UNCHANGED vars
  BY <1>4 DEF vars, EntryInv
<1> QED
  BY <1>1, <1>2, <1>3, <1>4 DEF Next

(* Every variable stays within its type. *)
THEOREM TypeCorrect == Spec => []TypeOK
<1>1. Init => TypeOK /\ EntryInv
  BY TypeInit, EntryInit
<1>2. TypeOK /\ EntryInv /\ [Next]_vars => (TypeOK /\ EntryInv)'
  BY TypeStep, EntryStep
<1> QED
  BY <1>1, <1>2, PTL DEF Spec

-----------------------------------------------------------------------------
(***************************************************************************)
(* Frame lemmas: what a step may do to files, listeners and records.       *)
(***************************************************************************)

LEMMA GoneCloses ==
    ASSUME TypeOK, NEW p \in Procs, NEW how, Gone(p, how)
    PROVE  /\ \A q \in Procs : \A n \in Names : sock'[q][n] \in {sock[q][n], NoFile}
           /\ \A f \in Paths : fs'[f] \in {fs[f], NoFile}
<1>1. sock' = [sock EXCEPT ![p] = NoSockets] /\ fs' = fs
  BY DEF Gone
<1>2. ASSUME NEW q \in Procs, NEW n \in Names
      PROVE  sock'[q][n] \in {sock[q][n], NoFile}
  <2>1. CASE q = p
    BY <1>1, <2>1 DEF TypeOK, NoSockets
  <2>2. CASE q # p
    BY <1>1, <2>2 DEF TypeOK
  <2> QED
    BY <2>1, <2>2
<1> QED
  BY <1>1, <1>2

(* Only a bind puts a file at a path or opens a listener. *)
LEMMA OnlyBindCreates ==
    ASSUME TypeOK, [Next]_vars, \A p \in Procs : ~Bind(p)
    PROVE  /\ \A p \in Procs : \A n \in Names : sock'[p][n] \in {sock[p][n], NoFile}
           /\ \A f \in Paths : fs'[f] \in {fs[f], NoFile}
<1>1. ASSUME NEW p \in Procs, Progress(p)
      PROVE  /\ \A q \in Procs : \A n \in Names : sock'[q][n] \in {sock[q][n], NoFile}
             /\ \A f \in Paths : fs'[f] \in {fs[f], NoFile}
  <2>1. CASE Pick(p) \/ StatPath(p) \/ SetPermissions(p) \/ Record(p) \/ Serve(p)
    BY <2>1 DEF Pick, StatPath, SetPermissions, Record, Serve
  <2>2. CASE UnlinkPath(p) \/ RemoveFile(p)
    BY <2>2 DEF TypeOK, UnlinkPath, RemoveFile, Delete
  <2>3. CASE StartFails(p)
    BY <2>3 DEF TypeOK, StartFails, AbandonEntry
  <2>4. CASE Bail(p) \/ Exit(p)
    BY <2>4, GoneCloses DEF Bail, Exit
  <2>5. CASE MonitorExits(p) \/ CheckExists(p)
    BY <2>5 DEF MonitorExits, BeginCleanup, CheckExists
  <2> QED
    BY <1>1, <2>1, <2>2, <2>3, <2>4, <2>5 DEF Progress
<1>2. ASSUME NEW p \in Procs, Disturb(p)
      PROVE  /\ \A q \in Procs : \A n \in Names : sock'[q][n] \in {sock[q][n], NoFile}
             /\ \A f \in Paths : fs'[f] \in {fs[f], NoFile}
  <2>1. CASE Start(p) \/ SkipEntry(p) \/ Interrupt(p)
    BY <2>1 DEF Start, SkipEntry, Interrupt, BeginCleanup
  <2>2. CASE AcceptFails(p)
    BY <2>2 DEF TypeOK, AcceptFails
  <2>3. CASE Crash(p) \/ Terminate(p)
    BY <2>3, GoneCloses DEF Crash, Terminate
  <2>4. CASE StepFails(p)
    BY <2>4 DEF TypeOK, StepFails, AbandonEntry
  <2> QED
    BY <1>2, <2>1, <2>2, <2>3, <2>4 DEF Disturb
<1>3. ASSUME NEW f \in Paths, UserRemoves(f)
      PROVE  /\ \A q \in Procs : \A n \in Names : sock'[q][n] \in {sock[q][n], NoFile}
             /\ \A g \in Paths : fs'[g] \in {fs[g], NoFile}
  BY <1>3 DEF TypeOK, UserRemoves, Delete
<1>4. CASE UNCHANGED vars
  BY <1>4 DEF vars
<1> QED
  BY <1>1, <1>2, <1>3, <1>4 DEF Next

(* The inode a bind takes belongs to no file and to no listener. *)
LEMMA BindIsFresh ==
    ASSUME TypeOK, EntryInv, NEW p \in Procs, Bind(p)
    PROVE  \E i \in Inodes :
              /\ \A f \in Paths : fs[f] # i
              /\ \A q \in Procs : \A n \in Names : sock[q][n] # i
              /\ entry[p] \in DOMAIN Config[p] /\ entry[p] \in Names
              /\ PathAt(p) \in Paths
              /\ fs' = [fs EXCEPT ![PathAt(p)] = i]
              /\ sock' = [sock EXCEPT ![p][entry[p]] = i]
<1>1. PICK i \in FreeInodes : /\ fs' = [fs EXCEPT ![PathAt(p)] = i]
                              /\ sock' = [sock EXCEPT ![p][entry[p]] = i]
  BY DEF Bind
<1>2. entry[p] \in DOMAIN Config[p]
  BY DEF Bind, EntryInv, AtEntry
<1>3. entry[p] \in Names /\ PathAt(p) \in Paths
  BY <1>2, ConfigType DEF PathAt
<1>4. i \in Inodes /\ \A f \in Paths : fs[f] # i
  BY DEF FreeInodes
<1>5. \A q \in Procs : \A n \in Names : sock[q][n] # i
  BY DEF FreeInodes
<1> QED
  BY <1>1, <1>2, <1>3, <1>4, <1>5

(* A socket that was not reachable becomes so only by its own bind. *)
LEMMA OnlyBindReaches ==
    ASSUME TypeOK, EntryInv, [Next]_vars,
           NEW p \in Procs, NEW n \in DOMAIN Config[p], Reachable(p, n)'
    PROVE  Reachable(p, n) \/ (Bind(p) /\ n = entry[p])
<1>0. n \in Names /\ Config[p][n] \in Paths
  BY ConfigType
<1>1. CASE \A q \in Procs : ~Bind(q)
  <2>1. sock'[p][n] \in {sock[p][n], NoFile} /\ fs'[Config[p][n]] \in {fs[Config[p][n]], NoFile}
    BY <1>0, <1>1, OnlyBindCreates
  <2> QED
    BY <2>1 DEF Reachable
<1>2. ASSUME NEW q \in Procs, Bind(q)
      PROVE  Reachable(p, n) \/ (Bind(p) /\ n = entry[p])
  <2>1. PICK i \in Inodes :
              /\ \A f \in Paths : fs[f] # i
              /\ \A r \in Procs : \A m \in Names : sock[r][m] # i
              /\ entry[q] \in DOMAIN Config[q] /\ entry[q] \in Names
              /\ PathAt(q) \in Paths
              /\ fs' = [fs EXCEPT ![PathAt(q)] = i]
              /\ sock' = [sock EXCEPT ![q][entry[q]] = i]
    BY <1>2, BindIsFresh
  <2>2. CASE p = q /\ n = entry[q]
    BY <1>2, <2>2
  <2>3. CASE ~(p = q /\ n = entry[q])
    <3>1. sock'[p][n] = sock[p][n]
      BY <1>0, <2>1, <2>3 DEF TypeOK
    <3>2. fs'[Config[p][n]] # i
      BY <1>0, <2>1, <3>1 DEF Reachable
    <3>3. fs'[Config[p][n]] = fs[Config[p][n]]
      BY <1>0, <2>1, <3>2 DEF TypeOK
    <3> QED
      BY <3>1, <3>3 DEF Reachable
  <2> QED
    BY <2>2, <2>3
<1> QED
  BY <1>1, <1>2

(* A socket joins socket_paths by Record only, and its record then stays. *)
LEMMA OnlyRecordStarts ==
    ASSUME TypeOK, EntryInv, [Next]_vars, NEW p \in Procs, NEW n \in started'[p]
    PROVE  \/ n \in started[p] /\ watched'[p][n] = watched[p][n]
           \/ Record(p) /\ n = entry[p]
<1>1. ASSUME NEW q \in Procs, Progress(q)
      PROVE  \/ n \in started[p] /\ watched'[p][n] = watched[p][n]
             \/ Record(p) /\ n = entry[p]
  <2>1. CASE Pick(q) \/ StatPath(q) \/ UnlinkPath(q) \/ Bind(q) \/ SetPermissions(q)
             \/ StartFails(q) \/ Serve(q)
    BY <2>1 DEF Pick, StatPath, UnlinkPath, Bind, SetPermissions, StartFails, AbandonEntry, Serve
  <2>2. CASE Record(q)
    <3>1. entry[q] \in Names
      BY <2>2, ConfigType DEF Record, EntryInv, AtEntry
    <3>2. /\ watched' = [watched EXCEPT ![q][entry[q]] = fs[PathAt(q)]]
          /\ started' = [started EXCEPT ![q] = @ \cup {entry[q]}]
      BY <2>2 DEF Record
    <3>3. CASE p = q /\ n = entry[q]
      BY <2>2, <3>3
    <3>4. CASE ~(p = q /\ n = entry[q])
      <4>1. n \in started[p] /\ n \in Names
        BY <3>2, <3>4 DEF TypeOK
      <4>2. watched'[p][n] = watched[p][n]
        BY <3>1, <3>2, <3>4, <4>1 DEF TypeOK
      <4> QED
        BY <4>1, <4>2
    <3> QED
      BY <3>3, <3>4
  <2>3. CASE Bail(q) \/ Exit(q)
    BY <2>3 DEF TypeOK, Bail, Exit, Gone
  <2>4. CASE MonitorExits(q) \/ CheckExists(q) \/ RemoveFile(q)
    BY <2>4 DEF MonitorExits, BeginCleanup, CheckExists, RemoveFile
  <2> QED
    BY <1>1, <2>1, <2>2, <2>3, <2>4 DEF Progress
<1>2. ASSUME NEW q \in Procs, Disturb(q)
      PROVE  n \in started[p] /\ watched'[p][n] = watched[p][n]
  <2>1. CASE Start(q) \/ SkipEntry(q) \/ StepFails(q) \/ AcceptFails(q) \/ Interrupt(q)
    BY <2>1 DEF Start, SkipEntry, StepFails, AbandonEntry, AcceptFails, Interrupt, BeginCleanup
  <2>2. CASE Crash(q) \/ Terminate(q)
    BY <2>2 DEF TypeOK, Crash, Terminate, Gone
  <2> QED
    BY <1>2, <2>1, <2>2 DEF Disturb
<1>3. CASE UNCHANGED vars \/ \E f \in Paths : UserRemoves(f)
  BY <1>3 DEF vars, UserRemoves
<1> QED
  BY <1>1, <1>2, <1>3 DEF Next

-----------------------------------------------------------------------------
(***************************************************************************)
(* The inductive invariant.                                                *)
(***************************************************************************)
LEMMA IInvInit == Init => IInv
<1> SUFFICES ASSUME Init PROVE IInv
  OBVIOUS
<1>1. TypeOK /\ EntryInv
  BY TypeInit, EntryInit
<1>2. \A p \in Procs : started[p] = {} /\ pc[p] = "off" /\ ~alone[p] /\ own[p] = {}
                       /\ \A n \in Names : sock[p][n] = NoFile
  BY DEF Init, NoSockets
<1>3. SockInv /\ ReachableWatchesOwn /\ OwnInv /\ AloneInv
  BY <1>2 DEF SockInv, ReachableWatchesOwn, OwnInv, AloneInv
<1> QED
  BY <1>1, <1>3 DEF IInv

(* No two listeners share an inode. *)
LEMMA UniqueStep ==
    ASSUME IInv, [Next]_vars,
           NEW p \in Procs, NEW q \in Procs, NEW m \in Names, NEW n \in Names,
           sock'[p][m] # NoFile, sock'[p][m] = sock'[q][n]
    PROVE  p = q /\ m = n
<1>0. TypeOK /\ EntryInv /\ SockInv
  BY DEF IInv
<1>1. CASE \A r \in Procs : ~Bind(r)
  <2>1. sock'[p][m] \in {sock[p][m], NoFile} /\ sock'[q][n] \in {sock[q][n], NoFile}
    BY <1>0, <1>1, OnlyBindCreates
  <2> QED
    BY <1>0, <2>1 DEF SockInv
<1>2. ASSUME NEW r \in Procs, Bind(r) PROVE p = q /\ m = n
  <2>1. PICK i \in Inodes :
              /\ \A s \in Procs : \A l \in Names : sock[s][l] # i
              /\ entry[r] \in Names
              /\ sock' = [sock EXCEPT ![r][entry[r]] = i]
    BY <1>0, <1>2, BindIsFresh
  <2>2. \A s \in Procs : \A l \in Names :
           sock'[s][l] = IF s = r /\ l = entry[r] THEN i ELSE sock[s][l]
    BY <1>0, <2>1 DEF TypeOK
  <2> QED
    BY <1>0, <2>1, <2>2 DEF SockInv
<1> QED
  BY <1>1, <1>2

(* A listener belongs to a socket that is started, or about to be. *)
LEMMA OwnedStep ==
    ASSUME IInv, [Next]_vars, NEW p \in Procs, NEW n \in Names, sock'[p][n] # NoFile
    PROVE  n \in started'[p] \/ (pc'[p] \in {"chmod", "record"} /\ n = entry'[p])
<1> USE DEF IInv, TypeOK
<1>0. sock[p][n] # NoFile =>
          n \in started[p] \/ (pc[p] \in {"chmod", "record"} /\ n = entry[p])
  BY DEF SockInv
<1>01. ASSUME NEW q \in Procs, AbandonEntry(q), pc[q] # "record"
      PROVE  n \in started'[p] \/ (pc'[p] \in {"chmod", "record"} /\ n = entry'[p])
  <2>1. CASE p = q
    <3>1. sock' = [sock EXCEPT ![p][entry[p]] = NoFile]
      BY <1>01, <2>1 DEF AbandonEntry
    <3>2. n # entry[p] /\ sock'[p][n] = sock[p][n]
      BY <3>1
    <3> QED
      BY <1>0, <1>01, <3>2 DEF AbandonEntry
  <2>2. CASE p # q
    <3>1. sock'[p] = sock[p]
      BY <1>01, <2>2 DEF AbandonEntry
    <3> QED
      BY <1>0, <1>01, <2>2, <3>1 DEF AbandonEntry, NextEntry, Goto
  <2> QED
    BY <2>1, <2>2
<1>1. ASSUME NEW q \in Procs, Progress(q)
      PROVE  n \in started'[p] \/ (pc'[p] \in {"chmod", "record"} /\ n = entry'[p])
  <2>1. CASE Pick(q) \/ StatPath(q) \/ UnlinkPath(q) \/ SetPermissions(q) \/ Serve(q)
    BY <1>0, <2>1 DEF Pick, StatPath, UnlinkPath, SetPermissions, Serve, Goto
  <2>2. CASE Bind(q)
    <3>1. CASE p = q /\ n = entry[q]
      BY <2>2, <3>1 DEF Bind, Goto
    <3>2. CASE ~(p = q /\ n = entry[q])
      <4>1. sock'[p][n] = sock[p][n]
        BY <2>2, <3>2 DEF Bind
      <4> QED
        BY <1>0, <2>2, <4>1 DEF Bind, Goto
    <3> QED
      BY <3>1, <3>2
  <2>3. CASE StartFails(q)
    BY <1>01, <2>3 DEF StartFails
  <2>4. CASE Record(q)
    BY <1>0, <2>4 DEF Record, NextEntry, Goto
  <2>5. CASE Bail(q) \/ Exit(q)
    BY <1>0, <2>5 DEF Bail, Exit, Gone, NoSockets, Goto
  <2>6. CASE MonitorExits(q)
    BY <1>0, <2>6 DEF MonitorExits, BeginCleanup, Goto
  <2>7. CASE CheckExists(q)
    BY <1>0, <2>7 DEF CheckExists, Goto
  <2>8. CASE RemoveFile(q)
    BY <1>0, <2>8 DEF RemoveFile, Goto
  <2> QED
    BY <1>1, <2>1, <2>2, <2>3, <2>4, <2>5, <2>6, <2>7, <2>8 DEF Progress
<1>2. ASSUME NEW q \in Procs, Disturb(q)
      PROVE  n \in started'[p] \/ (pc'[p] \in {"chmod", "record"} /\ n = entry'[p])
  <2>1. CASE Start(q)
    BY <1>0, <2>1 DEF Start, Goto
  <2>2. CASE SkipEntry(q)
    BY <1>0, <2>2 DEF SkipEntry, NextEntry, Goto
  <2>6. CASE StepFails(q)
    BY <1>01, <2>6 DEF StepFails
  <2>3. CASE AcceptFails(q)
    <3>1. sock[p][n] # NoFile
      BY <2>3 DEF AcceptFails
    <3> QED
      BY <1>0, <2>3, <3>1 DEF AcceptFails
  <2>4. CASE Interrupt(q)
    BY <1>0, <2>4 DEF Interrupt, BeginCleanup, Goto
  <2>5. CASE Crash(q) \/ Terminate(q)
    BY <1>0, <2>5 DEF Crash, Terminate, Gone, NoSockets, Goto
  <2> QED
    BY <1>2, <2>1, <2>2, <2>3, <2>4, <2>5, <2>6 DEF Disturb
<1>3. CASE UNCHANGED vars \/ \E f \in Paths : UserRemoves(f)
  BY <1>0, <1>3 DEF vars, UserRemoves
<1> QED
  BY <1>1, <1>2, <1>3 DEF Next

LEMMA SockStep == IInv /\ [Next]_vars => SockInv'
  BY UniqueStep, OwnedStep DEF SockInv

(***************************************************************************)
(* A socket that is reachable after the step was so before, when its       *)
(* record was right; or it has just been bound, and is not yet recorded;   *)
(* or it is just being recorded, and is still the one at the path.         *)
(***************************************************************************)
LEMMA WatchStep == IInv /\ [Next]_vars => ReachableWatchesOwn'
<1> SUFFICES ASSUME IInv, [Next]_vars,
                    NEW p \in Procs, NEW n \in started'[p], Reachable(p, n)'
             PROVE  watched'[p][n] = sock'[p][n]
  BY DEF ReachableWatchesOwn
<1>0. TypeOK /\ EntryInv /\ EntryInv'
  BY EntryStep DEF IInv
<1>1. n \in DOMAIN Config[p]
  BY <1>0 DEF EntryInv
<1>2. CASE Record(p) /\ n = entry[p]
  <2>1. watched'[p][n] = fs[PathAt(p)] /\ fs' = fs
    BY <1>0, <1>1, <1>2, ConfigType DEF TypeOK, Record
  <2> QED
    BY <1>2, <2>1 DEF Reachable, PathAt
<1>3. CASE n \in started[p] /\ watched'[p][n] = watched[p][n]
  <2>1. ~(Bind(p) /\ n = entry[p])
    BY <1>0, <1>3 DEF Bind, EntryInv, AtEntry
  <2>2. Reachable(p, n)
    BY <1>0, <1>1, <2>1, OnlyBindReaches
  <2>3. watched[p][n] = sock[p][n]
    BY <1>3, <2>2 DEF IInv, ReachableWatchesOwn
  <2>4. sock'[p][n] = sock[p][n]
    <3>1. n \in Names
      BY <1>1, ConfigType
    <3>2. CASE \A q \in Procs : ~Bind(q)
      BY <1>0, <3>1, <3>2, OnlyBindCreates DEF Reachable
    <3>3. ASSUME NEW q \in Procs, Bind(q) PROVE sock'[p][n] = sock[p][n]
      <4>1. PICK i \in Inodes : sock' = [sock EXCEPT ![q][entry[q]] = i]
        BY <1>0, <3>3, BindIsFresh
      <4>2. ~(p = q /\ n = entry[q])
        BY <2>1, <3>3
      <4> QED
        BY <1>0, <3>1, <4>1, <4>2 DEF TypeOK
    <3> QED
      BY <3>2, <3>3
  <2> QED
    BY <1>3, <2>3, <2>4
<1> QED
  BY <1>0, <1>2, <1>3, OnlyRecordStarts

(* No instance moves another one. *)
LEMMA OthersKeepTheirPlace ==
    ASSUME TypeOK, NEW q \in Procs, NEW p \in Procs \ {q}, Progress(q) \/ Disturb(q)
    PROVE  UNCHANGED <<pc[p], left[p], entry[p]>>
<1>1. CASE Progress(q)
  <2>1. CASE Pick(q) \/ StatPath(q) \/ UnlinkPath(q) \/ Bind(q) \/ SetPermissions(q)
    BY <2>1 DEF TypeOK, Pick, StatPath, UnlinkPath, Bind, SetPermissions, Goto
  <2>2. CASE StartFails(q) \/ Record(q) \/ Serve(q)
    BY <2>2 DEF TypeOK, StartFails, AbandonEntry, Record, Serve, NextEntry, Goto
  <2>3. CASE Bail(q) \/ Exit(q)
    BY <2>3 DEF TypeOK, Bail, Exit, Gone, Goto
  <2>4. CASE MonitorExits(q) \/ RemoveFile(q)
    BY <2>4 DEF TypeOK, MonitorExits, BeginCleanup, RemoveFile, Goto
  <2>5. CASE CheckExists(q)
    <3>1. left'[p] = left[p]
      BY <2>5 DEF TypeOK, CheckExists
    <3>2. pc'[p] = pc[p] /\ entry'[p] = entry[p]
      BY <2>5 DEF TypeOK, CheckExists, Goto
    <3> QED
      BY <3>1, <3>2
  <2> QED
    BY <1>1, <2>1, <2>2, <2>3, <2>4, <2>5 DEF Progress
<1>2. CASE Disturb(q)
  BY <1>2 DEF TypeOK, Disturb, Start, SkipEntry, StepFails, AbandonEntry, NextEntry,
     AcceptFails, Interrupt, BeginCleanup, Crash, Terminate, Gone, Goto
<1> QED
  BY <1>1, <1>2

(* Only a bind makes a file one's own, and only a removal takes it away. *)
LEMMA OwnFrame ==
    ASSUME TypeOK, EntryInv, [Next]_vars
    PROVE  \/ /\ \A q \in Procs : own'[q] \subseteq own[q]
              /\ fs' = fs
           \/ \E f \in Paths : Delete(f)
           \/ \E p \in Procs, i \in Inodes :
                 /\ Bind(p) /\ PathAt(p) \in Paths
                 /\ fs' = [fs EXCEPT ![PathAt(p)] = i]
                 /\ own' = [own EXCEPT ![p] = @ \cup {PathAt(p)}]
<1>1. ASSUME NEW p \in Procs, UnlinkPath(p) \/ RemoveFile(p) PROVE \E f \in Paths : Delete(f)
  <2>1. PathAt(p) \in Paths
    BY <1>1, ConfigType DEF UnlinkPath, RemoveFile, EntryInv, AtEntry, PathAt
  <2> QED
    BY <1>1, <2>1 DEF UnlinkPath, RemoveFile
<1>2. ASSUME NEW p \in Procs, Bind(p)
      PROVE  \E i \in Inodes :
                /\ PathAt(p) \in Paths
                /\ fs' = [fs EXCEPT ![PathAt(p)] = i]
                /\ own' = [own EXCEPT ![p] = @ \cup {PathAt(p)}]
  BY <1>2, BindIsFresh DEF Bind
<1>3. ASSUME NEW p \in Procs, NEW how, Gone(p, how)
      PROVE  fs' = fs /\ \A q \in Procs : own'[q] \subseteq own[q]
  BY <1>3 DEF Gone, TypeOK
<1>4. ASSUME NEW p \in Procs, Progress(p), ~UnlinkPath(p), ~RemoveFile(p), ~Bind(p)
      PROVE  fs' = fs /\ \A q \in Procs : own'[q] \subseteq own[q]
  <2>1. CASE Bail(p) \/ Exit(p)
    BY <1>3, <2>1 DEF Bail, Exit
  <2>2. CASE ~(Bail(p) \/ Exit(p))
    <3>1. fs' = fs /\ own' = own
      BY <1>4, <2>2 DEF Progress, Pick, StatPath, SetPermissions, StartFails, AbandonEntry,
         Record, Serve, MonitorExits, BeginCleanup, CheckExists
    <3> QED
      BY <3>1
  <2> QED
    BY <2>1, <2>2
<1>5. ASSUME NEW p \in Procs, Disturb(p)
      PROVE  fs' = fs /\ \A q \in Procs : own'[q] \subseteq own[q]
  <2>1. CASE Crash(p) \/ Terminate(p)
    BY <1>3, <2>1 DEF Crash, Terminate
  <2>2. CASE ~(Crash(p) \/ Terminate(p))
    <3>1. fs' = fs /\ own' = own
      BY <1>5, <2>2 DEF Disturb, Start, SkipEntry, StepFails, AbandonEntry, AcceptFails,
         Interrupt, BeginCleanup
    <3> QED
      BY <3>1
  <2> QED
    BY <2>1, <2>2
<1>6. CASE \E f \in Paths : UserRemoves(f)
  BY <1>6 DEF UserRemoves
<1>7. CASE UNCHANGED vars
  BY <1>7 DEF vars
<1> QED
  BY <1>1, <1>2, <1>4, <1>5, <1>6, <1>7 DEF Next

(* What the instance made is there until somebody removes it. *)
LEMMA OwnIsThere ==
    ASSUME TypeOK, EntryInv, OwnInv, [Next]_vars, NEW p \in Procs, NEW f \in own'[p]
    PROVE  fs'[f] # NoFile
<1>0. \A q \in Procs : own[q] \subseteq Paths /\ \A g \in own[q] : fs[g] # NoFile
  BY DEF TypeOK, OwnInv
<1>1. CASE fs' = fs /\ \A q \in Procs : own'[q] \subseteq own[q]
  BY <1>0, <1>1
<1>2. ASSUME NEW g \in Paths, Delete(g) PROVE fs'[f] # NoFile
  <2>1. f \in own[p] /\ f # g
    BY <1>2 DEF Delete
  <2> QED
    BY <1>0, <1>2, <2>1 DEF TypeOK, Delete
<1>3. ASSUME NEW q \in Procs, NEW i \in Inodes, PathAt(q) \in Paths,
             fs' = [fs EXCEPT ![PathAt(q)] = i],
             own' = [own EXCEPT ![q] = @ \cup {PathAt(q)}]
      PROVE  fs'[f] # NoFile
  <2>1. f = PathAt(q) \/ f \in own[p]
    BY <1>3 DEF TypeOK
  <2> QED
    BY <1>0, <1>3, <2>1, SupervisorAssumption DEF TypeOK
<1> QED
  BY <1>1, <1>2, <1>3, OwnFrame

(* The cleanup passes a socket when nothing is at its path, or removes it. *)
LEMMA OwnStep == IInv /\ [Next]_vars => OwnInv'
<1> SUFFICES ASSUME IInv, [Next]_vars,
                    NEW p \in Procs, NEW n \in started'[p], Passed(p, n)',
                    Config[p][n] \in own'[p]
             PROVE  FALSE
  BY OwnIsThere DEF IInv, OwnInv
<1> USE DEF Passed
<1>0. TypeOK /\ EntryInv /\ EntryInv'
  BY EntryStep DEF IInv
<1>1. pc'[p] \in {"clean", "remove"}
  OBVIOUS
<1>2. n \in DOMAIN Config[p] /\ n \in Names /\ Config[p][n] \in Paths
  BY <1>0, ConfigType DEF EntryInv
<1>3. ~Bind(p) /\ ~Record(p)
  BY <1>0, <1>1 DEF TypeOK, Bind, Record, NextEntry, Goto
<1>4. n \in started[p] /\ Config[p][n] \in own[p] /\ fs'[Config[p][n]] # NoFile
  <2>1. n \in started[p]
    BY <1>0, <1>3, OnlyRecordStarts
  <2>2. Config[p][n] \in own[p]
    <3>1. ASSUME NEW q \in Procs, Bind(q), own' = [own EXCEPT ![q] = @ \cup {PathAt(q)}]
          PROVE  own'[p] = own[p]
      BY <1>0, <1>3, <3>1 DEF TypeOK
    <3>2. ASSUME NEW f \in Paths, Delete(f) PROVE own'[p] \subseteq own[p]
      BY <3>2 DEF Delete
    <3> QED
      BY <1>0, <3>1, <3>2, OwnFrame
  <2> QED
    BY <1>0, <2>1, <2>2, OwnIsThere DEF IInv
<1>5. ~Passed(p, n) /\ fs[Config[p][n]] # NoFile
  BY <1>4 DEF IInv, OwnInv
<1>6. CASE UNCHANGED <<pc[p], left[p], entry[p]>>
  BY <1>5, <1>6
<1>7. ASSUME Progress(p) PROVE FALSE
  <2>1. CASE \/ Pick(p) \/ StatPath(p) \/ UnlinkPath(p) \/ SetPermissions(p)
             \/ StartFails(p) \/ Serve(p) \/ Bail(p) \/ Exit(p)
    BY <1>0, <1>1, <2>1 DEF TypeOK, Pick, StatPath, UnlinkPath, SetPermissions,
       StartFails, AbandonEntry, NextEntry, Serve, Bail, Exit, Gone, Goto
  <2>2. CASE MonitorExits(p)
    BY <1>0, <1>4, <2>2 DEF TypeOK, MonitorExits, BeginCleanup, Goto
  <2>3. CASE CheckExists(p)
    <3>1. PICK m \in left[p] :
              /\ left' = [left EXCEPT ![p] = @ \ {m}]
              /\ IF fs[Config[p][m]] = NoFile
                 THEN UNCHANGED <<pc, entry>>
                 ELSE Goto(p, "remove") /\ entry' = [entry EXCEPT ![p] = m]
      BY <2>3 DEF CheckExists
    <3>2. pc[p] = "clean" /\ n \in left[p]
      BY <1>5, <2>3 DEF CheckExists
    <3>3. CASE fs[Config[p][m]] = NoFile
      <4>1. n = m
        BY <1>0, <3>1, <3>2, <3>3 DEF TypeOK
      <4> QED
        BY <1>5, <3>3, <4>1
    <3>4. CASE fs[Config[p][m]] # NoFile
      BY <1>0, <3>1, <3>2, <3>4 DEF TypeOK, Goto
    <3> QED
      BY <3>3, <3>4
  <2>4. CASE RemoveFile(p)
    <3>1. n = entry[p]
      BY <1>0, <1>5, <2>4 DEF TypeOK, RemoveFile, Goto
    <3>2. fs'[Config[p][n]] = NoFile
      BY <1>0, <1>2, <2>4, <3>1 DEF TypeOK, RemoveFile, Delete, PathAt
    <3> QED
      BY <1>4, <3>2
  <2> QED
    BY <1>3, <1>7, <2>1, <2>2, <2>3, <2>4 DEF Progress
<1>8. ASSUME Disturb(p) PROVE FALSE
  <2>1. CASE Start(p) \/ SkipEntry(p) \/ StepFails(p) \/ Crash(p) \/ Terminate(p)
    BY <1>0, <1>1, <2>1 DEF TypeOK, Start, SkipEntry, StepFails, AbandonEntry, NextEntry,
       Crash, Terminate, Gone, Goto
  <2>2. CASE AcceptFails(p)
    BY <1>6, <2>2 DEF AcceptFails
  <2>3. CASE Interrupt(p)
    BY <1>0, <1>4, <2>3 DEF TypeOK, Interrupt, BeginCleanup, Goto
  <2> QED
    BY <1>8, <2>1, <2>2, <2>3 DEF Disturb
<1>9. ASSUME NEW q \in Procs \ {p}, Progress(q) \/ Disturb(q)
      PROVE  UNCHANGED <<pc[p], left[p], entry[p]>>
  BY <1>0, <1>9, OthersKeepTheirPlace
<1>10. CASE UNCHANGED vars \/ \E f \in Paths : UserRemoves(f)
  BY <1>6, <1>10 DEF vars, UserRemoves
<1> QED
  BY <1>6, <1>7, <1>8, <1>9, <1>10 DEF Next

(* An instance that is off can only be started. *)
LEMMA OffStays ==
    ASSUME TypeOK, NEW q \in Procs, pc[q] = "off", Progress(q) \/ Disturb(q), EntryInv
    PROVE  Start(q)
<1>1. started[q] = {}
  BY DEF EntryInv
<1> QED
  BY <1>1 DEF Progress, Disturb, Pick, StatPath, UnlinkPath, Bind, SetPermissions,
     StartFails, Record, Serve, Bail, MonitorExits, CheckExists, RemoveFile, Exit,
     SkipEntry, StepFails, AcceptFails, Interrupt, Crash, Terminate

(* While an instance is alone, nobody but itself changes its paths. *)
LEMMA AloneStep == IInv /\ [Next]_vars => AloneInv'
<1> SUFFICES ASSUME IInv, [Next]_vars, NEW p \in Procs, alone'[p], pc'[p] # "off"
             PROVE  /\ \A q \in Procs \ {p} : pc'[q] = "off"
                    /\ pc'[p] = "unlink" => fs'[PathAt(p)'] # NoFile
                    /\ pc'[p] = "bind" => fs'[PathAt(p)'] = NoFile
                    /\ pc'[p] = "chmod" => fs'[PathAt(p)'] # NoFile
  BY DEF AloneInv
<1> DEFINE OthersOff == \A q \in Procs \ {p} : pc[q] = "off"
<1> DEFINE Found == /\ pc[p] = "unlink" => fs[PathAt(p)] # NoFile
                    /\ pc[p] = "bind" => fs[PathAt(p)] = NoFile
                    /\ pc[p] = "chmod" => fs[PathAt(p)] # NoFile
<1> SUFFICES OthersOff' /\ Found'
  OBVIOUS
<1>0. TypeOK /\ EntryInv
  BY DEF IInv
<1>1. ASSUME NEW q \in Procs, Start(q) PROVE OthersOff' /\ Found'
  <2>1. p = q /\ OthersOff
    BY <1>1 DEF Start
  <2> QED
    BY <1>0, <1>1, <2>1 DEF TypeOK, Start, Goto
<1>2. ASSUME alone[p], pc[p] # "off" PROVE OthersOff /\ Found
  BY <1>2 DEF IInv, AloneInv
<1>3. ASSUME Progress(p) \/ (Disturb(p) /\ ~Start(p)), alone[p], pc[p] # "off"
      PROVE  OthersOff' /\ Found'
  <2>1. OthersOff'
    BY <1>0, <1>2, <1>3, OthersKeepTheirPlace
  <2>2. Found'
    <3> USE <1>0 DEF TypeOK
    <3>1. CASE StatPath(p)
      BY <3>1 DEF StatPath, Goto, PathAt
    <3>2. CASE UnlinkPath(p)
      <4>1. entry[p] \in DOMAIN Config[p]
        BY <3>2 DEF UnlinkPath, EntryInv, AtEntry
      <4>2. PathAt(p) \in Paths /\ PathAt(p)' = PathAt(p)
        BY <3>2, <4>1, ConfigType DEF UnlinkPath, PathAt
      <4> QED
        BY <3>2, <4>2 DEF UnlinkPath, Delete, Goto
    <3>3. CASE Bind(p)
      <4>1. PICK i \in Inodes : PathAt(p) \in Paths /\ fs' = [fs EXCEPT ![PathAt(p)] = i]
        BY <3>3, BindIsFresh
      <4>2. PathAt(p)' = PathAt(p) /\ pc'[p] = "chmod"
        BY <3>3 DEF Bind, PathAt, Goto
      <4> QED
        BY <4>1, <4>2, SupervisorAssumption
    <3>4. CASE \/ Pick(p) \/ SetPermissions(p) \/ StartFails(p) \/ Record(p) \/ Serve(p)
               \/ SkipEntry(p) \/ StepFails(p)
      <4>1. pc'[p] \in {"pick", "stat", "record", "run"}
        BY <3>4 DEF Pick, SetPermissions, StartFails, Record, Serve, SkipEntry, StepFails,
           AbandonEntry, NextEntry, Goto
      <4> QED
        BY <4>1
    <3>5. CASE Bail(p) \/ Exit(p) \/ Crash(p) \/ Terminate(p)
      <4>1. pc'[p] = "off"
        BY <3>5 DEF Bail, Exit, Crash, Terminate, Gone, Goto
      <4> QED
        BY <4>1
    <3>6. CASE MonitorExits(p) \/ Interrupt(p) \/ RemoveFile(p)
      <4>1. pc'[p] = "clean"
        BY <3>6 DEF MonitorExits, Interrupt, BeginCleanup, RemoveFile, Goto
      <4> QED
        BY <4>1
    <3>7. CASE CheckExists(p)
      <4>1. pc'[p] \in {"clean", "remove"}
        BY <3>7 DEF CheckExists, Goto
      <4> QED
        BY <4>1
    <3>8. CASE AcceptFails(p)
      BY <1>2, <1>3, <3>8 DEF AcceptFails, PathAt
    <3> QED
      BY <1>3, <3>1, <3>2, <3>3, <3>4, <3>5, <3>6, <3>7, <3>8 DEF Progress, Disturb
  <2> QED
    BY <2>1, <2>2
<1>4. ASSUME NEW f \in Paths, UserRemoves(f) PROVE OthersOff' /\ Found'
  <2>1. OthersOff /\ pc' = pc
    BY <1>2, <1>4 DEF UserRemoves
  <2>2. pc[p] = "run"
    BY <1>4, <2>1 DEF UserRemoves
  <2> QED
    BY <2>1, <2>2
<1>5. CASE UNCHANGED vars
  BY <1>2, <1>5 DEF vars, PathAt
<1>6. ASSUME NEW q \in Procs, Progress(q) \/ Disturb(q), ~Start(q)
      PROVE  OthersOff' /\ Found'
  <2>1. alone' = alone
    BY <1>6 DEF Progress, Disturb, Pick, StatPath, UnlinkPath, Bind, SetPermissions,
       StartFails, Record, Serve, Bail, MonitorExits, CheckExists, RemoveFile, Exit,
       SkipEntry, StepFails, AbandonEntry, AcceptFails, Interrupt, BeginCleanup, Crash, Terminate, Gone
  <2>2. pc[q] # "off"
    BY <1>0, <1>6, OffStays
  <2>3. pc[p] # "off"
    BY <1>0, <1>6, <2>2, OthersKeepTheirPlace
  <2>4. q = p
    BY <1>2, <2>1, <2>2, <2>3
  <2> QED
    BY <1>3, <1>6, <2>1, <2>3, <2>4
<1> QED
  BY <1>1, <1>4, <1>5, <1>6 DEF Next

LEMMA IInvStep == IInv /\ [Next]_vars => IInv'
  BY TypeStep, EntryStep, SockStep, WatchStep, OwnStep, AloneStep DEF IInv

-----------------------------------------------------------------------------
(***************************************************************************)
(* The theorems.                                                           *)
(***************************************************************************)

(* The inductive invariant holds in every reachable state. *)
THEOREM Invariance == Spec => []IInv
  BY IInvInit, IInvStep, PTL DEF Spec

(* What an instance watches where clients reach it is its own socket. *)
THEOREM WatchesOwn == Spec => []ReachableWatchesOwn
<1>1. IInv => ReachableWatchesOwn
  BY DEF IInv
<1> QED
  BY <1>1, Invariance, PTL

(***************************************************************************)
(* An instance that stops by itself leaves no file of a socket it has      *)
(* started and made itself, whatever was replaced or failed meanwhile.     *)
(***************************************************************************)
THEOREM CleanStops == Spec => CleanStopLeavesNoSocket
<1>1. ASSUME IInv, [Next]_vars, NEW p \in Procs, Ends(p, "clean"), NEW n \in started[p]
      PROVE  Config[p][n] \notin own[p]
  <2>0. TypeOK /\ EntryInv /\ OwnInv
    BY <1>1 DEF IInv
  <2>1. Exit(p)
    <3>1. ~UNCHANGED pc[p]
      BY <1>1 DEF Ends
    <3>2. Progress(p) \/ Disturb(p)
      BY <1>1, <2>0, <3>1, OthersKeepTheirPlace DEF Next, vars, UserRemoves
    <3>3. CASE Progress(p)
      BY <1>1, <2>0, <3>3 DEF Progress, Ends, TypeOK, Pick, StatPath, UnlinkPath, Bind,
         SetPermissions, StartFails, AbandonEntry, Record, Serve, Bail, MonitorExits, BeginCleanup,
         CheckExists, RemoveFile, NextEntry, Gone, Goto
    <3>4. CASE Disturb(p)
      BY <1>1, <2>0, <3>4 DEF Disturb, Ends, TypeOK, Start, SkipEntry, StepFails,
         AbandonEntry, AcceptFails,
         Interrupt, BeginCleanup, Crash, Terminate, NextEntry, Gone, Goto
    <3> QED
      BY <3>2, <3>3, <3>4
  <2>2. Passed(p, n)
    BY <2>1 DEF Exit, Passed
  <2> QED
    BY <2>0, <2>2 DEF OwnInv
<1>2. IInv /\ [Next]_vars
         => [\A p \in Procs : Ends(p, "clean") =>
                \A n \in started[p] : Config[p][n] \notin own[p]]_vars
  BY <1>1
<1> QED
  BY <1>2, Invariance, PTL DEF Spec, CleanStopLeavesNoSocket

(* No file of the past keeps an instance that is alone from starting. *)
THEOREM StartsRecover == Spec => StartRecovers
<1>1. ASSUME IInv, NEW p \in Procs, StartFails(p)
      PROVE  fs[PathAt(p)] = Link \/ ~alone[p]
  BY <1>1 DEF IInv, TypeOK, AloneInv, StartFails
<1>2. IInv => [\A p \in Procs : StartFails(p) => fs[PathAt(p)] = Link \/ ~alone[p]]_vars
  BY <1>1
<1> QED
  BY <1>2, Invariance, PTL DEF StartRecovers
=============================================================================
