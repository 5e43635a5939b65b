------------------------------- MODULE Service -------------------------------
(***************************************************************************)
(* `authsock-filter service`: register, unregister and reload, in          *)
(* cli/commands/service.rs, against systemd and launchd.  A command is a   *)
(* series of steps, file operations and calls of systemctl or launchctl;   *)
(* it may be interrupted behind any of them, and meanwhile the service     *)
(* manager starts and restarts the program, versions are upgraded, files   *)
(* are edited, and another command may run.                                *)
(***************************************************************************)
EXTENDS Sequences

CONSTANTS
    Invokers,  \* shells that run service commands
    Stable,    \* a path that an upgrade keeps: a shim, a link, /usr/local/bin
    Versions,  \* paths of one version, below a directory of INSTALL_PATTERNS
    Unlisted,  \* paths of one version that these do not match (aqua has some)
    None,      \* no definition, no path
    Disk       \* see `sound`

ASSUME ServiceAssumption ==
    /\ Stable \notin Versions \cup Unlisted
    /\ Versions \cap Unlisted = {}
    /\ None \notin Versions \cup Unlisted \cup {Stable}
    /\ Disk \notin Invokers

(* What a service definition says is the executable it runs.  Its --config  *)
(* names the one configuration file, by an absolute path.                  *)
Paths == Versions \cup Unlisted \cup {Stable}

(* load-w and unload-w are `launchctl load -w` and `unload -w`. *)
Step == {"look", "stop", "disable", "remove", "write", "daemon-reload",
         "enable", "start", "restart", "unload", "unload-w", "load-w"}

VARIABLES
    os,        \* the platform: "linux" with systemd, "macos" with launchd
    present,   \* the executables that exist (external)
    config,    \* whether the configuration loads and has a socket (external)
    unit,      \* the unit file, or the plist
    known,     \* the manager's definition: read by systemd, loaded in launchd
    enabled,   \* whether a login starts the service
    daemon,    \* the process under the manager
    cmd,       \* per invoker: its command
    plan,      \* per invoker: the definition a register is about to write
    todo,      \* per invoker: the steps to come
    calm,      \* history: commands no failing manager, other command or
               \* editor has disturbed
    old,       \* history: commands that began before the daemon was started
    sound,     \* history: the plans, and Disk for the unit, whose executable
               \* was found, not named or forced, and whose configuration has
               \* not been edited since it was validated
    gone       \* history: the service was unregistered, and nothing done since

worldVars == <<os, present, config>>
managerVars == <<known, enabled, daemon, old>>
commandVars == <<cmd, plan, todo>>

vars == <<worldVars, unit, managerVars, commandVars, calm, sound, gone>>

TypeOK ==
    /\ os \in {"linux", "macos"}
    /\ present \in SUBSET Paths /\ Stable \in present
    /\ config \in BOOLEAN
    /\ unit \in Paths \cup {None}
    /\ known \in Paths \cup {None}
    /\ enabled \in BOOLEAN
    /\ daemon \in [state : {"down", "starting", "running", "waiting"},
                   runs : Paths \cup {None}]
    /\ cmd \in [Invokers -> {"none", "register", "unregister", "reload"}]
    /\ plan \in [Invokers -> Paths \cup {None}]
    /\ \A i \in Invokers : cmd[i] = "register" <=> plan[i] # None
    /\ todo \in [Invokers -> Seq(Step)]
    /\ calm \in SUBSET Invokers
    /\ old \in SUBSET Invokers
    /\ sound \in SUBSET (Invokers \cup {Disk})
    /\ gone \in BOOLEAN

(* Nothing is registered; launchd starts a plist at login unless told not to. *)
Init ==
    /\ os \in {"linux", "macos"}
    /\ present = Paths
    /\ config \in BOOLEAN
    /\ unit = None
    /\ known = None
    /\ enabled = (os = "macos")
    /\ daemon = [state |-> "down", runs |-> None]
    /\ cmd = [i \in Invokers |-> "none"]
    /\ plan = [i \in Invokers |-> None]
    /\ todo = [i \in Invokers |-> <<>>]
    /\ calm = {}
    /\ old = {}
    /\ sound = {}
    /\ gone = FALSE

-----------------------------------------------------------------------------
(***************************************************************************)
(* The program under the manager.                                          *)
(***************************************************************************)
(* What `run --config` needs in order to start. *)
Runnable(exe) == exe \in present /\ config

Alive == daemon.state \in {"starting", "running"}

Down == [state |-> "down", runs |-> None]

(* A process is started.  Type=simple: that it was started is all that the *)
(* manager reports.                                                        *)
Launch(exe) ==
    /\ daemon' = [state |-> "starting", runs |-> exe]
    /\ old' = {}

(* Restart=on-failure in the unit: a program that ends with exit code 0 is *)
(* not started again.  KeepAlive in the plist: it always is.               *)
Ended(success) ==
    /\ daemon' = IF os = "linux" /\ success THEN Down
                 ELSE [state |-> "waiting", runs |-> None]
    /\ UNCHANGED <<worldVars, unit, known, enabled, old, commandVars, calm, sound, gone>>

Starts ==
    /\ daemon.state = "starting" /\ Runnable(daemon.runs)
    /\ daemon' = [daemon EXCEPT !.state = "running"]
    /\ UNCHANGED <<worldVars, unit, known, enabled, old, commandVars, calm, sound, gone>>

(* No executable, no configuration, or no socket that can be bound. *)
StartFails == daemon.state = "starting" /\ Ended(FALSE)

(* The end of `run`: 0 after the inode monitor or a signal, 1 to 4 otherwise. *)
Exits == daemon.state = "running" /\ \E success \in BOOLEAN : Ended(success)

(* After RestartSec, or the throttle of launchd. *)
Relaunch ==
    /\ daemon.state = "waiting"
    /\ IF known # None THEN Launch(known) ELSE daemon' = Down /\ old' = old
    /\ UNCHANGED <<worldVars, unit, known, enabled, commandVars, calm, sound, gone>>

(* Logout or shutdown in the middle of anything, and the next login. *)
Relogin ==
    /\ cmd' = [i \in Invokers |-> "none"]
    /\ plan' = [i \in Invokers |-> None]
    /\ todo' = [i \in Invokers |-> <<>>]
    /\ calm' = {}
    /\ known' = IF enabled THEN unit ELSE None
    /\ IF enabled /\ unit # None THEN Launch(unit) ELSE daemon' = Down /\ old' = {}
    /\ sound' = sound \cap {Disk}
    /\ UNCHANGED <<worldVars, unit, enabled, gone>>

-----------------------------------------------------------------------------
(***************************************************************************)
(* What happens outside of the program.                                    *)
(***************************************************************************)
(* Versions are installed and removed, listed or not. *)
Upgrade ==
    /\ \E installed \in SUBSET (Versions \cup Unlisted) :
          present' = {Stable} \cup installed
    /\ UNCHANGED <<os, config, unit, managerVars, commandVars, calm, sound, gone>>

EditConfig ==
    /\ config' = ~config
    /\ sound' = {}
    /\ UNCHANGED <<os, present, unit, managerVars, commandVars, calm, gone>>

(* docs/service.md: "edit the service definition directly". *)
EditUnit ==
    /\ unit # None
    /\ unit' \in Paths
    /\ calm' = {}
    /\ sound' = sound \ {Disk}
    /\ UNCHANGED <<worldVars, managerVars, commandVars, gone>>

-----------------------------------------------------------------------------
(***************************************************************************)
(* resolve_service_executable: the path named, a stable argv[0] (None: not *)
(* absolute), or the running executable, which must not be versioned       *)
(* unless that is forced; detect_version_manager knows Versions only.      *)
(* None: the command ends with an error, before it has changed anything.   *)
(***************************************************************************)
(* Mutant: a versioned argv[0] is taken as well. *)
ExecutableAsCalled(named, argv0, current, force) ==
    CASE named # None -> IF named \in present THEN named ELSE None
      [] named = None /\ argv0 \in present -> argv0
      [] OTHER -> IF current \in Versions /\ ~force THEN None ELSE current

Executable(named, argv0, current, force) ==
    CASE named # None -> IF named \in present THEN named ELSE None
      [] named = None /\ argv0 \in present \ Versions -> argv0
      [] OTHER -> IF current \in Versions /\ ~force THEN None ELSE current

-----------------------------------------------------------------------------
(***************************************************************************)
(* The steps of the commands.                                              *)
(***************************************************************************)
(* Mutant: what runs is left to run. *)
SystemdStepsRunning(c, found) ==
    CASE c = "register" ->
            (IF found THEN <<"disable", "remove">> ELSE <<>>)
               \o <<"write", "daemon-reload", "enable", "start">>
      [] c = "unregister" -> <<"disable", "remove", "daemon-reload">>
      [] c = "reload" -> <<"restart">>

SystemdSteps(c, found) ==
    CASE c = "register" ->
            (IF found THEN <<"stop", "disable", "remove">> ELSE <<>>)
               \o <<"write", "daemon-reload", "enable", "start">>
      [] c = "unregister" -> <<"stop", "disable", "remove", "daemon-reload">>
      [] c = "reload" -> <<"restart">>

(* Mutant: what is loaded is not unloaded first. *)
LaunchdStepsLoaded(c, found) ==
    CASE c = "register" ->
            (IF found THEN <<"remove">> ELSE <<>>) \o <<"write", "load-w">>
      [] c = "unregister" -> <<"unload-w", "remove">>
      [] c = "reload" -> <<"load-w">>

LaunchdSteps(c, found) ==
    CASE c = "register" ->
            (IF found THEN <<"unload", "remove">> ELSE <<>>) \o <<"write", "load-w">>
      [] c = "unregister" -> <<"unload-w", "remove">>
      [] c = "reload" -> <<"unload", "load-w">>

Steps(c, found) ==
    IF os = "linux" THEN SystemdSteps(c, found) ELSE LaunchdSteps(c, found)

(* A command begins; of two that overlap neither is calm.  A service that  *)
(* runs although its file is gone is no fair start either: see README.     *)
Begin(i, c) ==
    /\ cmd[i] = "none"
    /\ cmd' = [cmd EXCEPT ![i] = c]
    /\ calm' = IF /\ \A j \in Invokers : cmd[j] = "none"
                  /\ unit # None \/ (daemon = Down /\ (os = "macos" => known = None))
               THEN {i} ELSE {}
    /\ old' = old \cup {i}
    /\ gone' = FALSE
    /\ UNCHANGED <<worldVars, unit, known, enabled, daemon>>

(* Mutant: the error of resolve_service_executable is not passed on. *)
BeginRegisterAnyway(i) ==
    /\ config
    /\ \E named \in Paths \cup {None}, argv0 \in Paths \cup {None},
          current \in present, force \in BOOLEAN :
          /\ plan' = [plan EXCEPT ![i] = Executable(named, argv0, current, force)]
          /\ sound' = IF named # None \/ force THEN sound \ {i} ELSE sound \cup {i}
    /\ Begin(i, "register")
    /\ todo' = [todo EXCEPT ![i] = <<"look">>]

(* register, up to the check of the configuration file. *)
BeginRegister(i) ==
    /\ config
    /\ \E named \in Paths \cup {None}, argv0 \in Paths \cup {None},
          current \in present, force \in BOOLEAN :
          /\ Executable(named, argv0, current, force) # None
          /\ plan' = [plan EXCEPT ![i] = Executable(named, argv0, current, force)]
          /\ sound' = IF named # None \/ force THEN sound \ {i} ELSE sound \cup {i}
    /\ Begin(i, "register")
    /\ todo' = [todo EXCEPT ![i] = <<"look">>]

(* unregister and reload end at once when the file does not exist. *)
BeginOther(i) ==
    /\ unit # None
    /\ \E c \in {"unregister", "reload"} :
          /\ Begin(i, c)
          /\ todo' = [todo EXCEPT ![i] = Steps(c, TRUE)]
    /\ UNCHANGED <<plan, sound>>

At(i, step) == todo[i] # <<>> /\ Head(todo[i]) = step

Advance(i) ==
    /\ todo' = [todo EXCEPT ![i] = Tail(@)]
    /\ UNCHANGED <<cmd, plan>>

Leave(i) ==
    /\ cmd' = [cmd EXCEPT ![i] = "none"]
    /\ plan' = [plan EXCEPT ![i] = None]
    /\ todo' = [todo EXCEPT ![i] = <<>>]
    /\ sound' = sound \ {i}
    /\ calm' = calm \ {i}
    /\ old' = old \ {i}

(* "registered and started", "unregistered" or "reloaded successfully!" *)
Succeed(i) ==
    /\ cmd[i] # "none" /\ todo[i] = <<>>
    /\ Leave(i)
    /\ gone' = (cmd[i] = "unregister" /\ i \in calm)
    /\ UNCHANGED <<worldVars, unit, known, enabled, daemon>>

(* Interrupted, or an error that `?` passes on. *)
Abort(i) ==
    /\ cmd[i] # "none"
    /\ Leave(i)
    /\ UNCHANGED <<worldVars, unit, known, enabled, daemon, gone>>

(* register looks for an existing file only after its checks. *)
Look(i) ==
    /\ At(i, "look")
    /\ todo' = [todo EXCEPT ![i] = Steps("register", unit # None)]
    /\ UNCHANGED <<worldVars, unit, managerVars, cmd, plan, calm, sound, gone>>

(* fs::remove_file; of a file that another command has removed: Abort. *)
Remove(i) ==
    /\ At(i, "remove") /\ unit # None
    /\ unit' = None
    /\ sound' = sound \ {Disk}
    /\ Advance(i)
    /\ UNCHANGED <<worldVars, managerVars, calm, gone>>

(* fs::write of generate_unit or generate_plist. *)
Write(i) ==
    /\ At(i, "write")
    /\ unit' = plan[i]
    /\ sound' = IF i \in sound THEN sound \cup {Disk} ELSE sound \ {Disk}
    /\ Advance(i)
    /\ UNCHANGED <<worldVars, managerVars, calm, gone>>

(* External: what systemctl does, when it works.  A unit that is enabled or *)
(* active stays in the memory of systemd, and enable and disable end with a *)
(* daemon-reload.                                                          *)
Systemctl(step) ==
    CASE step = "stop" ->
            /\ daemon' = Down
            /\ UNCHANGED <<known, enabled, old>>
      [] step \in {"disable", "daemon-reload"} ->
            /\ enabled' = (enabled /\ step # "disable")
            /\ known' = IF enabled' \/ daemon # Down THEN unit ELSE None
            /\ UNCHANGED <<daemon, old>>
      [] step = "enable" ->
            /\ unit # None
            /\ enabled' = TRUE /\ known' = unit
            /\ UNCHANGED <<daemon, old>>
      [] step = "start" /\ Alive -> UNCHANGED managerVars
      \* A unit that is neither may still be there, or is read now.
      [] step = "restart" \/ (step = "start" /\ ~Alive) ->
            /\ known' \in (IF Alive THEN {known} ELSE {known, unit}) \ {None}
            /\ Launch(known')
            /\ UNCHANGED enabled

(* External: what launchctl does, when it works. *)
Launchctl(step) ==
    CASE step \in {"unload", "unload-w"} ->
            /\ unit # None
            /\ known' = None /\ daemon' = Down
            /\ enabled' = (enabled /\ step # "unload-w")
            /\ UNCHANGED old
      [] step = "load-w" ->
            /\ unit # None
            /\ enabled' = TRUE
            /\ IF known = None THEN known' = unit /\ Launch(unit)
                               ELSE UNCHANGED <<known, daemon, old>>

SystemctlSteps == {"stop", "disable", "daemon-reload", "enable", "start", "restart"}
LaunchctlSteps == {"unload", "unload-w", "load-w"}

ManagerCall(i) ==
    /\ \/ \E step \in SystemctlSteps : At(i, step) /\ Systemctl(step)
       \/ \E step \in LaunchctlSteps : At(i, step) /\ Launchctl(step)
    /\ Advance(i)
    /\ UNCHANGED <<worldVars, unit, calm, sound, gone>>

(* The call has no effect.  Only the status of the last one is looked at. *)
ManagerFails(i) ==
    /\ \E step \in SystemctlSteps \cup LaunchctlSteps : At(i, step)
    /\ IF Head(todo[i]) \in {"start", "restart", "load-w"}
       THEN Leave(i)
       ELSE Advance(i) /\ calm' = calm \ {i} /\ UNCHANGED <<old, sound>>
    /\ UNCHANGED <<worldVars, unit, known, enabled, daemon, gone>>

Command(i) ==
    \/ BeginRegister(i) \/ BeginOther(i) \/ Look(i) \/ Remove(i) \/ Write(i)
    \/ ManagerCall(i) \/ ManagerFails(i) \/ Succeed(i) \/ Abort(i)

Next ==
    \/ Starts \/ StartFails \/ Exits \/ Relaunch \/ Relogin
    \/ Upgrade \/ EditConfig \/ EditUnit
    \/ \E i \in Invokers : Command(i)

Spec == Init /\ [][Next]_vars

-----------------------------------------------------------------------------
(***************************************************************************)
(* Properties.                                                             *)
(***************************************************************************)

(***************************************************************************)
(* A service whose executable register has found by itself, and whose      *)
(* configuration is as it was when register validated it, can be started:  *)
(* whatever is upgraded, and however commands overlap or are interrupted.  *)
(* This holds as far as detect_version_manager knows the version managers. *)
(***************************************************************************)
RegisteredServiceRuns ==
    Disk \in sound /\ unit \notin Unlisted => unit # None /\ Runnable(unit)

(***************************************************************************)
(* "If you run `service register` from a version-managed path (mise, aqua, *)
(* etc.), the command automatically detects this" (docs/service.md:22): a  *)
(* service that is registered unforced survives every upgrade.             *)
(***************************************************************************)
RegisteredSurvivesUpgrade == Disk \in sound => unit # None /\ Runnable(unit)

(***************************************************************************)
(* When an undisturbed register is about to report success, the manager    *)
(* knows the new definition and starts it at login, and what runs is a     *)
(* process started with it: nothing of the service it replaces is left.    *)
(* After an undisturbed reload no process from before it runs.             *)
(***************************************************************************)
TakesEffect ==
    \A i \in calm : cmd[i] \in {"register", "reload"} /\ todo[i] = <<>> =>
        /\ Alive => i \notin old /\ daemon.runs = known
        /\ cmd[i] = "register" => unit = plan[i] /\ known = unit /\ enabled

(***************************************************************************)
(* After an undisturbed unregister nothing runs, nothing is registered,    *)
(* and neither a login nor the manager brings the service back.            *)
(***************************************************************************)
GoneForGood == gone => unit = None /\ known = None /\ daemon.state = "down"
=============================================================================
