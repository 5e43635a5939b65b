---------------------------- MODULE ServiceProofs ----------------------------
(***************************************************************************)
(* Proofs about Service, for every number of shells and versions.          *)
(***************************************************************************)
EXTENDS Service, SequenceTheorems, TLAPS

-----------------------------------------------------------------------------
(***************************************************************************)
(* Type correctness.                                                       *)
(***************************************************************************)

LEMMA ExecutableType ==
    ASSUME NEW named \in Paths \cup {None}, NEW argv0 \in Paths \cup {None},
           NEW current \in Paths, NEW force \in BOOLEAN
    PROVE  Executable(named, argv0, current, force) \in Paths \cup {None}
  BY DEF Executable

(* The steps of a command are steps. *)
LEMMA StepsType ==
    ASSUME NEW c \in {"register", "unregister", "reload"}, NEW found \in BOOLEAN
    PROVE  Steps(c, found) \in Seq(Step)
<1>1. /\ <<"stop", "disable", "remove">> \in Seq(Step)
      /\ <<"write", "daemon-reload", "enable", "start">> \in Seq(Step)
      /\ <<"stop", "disable", "remove", "daemon-reload">> \in Seq(Step)
      /\ <<"restart">> \in Seq(Step)
      /\ << >> \in Seq(Step)
  BY DEF Step
<1>2. /\ <<"unload", "remove">> \in Seq(Step)
      /\ <<"write", "load-w">> \in Seq(Step)
      /\ <<"unload-w", "remove">> \in Seq(Step)
      /\ <<"unload", "load-w">> \in Seq(Step)
  BY DEF Step
<1>3. \A s, t \in Seq(Step) : s \o t \in Seq(Step)
  OBVIOUS
<1>4. SystemdSteps(c, found) \in Seq(Step)
  BY <1>1, <1>3 DEF SystemdSteps
<1>5. LaunchdSteps(c, found) \in Seq(Step)
  BY <1>1, <1>2, <1>3 DEF LaunchdSteps
<1> QED
  BY <1>4, <1>5 DEF Steps

(* The steps to come stay a sequence of steps. *)
LEMMA TailType ==
    ASSUME NEW i \in Invokers, todo \in [Invokers -> Seq(Step)], todo[i] # <<>>
    PROVE  Tail(todo[i]) \in Seq(Step)
  OBVIOUS

LEMMA ShortSteps == << >> \in Seq(Step) /\ <<"look">> \in Seq(Step)
  BY DEF Step

LEMMA TypeInit == Init => TypeOK
<1> SUFFICES ASSUME Init PROVE TypeOK
  OBVIOUS
<1>1. enabled \in BOOLEAN /\ config \in BOOLEAN /\ gone \in BOOLEAN
  BY DEF Init
<1>2. daemon \in [state : {"down", "starting", "running", "waiting"},
                  runs : Paths \cup {None}]
  BY DEF Init
<1>3. todo \in [Invokers -> Seq(Step)]
  BY ShortSteps DEF Init
<1> QED
  BY <1>1, <1>2, <1>3 DEF Init, TypeOK, Paths

(* The part of TypeOK that calls of the manager change. *)
ManagerTypeOK ==
    /\ known \in Paths \cup {None}
    /\ enabled \in BOOLEAN
    /\ daemon \in [state : {"down", "starting", "running", "waiting"},
                   runs : Paths \cup {None}]
    /\ old \in SUBSET Invokers

LEMMA LaunchType ==
    ASSUME NEW exe \in Paths, Launch(exe)
    PROVE  /\ daemon' \in [state : {"down", "starting", "running", "waiting"},
                           runs : Paths \cup {None}]
           /\ old' \in SUBSET Invokers
  BY DEF Launch

LEMMA DownType ==
    Down \in [state : {"down", "starting", "running", "waiting"}, runs : Paths \cup {None}]
  BY DEF Down

LEMMA SystemctlType ==
    ASSUME TypeOK, NEW step \in SystemctlSteps, Systemctl(step)
    PROVE  ManagerTypeOK'
<1> USE DEF TypeOK, ManagerTypeOK
<1>1. CASE step = "stop"
  BY <1>1, DownType DEF Systemctl
<1>2. CASE step \in {"disable", "daemon-reload"}
  <2>1. enabled' = (enabled /\ step # "disable")
        /\ known' = (IF enabled' \/ daemon # Down THEN unit ELSE None)
        /\ UNCHANGED <<daemon, old>>
    BY <1>2 DEF Systemctl
  <2> QED
    BY <2>1
<1>3. CASE step = "enable"
  <2>1. enabled' = TRUE /\ known' = unit /\ UNCHANGED <<daemon, old>>
    BY <1>3 DEF Systemctl
  <2> QED
    BY <2>1
<1>4. CASE step \in {"start", "restart"}
  <2>1. CASE step = "start" /\ Alive
    <3>1. UNCHANGED <<known, enabled, daemon, old>>
      BY <2>1 DEF Systemctl, managerVars
    <3> QED
      BY <3>1
  <2>2. CASE ~(step = "start" /\ Alive)
    <3>1. /\ known' \in {known, unit} \ {None}
          /\ Launch(known')
          /\ UNCHANGED enabled
      BY <1>4, <2>2 DEF Systemctl
    <3> QED
      BY <3>1, LaunchType
  <2> QED
    BY <2>1, <2>2
<1> QED
  BY <1>1, <1>2, <1>3, <1>4 DEF SystemctlSteps

LEMMA LaunchctlType ==
    ASSUME TypeOK, NEW step \in LaunchctlSteps, Launchctl(step)
    PROVE  ManagerTypeOK'
<1> USE DEF TypeOK, ManagerTypeOK
<1>1. CASE step \in {"unload", "unload-w"}
  <2>1. /\ known' = None /\ daemon' = Down
        /\ enabled' = (enabled /\ step # "unload-w")
        /\ old' = old
    BY <1>1 DEF Launchctl
  <2> QED
    BY <2>1, DownType
<1>2. CASE step = "load-w"
  <2>1. /\ unit # None
        /\ enabled' = TRUE
        /\ IF known = None THEN known' = unit /\ Launch(unit)
                           ELSE UNCHANGED <<known, daemon, old>>
    BY <1>2 DEF Launchctl
  <2>2. enabled' \in BOOLEAN
    BY <2>1
  <2> QED
    BY <2>1, <2>2, LaunchType
<1> QED
  BY <1>1, <1>2 DEF LaunchctlSteps

LEMMA TypeStep == TypeOK /\ [Next]_vars => TypeOK'
<1> SUFFICES ASSUME TypeOK, [Next]_vars PROVE TypeOK'
  OBVIOUS
<1> USE DEF TypeOK, worldVars, managerVars, commandVars
<1>1. CASE Starts \/ StartFails \/ Exits \/ Relaunch
  BY <1>1 DEF Starts, StartFails, Exits, Ended, Relaunch, Launch, Down
<1>2. CASE Relogin
  BY <1>2, ShortSteps DEF Relogin, Launch, Down
<1>3. CASE Upgrade \/ EditConfig \/ EditUnit
  BY <1>3 DEF Upgrade, EditConfig, EditUnit, Paths
<1>4. ASSUME NEW i \in Invokers, Command(i) PROVE TypeOK'
  <2>1. CASE BeginRegister(i)
    <3>1. PICK named \in Paths \cup {None}, argv0 \in Paths \cup {None},
               current \in present, force \in BOOLEAN :
            /\ Executable(named, argv0, current, force) # None
            /\ plan' = [plan EXCEPT ![i] = Executable(named, argv0, current, force)]
            /\ sound' = IF named # None \/ force THEN sound \ {i} ELSE sound \cup {i}
      BY <2>1 DEF BeginRegister
    <3>2. Executable(named, argv0, current, force) \in Paths \cup {None}
      BY ExecutableType
    <3> QED
      BY <2>1, <3>1, <3>2, ShortSteps DEF BeginRegister, Begin
  <2>2. CASE BeginOther(i)
    <3>1. PICK c \in {"unregister", "reload"} :
              Begin(i, c) /\ todo' = [todo EXCEPT ![i] = Steps(c, TRUE)]
      BY <2>2 DEF BeginOther
    <3>2. Steps(c, TRUE) \in Seq(Step)
      BY StepsType
    <3> QED
      BY <2>2, <3>1, <3>2 DEF BeginOther, Begin
  <2>3. CASE Look(i)
    <3>1. Steps("register", unit # None) \in Seq(Step)
      BY StepsType
    <3> QED
      BY <2>3, <3>1 DEF Look
  <2>4. CASE Remove(i) \/ Write(i)
    <3>1. Tail(todo[i]) \in Seq(Step)
      BY <2>4, TailType DEF Remove, Write, At
    <3>2. CASE Remove(i)
      BY <3>1, <3>2 DEF Remove, Advance
    <3>3. CASE Write(i)
      BY <3>1, <3>3 DEF Write, Advance
    <3> QED
      BY <2>4, <3>2, <3>3
  <2>5. CASE ManagerCall(i)
    <3>1. Tail(todo[i]) \in Seq(Step)
      BY <2>5, TailType DEF ManagerCall, At
    <3>2. ManagerTypeOK'
      BY <2>5, SystemctlType, LaunchctlType DEF ManagerCall
    <3> QED
      BY <2>5, <3>1, <3>2 DEF ManagerCall, Advance, ManagerTypeOK
  <2>6. CASE ManagerFails(i)
    <3>1. Tail(todo[i]) \in Seq(Step)
      BY <2>6, TailType DEF ManagerFails, At
    <3>2. CASE Leave(i)
      BY <2>6, <3>2, ShortSteps DEF ManagerFails, Leave
    <3>3. CASE Advance(i) /\ calm' = calm \ {i} /\ UNCHANGED <<old, sound>>
      BY <2>6, <3>1, <3>3 DEF ManagerFails, Advance
    <3> QED
      BY <2>6, <3>2, <3>3 DEF ManagerFails
  <2>7. CASE Succeed(i) \/ Abort(i)
    <3>1. CASE Succeed(i)
      <4>1. gone' \in BOOLEAN
        BY <3>1 DEF Succeed
      <4> QED
        BY <3>1, <4>1, ShortSteps DEF Succeed, Leave
    <3>2. CASE Abort(i)
      BY <3>2, ShortSteps DEF Abort, Leave
    <3> QED
      BY <2>7, <3>1, <3>2
  <2> QED
    BY <1>4, <2>1, <2>2, <2>3, <2>4, <2>5, <2>6, <2>7 DEF Command
<1>5. CASE UNCHANGED vars
  BY <1>5 DEF vars
<1> QED
  BY <1>1, <1>2, <1>3, <1>4, <1>5 DEF Next

(* Every variable of the service keeps its type. *)
THEOREM TypeCorrect == Spec => []TypeOK
  BY TypeInit, TypeStep, PTL DEF Spec

-----------------------------------------------------------------------------
(* What resolve_service_executable finds by itself has no version that it  *)
(* could have detected.                                                    *)
LEMMA FoundIsUnversioned ==
    ASSUME NEW argv0 \in Paths \cup {None}, NEW current \in Paths,
           present \subseteq Paths,
           Executable(None, argv0, current, FALSE) # None
    PROVE  Executable(None, argv0, current, FALSE) \in {Stable} \cup Unlisted
  BY ServiceAssumption DEF Executable, Paths

(***************************************************************************)
(* A registered service can be started.  The reason is that what register  *)
(* finds by itself is the stable path, or else unlisted; and that an edit  *)
(* of the configuration ends what validation has shown.                    *)
(***************************************************************************)
SoundInv ==
    /\ sound # {} => config
    /\ \A i \in Invokers : i \in sound => plan[i] \in {Stable} \cup Unlisted
    /\ Disk \in sound => unit \in {Stable} \cup Unlisted

IInv == TypeOK /\ SoundInv

LEMMA SoundInit == Init => SoundInv
  BY DEF Init, SoundInv

LEMMA SoundStep == IInv /\ [Next]_vars => SoundInv'
<1> SUFFICES ASSUME IInv, [Next]_vars PROVE SoundInv'
  OBVIOUS
<1> USE ServiceAssumption DEF IInv, SoundInv, worldVars, managerVars, commandVars
<1>1. CASE Starts \/ StartFails \/ Exits \/ Relaunch
  BY <1>1 DEF Starts, StartFails, Exits, Ended, Relaunch
<1>2. CASE Relogin
  BY <1>2 DEF Relogin
<1>3. CASE Upgrade \/ EditConfig \/ EditUnit
  BY <1>3 DEF Upgrade, EditConfig, EditUnit
<1>4. ASSUME NEW i \in Invokers, Command(i) PROVE SoundInv'
  <2>0. plan \in [Invokers -> Paths \cup {None}] /\ present \subseteq Paths
    BY DEF TypeOK
  <2>1. CASE BeginRegister(i)
    <3>1. PICK named \in Paths \cup {None}, argv0 \in Paths \cup {None},
               current \in present, force \in BOOLEAN :
            /\ Executable(named, argv0, current, force) # None
            /\ plan' = [plan EXCEPT ![i] = Executable(named, argv0, current, force)]
            /\ sound' = IF named # None \/ force THEN sound \ {i} ELSE sound \cup {i}
      BY <2>1 DEF BeginRegister
    <3>2. config /\ config' = config /\ unit' = unit
      BY <2>1 DEF BeginRegister, Begin
    <3>3. CASE named # None \/ force
      BY <2>0, <3>1, <3>2, <3>3
    <3>4. CASE named = None /\ force = FALSE
      <4>1. Executable(named, argv0, current, force) \in {Stable} \cup Unlisted
        BY <2>0, <3>1, <3>4, FoundIsUnversioned
      <4> QED
        BY <2>0, <3>1, <3>2, <3>4, <4>1
    <3> QED
      BY <3>3, <3>4
  <2>2. CASE BeginOther(i)
    BY <2>2 DEF BeginOther, Begin
  <2>3. CASE Look(i) \/ ManagerCall(i)
    BY <2>3 DEF Look, ManagerCall, Advance
  <2>4. CASE Remove(i)
    BY <2>4 DEF Remove, Advance
  <2>5. CASE Write(i)
    BY <2>5 DEF Write, Advance
  <2>6. CASE ManagerFails(i) \/ Succeed(i) \/ Abort(i)
    BY <2>0, <2>6 DEF ManagerFails, Succeed, Abort, Advance, Leave
  <2> QED
    BY <1>4, <2>1, <2>2, <2>3, <2>4, <2>5, <2>6 DEF Command
<1>5. CASE UNCHANGED vars
  BY <1>5 DEF vars
<1> QED
  BY <1>1, <1>2, <1>3, <1>4, <1>5 DEF Next

THEOREM Invariance == Spec => []IInv
<1>1. Init => IInv
  BY TypeInit, SoundInit DEF IInv
<1>2. IInv /\ [Next]_vars => IInv'
  BY TypeStep, SoundStep DEF IInv
<1> QED
  BY <1>1, <1>2, PTL DEF Spec

(***************************************************************************)
(* Neither upgrades nor overlapping and interrupted commands break what    *)
(* register has found and validated, as far as it knows version managers.  *)
(***************************************************************************)
THEOREM RegisteredRuns == Spec => []RegisteredServiceRuns
<1>1. IInv => RegisteredServiceRuns
  BY ServiceAssumption DEF IInv, SoundInv, TypeOK, RegisteredServiceRuns, Runnable
<1> QED
  BY <1>1, Invariance, PTL
-----------------------------------------------------------------------------
(***************************************************************************)
(* Undisturbed commands.  One that nothing has disturbed is the only one,  *)
(* and what is left of its steps tells how far it has got: what the steps  *)
(* behind it have done still holds, whatever the daemon does meanwhile.    *)
(***************************************************************************)
(* What is so when process and manager are as the command left them. *)
Renewed(i) == Alive => i \notin old /\ daemon.runs = known

SystemdRegister(i) ==
    \/ todo[i] = <<"look">> /\ (unit # None \/ daemon = Down)
    \/ todo[i] = <<"stop", "disable", "remove", "write", "daemon-reload", "enable", "start">>
    \/ /\ todo[i] \in {<<"disable", "remove", "write", "daemon-reload", "enable", "start">>,
                       <<"remove", "write", "daemon-reload", "enable", "start">>,
                       <<"write", "daemon-reload", "enable", "start">>}
       /\ daemon = Down
    \/ /\ todo[i] \in {<<"daemon-reload", "enable", "start">>, <<"enable", "start">>}
       /\ daemon = Down /\ unit = plan[i]
    \/ /\ todo[i] = <<"start">>
       /\ daemon = Down /\ unit = plan[i] /\ known = unit /\ enabled
    \/ /\ todo[i] = << >>
       /\ Renewed(i) /\ unit = plan[i] /\ known = unit /\ enabled

LaunchdRegister(i) ==
    \/ todo[i] = <<"look">> /\ (unit # None \/ (daemon = Down /\ known = None))
    \/ todo[i] = <<"unload", "remove", "write", "load-w">>
    \/ /\ todo[i] \in {<<"remove", "write", "load-w">>, <<"write", "load-w">>}
       /\ daemon = Down /\ known = None
    \/ /\ todo[i] = <<"load-w">>
       /\ daemon = Down /\ known = None /\ unit = plan[i]
    \/ /\ todo[i] = << >>
       /\ Renewed(i) /\ unit = plan[i] /\ known = unit /\ enabled

SystemdUnregister(i) ==
    \/ todo[i] = <<"stop", "disable", "remove", "daemon-reload">>
    \/ todo[i] = <<"disable", "remove", "daemon-reload">> /\ daemon = Down
    \/ /\ todo[i] = <<"remove", "daemon-reload">>
       /\ daemon = Down /\ known = None
    \/ /\ todo[i] \in {<<"daemon-reload">>, << >>}
       /\ daemon = Down /\ known = None /\ unit = None

LaunchdUnregister(i) ==
    \/ todo[i] = <<"unload-w", "remove">>
    \/ todo[i] = <<"remove">> /\ daemon = Down /\ known = None
    \/ todo[i] = << >> /\ daemon = Down /\ known = None /\ unit = None

SystemdReload(i) == todo[i] = <<"restart">> \/ (todo[i] = << >> /\ Renewed(i))

LaunchdReload(i) ==
    \/ todo[i] = <<"unload", "load-w">>
    \/ todo[i] = <<"load-w">> /\ daemon = Down /\ known = None
    \/ todo[i] = << >> /\ Renewed(i)

Undisturbed(i) ==
    /\ cmd[i] # "none"
    /\ cmd[i] = "register" =>
          IF os = "linux" THEN SystemdRegister(i) ELSE LaunchdRegister(i)
    /\ cmd[i] = "unregister" =>
          IF os = "linux" THEN SystemdUnregister(i) ELSE LaunchdUnregister(i)
    /\ cmd[i] = "reload" =>
          IF os = "linux" THEN SystemdReload(i) ELSE LaunchdReload(i)

CalmInv ==
    /\ \A i \in Invokers : cmd[i] = "none" => todo[i] = << >>
    /\ \A i \in calm : Undisturbed(i) /\ \A j \in Invokers \ {i} : cmd[j] = "none"

GoneInv ==
    gone => /\ unit = None /\ known = None /\ daemon = Down
            /\ \A i \in Invokers : cmd[i] = "none"

-----------------------------------------------------------------------------
(* A concatenation of steps, written out. *)
LEMMA WrittenOut ==
    ASSUME NEW s \in Seq(Step), NEW t \in Seq(Step), NEW u \in Seq(Step),
           Len(u) = Len(s) + Len(t),
           \A k \in 1..Len(s) : u[k] = s[k],
           \A k \in 1..Len(t) : u[k + Len(s)] = t[k]
    PROVE  s \o t = u
<1>1. s \o t \in Seq(Step) /\ Len(s \o t) = Len(u)
  OBVIOUS
<1>2. Len(s) \in Nat /\ Len(t) \in Nat
  OBVIOUS
<1>3. ASSUME NEW k \in 1..Len(u) PROVE (s \o t)[k] = u[k]
  <2>1. CASE k <= Len(s)
    <3>1. k \in 1..Len(s)
      BY <1>2, <2>1
    <3>2. (s \o t)[k] = s[k]
      BY <3>1
    <3> QED
      BY <3>1, <3>2
  <2>2. CASE ~(k <= Len(s))
    <3>1. k - Len(s) \in 1..Len(t) /\ k - Len(s) + Len(s) = k
      BY <1>2, <2>2
    <3>2. (s \o t)[k] = t[k - Len(s)]
      BY <1>2, <2>2
    <3> QED
      BY <3>1, <3>2
  <2> QED
    BY <2>1, <2>2
<1> QED
  BY <1>1, <1>3, SeqEqual

LEMMA SystemdReplaces ==
    SystemdSteps("register", TRUE) =
        <<"stop", "disable", "remove", "write", "daemon-reload", "enable", "start">>
<1> DEFINE s == <<"stop", "disable", "remove">>
           t == <<"write", "daemon-reload", "enable", "start">>
           u == <<"stop", "disable", "remove", "write", "daemon-reload", "enable", "start">>
<1>1. s \in Seq(Step) /\ t \in Seq(Step) /\ u \in Seq(Step)
  BY DEF Step
<1>2. Len(s) = 3 /\ Len(t) = 4 /\ Len(u) = 7
  OBVIOUS
<1>3. (\A k \in 1..3 : u[k] = s[k]) /\ (\A k \in 1..4 : u[k + 3] = t[k])
  OBVIOUS
<1>4. SystemdSteps("register", TRUE) = s \o t
  BY DEF SystemdSteps
<1> HIDE DEF s, t, u
<1>5. /\ Len(u) = Len(s) + Len(t)
      /\ \A k \in 1..Len(s) : u[k] = s[k]
      /\ \A k \in 1..Len(t) : u[k + Len(s)] = t[k]
  BY <1>2, <1>3
<1>6. s \o t = u
  BY ONLY <1>1, <1>5, WrittenOut, Zenon
<1> QED
  BY <1>4, <1>6 DEF u

LEMMA LaunchdReplaces ==
    LaunchdSteps("register", TRUE) = <<"unload", "remove", "write", "load-w">>
<1> DEFINE s == <<"unload", "remove">>
           t == <<"write", "load-w">>
           u == <<"unload", "remove", "write", "load-w">>
<1>1. s \in Seq(Step) /\ t \in Seq(Step) /\ u \in Seq(Step)
  BY DEF Step
<1>2. Len(s) = 2 /\ Len(t) = 2 /\ Len(u) = 4
  OBVIOUS
<1>3. (\A k \in 1..2 : u[k] = s[k]) /\ (\A k \in 1..2 : u[k + 2] = t[k])
  OBVIOUS
<1>4. LaunchdSteps("register", TRUE) = s \o t
  BY DEF LaunchdSteps
<1> HIDE DEF s, t, u
<1>5. /\ Len(u) = Len(s) + Len(t)
      /\ \A k \in 1..Len(s) : u[k] = s[k]
      /\ \A k \in 1..Len(t) : u[k + Len(s)] = t[k]
  BY <1>2, <1>3
<1>6. s \o t = u
  BY ONLY <1>1, <1>5, WrittenOut, Zenon
<1> QED
  BY <1>4, <1>6 DEF u

LEMMA RegisterSteps ==
    /\ SystemdSteps("register", FALSE) = <<"write", "daemon-reload", "enable", "start">>
    /\ LaunchdSteps("register", FALSE) = <<"write", "load-w">>
<1>1. /\ <<"write", "daemon-reload", "enable", "start">> \in Seq(Step)
      /\ <<"write", "load-w">> \in Seq(Step)
  BY DEF Step
<1>2. \A s \in Seq(Step) : << >> \o s = s
  OBVIOUS
<1>3. << >> \o <<"write", "daemon-reload", "enable", "start">>
         = <<"write", "daemon-reload", "enable", "start">>
  BY ONLY <1>1, <1>2, Zenon
<1>4. << >> \o <<"write", "load-w">> = <<"write", "load-w">>
  BY ONLY <1>1, <1>2, Zenon
<1> QED
  BY <1>3, <1>4 DEF SystemdSteps, LaunchdSteps

LEMMA OtherSteps ==
    /\ SystemdSteps("unregister", TRUE) = <<"stop", "disable", "remove", "daemon-reload">>
    /\ SystemdSteps("reload", TRUE) = <<"restart">>
    /\ LaunchdSteps("unregister", TRUE) = <<"unload-w", "remove">>
    /\ LaunchdSteps("reload", TRUE) = <<"unload", "load-w">>
  BY DEF SystemdSteps, LaunchdSteps

-----------------------------------------------------------------------------
(* A call of the manager that works, without what it changes at the manager. *)
LEMMA CallsManager ==
    ASSUME NEW i \in Invokers, TypeOK, ManagerCall(i)
    PROVE  /\ todo[i] # << >>
           /\ todo'[i] = Tail(todo[i]) /\ UNCHANGED <<os, unit, cmd, plan>>
           /\ \/ Head(todo[i]) \in SystemctlSteps /\ Systemctl(Head(todo[i]))
              \/ Head(todo[i]) \in LaunchctlSteps /\ Launchctl(Head(todo[i]))
  BY DEF ManagerCall, At, Advance, TypeOK, worldVars

(* What each call does of which a calm command makes use. *)
LEMMA SystemctlDoes ==
    /\ Systemctl("stop") => daemon' = Down
    /\ Systemctl("disable") /\ daemon = Down => daemon' = Down /\ known' = None
    /\ Systemctl("daemon-reload") /\ daemon = Down =>
          daemon' = Down /\ known' \in {unit, None}
    /\ Systemctl("enable") => daemon' = daemon /\ known' = unit /\ enabled'
    /\ Systemctl("start") /\ daemon = Down /\ known = unit /\ enabled =>
          /\ known' = known /\ enabled'
          /\ daemon'.state = "starting" /\ daemon'.runs = known' /\ old' = {}
    /\ Systemctl("restart") => daemon'.runs = known' /\ old' = {}
<1>1. Systemctl("stop") => daemon' = Down
  BY DEF Systemctl
<1>2. Systemctl("disable") /\ daemon = Down => daemon' = Down /\ known' = None
  BY DEF Systemctl
<1>3. Systemctl("daemon-reload") /\ daemon = Down =>
          daemon' = Down /\ known' \in {unit, None}
  BY DEF Systemctl
<1>4. Systemctl("enable") => daemon' = daemon /\ known' = unit /\ enabled'
  BY DEF Systemctl
<1>5. ASSUME Systemctl("start"), daemon = Down, known = unit, enabled
      PROVE  /\ known' = known /\ enabled'
             /\ daemon'.state = "starting" /\ daemon'.runs = known' /\ old' = {}
  <2>1. ~Alive
    BY <1>5 DEF Alive, Down
  <2> QED
    BY <1>5, <2>1 DEF Systemctl, Launch
<1>6. Systemctl("restart") => daemon'.runs = known' /\ old' = {}
  BY DEF Systemctl, Launch
<1> QED
  BY <1>1, <1>2, <1>3, <1>4, <1>5, <1>6

LEMMA LaunchctlDoes ==
    /\ Launchctl("unload") => daemon' = Down /\ known' = None
    /\ Launchctl("unload-w") => daemon' = Down /\ known' = None
    /\ Launchctl("load-w") /\ known = None =>
          known' = unit /\ enabled' /\ daemon'.runs = known' /\ old' = {}
  BY DEF Launchctl, Launch

(* No step of a command has two names. *)
LEMMA StepNames == SystemctlSteps \cap LaunchctlSteps = {}
  BY DEF SystemctlSteps, LaunchctlSteps

-----------------------------------------------------------------------------
(* What one step of a calm command does to its own stage: register under   *)
(* systemd, from one stage to the next.                                    *)
LEMMA SystemdRegisterStep ==
    ASSUME NEW i \in Invokers, TypeOK, os = "linux", cmd[i] = "register",
           SystemdRegister(i), Look(i) \/ Remove(i) \/ Write(i) \/ ManagerCall(i)
    PROVE  SystemdRegister(i)'
<1> DEFINE S7 == <<"stop", "disable", "remove", "write", "daemon-reload", "enable", "start">>
           S6 == <<"disable", "remove", "write", "daemon-reload", "enable", "start">>
           S5 == <<"remove", "write", "daemon-reload", "enable", "start">>
           S4 == <<"write", "daemon-reload", "enable", "start">>
           S3 == <<"daemon-reload", "enable", "start">>
           S2 == <<"enable", "start">>
           S1 == <<"start">>
<1>1. CASE Look(i)
  <2>1. /\ todo'[i] = SystemdSteps("register", unit # None)
        /\ daemon' = daemon
        /\ unit # None \/ daemon = Down
    BY <1>1 DEF Look, At, SystemdRegister, Steps, TypeOK, managerVars
  <2>2. CASE unit # None
    BY <2>1, <2>2, SystemdReplaces DEF SystemdRegister
  <2>3. CASE unit = None
    <3>1. daemon' = Down
      BY <2>1, <2>3
    <3>2. todo'[i] = S4
      BY <2>1, <2>3, RegisterSteps
    <3> QED
      BY <3>1, <3>2 DEF SystemdRegister
  <2> QED
    BY <2>2, <2>3
<1>2. CASE Remove(i)
  <2>1. todo[i] = S5 /\ daemon = Down
    BY <1>2 DEF Remove, At, SystemdRegister
  <2>2. todo'[i] = S4 /\ daemon' = Down
    BY <1>2, <2>1 DEF Remove, Advance, TypeOK, managerVars
  <2> QED
    BY <2>2 DEF SystemdRegister
<1>3. CASE Write(i)
  <2>1. todo[i] = S4 /\ daemon = Down
    BY <1>3 DEF Write, At, SystemdRegister
  <2>2. todo'[i] = S3 /\ daemon' = Down /\ unit' = plan'[i]
    BY <1>3, <2>1 DEF Write, Advance, TypeOK, managerVars
  <2> QED
    BY <2>2 DEF SystemdRegister
<1>4. CASE ManagerCall(i)
  <2> DEFINE h == Head(todo[i])
  <2>0. /\ todo[i] # << >>
        /\ todo'[i] = Tail(todo[i]) /\ UNCHANGED <<os, unit, cmd, plan>>
        /\ \/ h \in SystemctlSteps /\ Systemctl(h)
           \/ h \in LaunchctlSteps /\ Launchctl(h)
    BY <1>4, CallsManager
  <2>1. CASE todo[i] = S7
    <3>1. h = "stop" /\ todo'[i] = S6
      BY <2>0, <2>1
    <3>2. daemon' = Down
      BY <2>0, <3>1, SystemctlDoes DEF LaunchctlSteps
    <3> QED
      BY <3>1, <3>2 DEF SystemdRegister
  <2>2. CASE todo[i] = S6 /\ daemon = Down
    <3>1. h = "disable" /\ todo'[i] = S5
      BY <2>0, <2>2
    <3>2. daemon' = Down
      BY <2>0, <2>2, <3>1, SystemctlDoes DEF LaunchctlSteps
    <3> QED
      BY <3>1, <3>2 DEF SystemdRegister
  <2>3. CASE todo[i] = S3 /\ daemon = Down /\ unit = plan[i]
    <3>1. h = "daemon-reload" /\ todo'[i] = S2
      BY <2>0, <2>3
    <3>2. daemon' = Down /\ unit' = plan'[i]
      BY <2>0, <2>3, <3>1, SystemctlDoes DEF LaunchctlSteps
    <3> QED
      BY <3>1, <3>2 DEF SystemdRegister
  <2>4. CASE todo[i] = S2 /\ daemon = Down /\ unit = plan[i]
    <3>1. h = "enable" /\ todo'[i] = S1
      BY <2>0, <2>4
    <3>2. daemon' = Down /\ unit' = plan'[i] /\ known' = unit' /\ enabled'
      BY <2>0, <2>4, <3>1, SystemctlDoes DEF LaunchctlSteps
    <3> QED
      BY <3>1, <3>2 DEF SystemdRegister
  <2>5. CASE todo[i] = S1 /\ daemon = Down /\ unit = plan[i] /\ known = unit /\ enabled
    <3>1. h = "start" /\ todo'[i] = << >>
      BY <2>0, <2>5
    <3>2. /\ unit' = plan'[i] /\ known' = unit' /\ enabled'
          /\ daemon'.runs = known' /\ old' = {}
      BY <2>0, <2>5, <3>1, SystemctlDoes DEF LaunchctlSteps
    <3> QED
      BY <3>1, <3>2 DEF SystemdRegister, Renewed
  <2>6. todo[i] \notin {<<"look">>, S5, S4, << >>}
    <3>1. h \notin {"look", "remove", "write"}
      BY <2>0 DEF SystemctlSteps, LaunchctlSteps
    <3> QED
      BY <2>0, <3>1
  <2> QED
    BY <2>1, <2>2, <2>3, <2>4, <2>5, <2>6 DEF SystemdRegister
<1> QED
  BY <1>1, <1>2, <1>3, <1>4

(* Register under launchd. *)
LEMMA LaunchdRegisterStep ==
    ASSUME NEW i \in Invokers, TypeOK, os = "macos", cmd[i] = "register",
           LaunchdRegister(i), Look(i) \/ Remove(i) \/ Write(i) \/ ManagerCall(i)
    PROVE  LaunchdRegister(i)'
<1> DEFINE S4 == <<"unload", "remove", "write", "load-w">>
           S3 == <<"remove", "write", "load-w">>
           S2 == <<"write", "load-w">>
           S1 == <<"load-w">>
<1>1. CASE Look(i)
  <2>1. /\ todo'[i] = LaunchdSteps("register", unit # None)
        /\ daemon' = daemon /\ known' = known
        /\ unit # None \/ (daemon = Down /\ known = None)
    BY <1>1 DEF Look, At, LaunchdRegister, Steps, TypeOK, managerVars
  <2>2. CASE unit # None
    BY <2>1, <2>2, LaunchdReplaces DEF LaunchdRegister
  <2>3. CASE unit = None
    BY <2>1, <2>3, RegisterSteps DEF LaunchdRegister
  <2> QED
    BY <2>2, <2>3
<1>2. CASE Remove(i)
  <2>1. todo[i] = S3 /\ daemon = Down /\ known = None
    BY <1>2 DEF Remove, At, LaunchdRegister
  <2>2. todo'[i] = S2 /\ daemon' = Down /\ known' = None
    BY <1>2, <2>1 DEF Remove, Advance, TypeOK, managerVars
  <2> QED
    BY <2>2 DEF LaunchdRegister
<1>3. CASE Write(i)
  <2>1. todo[i] = S2 /\ daemon = Down /\ known = None
    BY <1>3 DEF Write, At, LaunchdRegister
  <2>2. todo'[i] = S1 /\ daemon' = Down /\ known' = None /\ unit' = plan'[i]
    BY <1>3, <2>1 DEF Write, Advance, TypeOK, managerVars
  <2> QED
    BY <2>2 DEF LaunchdRegister
<1>4. CASE ManagerCall(i)
  <2> DEFINE h == Head(todo[i])
  <2>0. /\ todo[i] # << >>
        /\ todo'[i] = Tail(todo[i]) /\ UNCHANGED <<os, unit, cmd, plan>>
        /\ \/ h \in SystemctlSteps /\ Systemctl(h)
           \/ h \in LaunchctlSteps /\ Launchctl(h)
    BY <1>4, CallsManager
  <2>1. CASE todo[i] = S4
    <3>1. h = "unload" /\ todo'[i] = S3
      BY <2>0, <2>1
    <3>2. daemon' = Down /\ known' = None
      BY <2>0, <3>1, LaunchctlDoes DEF SystemctlSteps
    <3> QED
      BY <3>1, <3>2 DEF LaunchdRegister
  <2>2. CASE todo[i] = S1 /\ daemon = Down /\ known = None /\ unit = plan[i]
    <3>1. h = "load-w" /\ todo'[i] = << >>
      BY <2>0, <2>2
    <3>2. /\ unit' = plan'[i] /\ known' = unit' /\ enabled'
          /\ daemon'.runs = known' /\ old' = {}
      BY <2>0, <2>2, <3>1, LaunchctlDoes DEF SystemctlSteps
    <3> QED
      BY <3>1, <3>2 DEF LaunchdRegister, Renewed
  <2>3. todo[i] \notin {<<"look">>, S3, S2, << >>}
    <3>1. h \notin {"look", "remove", "write"}
      BY <2>0 DEF SystemctlSteps, LaunchctlSteps
    <3> QED
      BY <2>0, <3>1
  <2> QED
    BY <2>1, <2>2, <2>3 DEF LaunchdRegister
<1> QED
  BY <1>1, <1>2, <1>3, <1>4

(* Unregister under systemd. *)
LEMMA SystemdUnregisterStep ==
    ASSUME NEW i \in Invokers, TypeOK, os = "linux", cmd[i] = "unregister",
           SystemdUnregister(i), Look(i) \/ Remove(i) \/ Write(i) \/ ManagerCall(i)
    PROVE  SystemdUnregister(i)'
<1> DEFINE S4 == <<"stop", "disable", "remove", "daemon-reload">>
           S3 == <<"disable", "remove", "daemon-reload">>
           S2 == <<"remove", "daemon-reload">>
           S1 == <<"daemon-reload">>
<1>1. CASE Look(i) \/ Write(i)
  BY <1>1 DEF Look, Write, At, SystemdUnregister
<1>2. CASE Remove(i)
  <2>1. todo[i] = S2 /\ daemon = Down /\ known = None
    BY <1>2 DEF Remove, At, SystemdUnregister
  <2>2. todo'[i] = S1 /\ daemon' = Down /\ known' = None /\ unit' = None
    BY <1>2, <2>1 DEF Remove, Advance, TypeOK, managerVars
  <2> QED
    BY <2>2 DEF SystemdUnregister
<1>3. CASE ManagerCall(i)
  <2> DEFINE h == Head(todo[i])
  <2>0. /\ todo[i] # << >>
        /\ todo'[i] = Tail(todo[i]) /\ UNCHANGED <<os, unit, cmd, plan>>
        /\ \/ h \in SystemctlSteps /\ Systemctl(h)
           \/ h \in LaunchctlSteps /\ Launchctl(h)
    BY <1>3, CallsManager
  <2>1. CASE todo[i] = S4
    <3>1. h = "stop" /\ todo'[i] = S3
      BY <2>0, <2>1
    <3>2. daemon' = Down
      BY <2>0, <3>1, SystemctlDoes DEF LaunchctlSteps
    <3> QED
      BY <3>1, <3>2 DEF SystemdUnregister
  <2>2. CASE todo[i] = S3 /\ daemon = Down
    <3>1. h = "disable" /\ todo'[i] = S2
      BY <2>0, <2>2
    <3>2. daemon' = Down /\ known' = None
      BY <2>0, <2>2, <3>1, SystemctlDoes DEF LaunchctlSteps
    <3> QED
      BY <3>1, <3>2 DEF SystemdUnregister
  <2>3. CASE todo[i] = S1 /\ daemon = Down /\ unit = None
    <3>1. h = "daemon-reload" /\ todo'[i] = << >>
      BY <2>0, <2>3
    <3>2. daemon' = Down /\ known' = None /\ unit' = None
      BY <2>0, <2>3, <3>1, SystemctlDoes DEF LaunchctlSteps
    <3> QED
      BY <3>1, <3>2 DEF SystemdUnregister
  <2>4. todo[i] \notin {S2, << >>}
    <3>1. h # "remove"
      BY <2>0 DEF SystemctlSteps, LaunchctlSteps
    <3> QED
      BY <2>0, <3>1
  <2> QED
    BY <2>1, <2>2, <2>3, <2>4 DEF SystemdUnregister
<1> QED
  BY <1>1, <1>2, <1>3

(* Unregister under launchd. *)
LEMMA LaunchdUnregisterStep ==
    ASSUME NEW i \in Invokers, TypeOK, os = "macos", cmd[i] = "unregister",
           LaunchdUnregister(i), Look(i) \/ Remove(i) \/ Write(i) \/ ManagerCall(i)
    PROVE  LaunchdUnregister(i)'
<1> DEFINE S2 == <<"unload-w", "remove">>
           S1 == <<"remove">>
<1>1. CASE Look(i) \/ Write(i)
  BY <1>1 DEF Look, Write, At, LaunchdUnregister
<1>2. CASE Remove(i)
  <2>1. todo[i] = S1 /\ daemon = Down /\ known = None
    BY <1>2 DEF Remove, At, LaunchdUnregister
  <2>2. todo'[i] = << >> /\ daemon' = Down /\ known' = None /\ unit' = None
    BY <1>2, <2>1 DEF Remove, Advance, TypeOK, managerVars
  <2> QED
    BY <2>2 DEF LaunchdUnregister
<1>3. CASE ManagerCall(i)
  <2> DEFINE h == Head(todo[i])
  <2>0. /\ todo[i] # << >>
        /\ todo'[i] = Tail(todo[i]) /\ UNCHANGED <<os, unit, cmd, plan>>
        /\ \/ h \in SystemctlSteps /\ Systemctl(h)
           \/ h \in LaunchctlSteps /\ Launchctl(h)
    BY <1>3, CallsManager
  <2>1. h # "remove"
    BY <2>0 DEF SystemctlSteps, LaunchctlSteps
  <2>2. todo[i] = S2
    BY <2>0, <2>1 DEF LaunchdUnregister
  <2>3. h = "unload-w" /\ todo'[i] = S1
    BY <2>0, <2>2
  <2>4. daemon' = Down /\ known' = None
    BY <2>0, <2>3, LaunchctlDoes DEF SystemctlSteps
  <2> QED
    BY <2>3, <2>4 DEF LaunchdUnregister
<1> QED
  BY <1>1, <1>2, <1>3

(* Reload, under either. *)
LEMMA ReloadStep ==
    ASSUME NEW i \in Invokers, TypeOK, cmd[i] = "reload",
           Look(i) \/ Remove(i) \/ Write(i) \/ ManagerCall(i)
    PROVE  /\ SystemdReload(i) => SystemdReload(i)'
           /\ LaunchdReload(i) => LaunchdReload(i)'
<1>1. CASE Look(i) \/ Remove(i) \/ Write(i)
  BY <1>1 DEF Look, Remove, Write, At, SystemdReload, LaunchdReload
<1>2. CASE ManagerCall(i)
  <2> DEFINE h == Head(todo[i])
  <2>0. /\ todo[i] # << >>
        /\ todo'[i] = Tail(todo[i]) /\ UNCHANGED <<os, unit, cmd, plan>>
        /\ \/ h \in SystemctlSteps /\ Systemctl(h)
           \/ h \in LaunchctlSteps /\ Launchctl(h)
    BY <1>2, CallsManager
  <2>1. ASSUME SystemdReload(i) PROVE SystemdReload(i)'
    <3>0. todo[i] = <<"restart">>
      BY <2>0, <2>1 DEF SystemdReload
    <3>1. h = "restart" /\ todo'[i] = << >>
      BY <2>0, <3>0
    <3>2. daemon'.runs = known' /\ old' = {}
      BY <2>0, <3>1, SystemctlDoes DEF LaunchctlSteps
    <3> QED
      BY <3>1, <3>2 DEF SystemdReload, Renewed
  <2>2. ASSUME LaunchdReload(i) PROVE LaunchdReload(i)'
    <3>1. CASE todo[i] = <<"unload", "load-w">>
      <4>1. h = "unload" /\ todo'[i] = <<"load-w">>
        BY <2>0, <3>1
      <4>2. daemon' = Down /\ known' = None
        BY <2>0, <4>1, LaunchctlDoes DEF SystemctlSteps
      <4> QED
        BY <4>1, <4>2 DEF LaunchdReload
    <3>2. CASE todo[i] = <<"load-w">> /\ daemon = Down /\ known = None
      <4>1. h = "load-w" /\ todo'[i] = << >>
        BY <2>0, <3>2
      <4>2. daemon'.runs = known' /\ old' = {}
        BY <2>0, <3>2, <4>1, LaunchctlDoes DEF SystemctlSteps
      <4> QED
        BY <4>1, <4>2 DEF LaunchdReload, Renewed
    <3> QED
      BY <2>0, <2>2, <3>1, <3>2 DEF LaunchdReload
  <2> QED
    BY <2>1, <2>2
<1> QED
  BY <1>1, <1>2

(* A calm command that takes a step stays at a stage of its own. *)
LEMMA OwnStep ==
    ASSUME NEW i \in Invokers, TypeOK, Undisturbed(i),
           Look(i) \/ Remove(i) \/ Write(i) \/ ManagerCall(i)
    PROVE  Undisturbed(i)'
<1>1. UNCHANGED <<os, cmd>>
  BY DEF Look, Remove, Write, ManagerCall, Advance, worldVars
<1>2. os \in {"linux", "macos"}
  BY DEF TypeOK
<1>3. CASE cmd[i] = "register"
  BY <1>1, <1>2, <1>3, SystemdRegisterStep, LaunchdRegisterStep DEF Undisturbed
<1>4. CASE cmd[i] = "unregister"
  BY <1>1, <1>2, <1>4, SystemdUnregisterStep, LaunchdUnregisterStep DEF Undisturbed
<1>5. CASE cmd[i] = "reload"
  BY <1>1, <1>2, <1>5, ReloadStep DEF Undisturbed
<1> QED
  BY <1>1, <1>3, <1>4, <1>5 DEF Undisturbed

(* The daemon stays down when it is down, and new when it is new. *)
LEMMA DaemonStep ==
    ASSUME NEW i \in Invokers, TypeOK, Starts \/ StartFails \/ Exits \/ Relaunch
    PROVE  /\ UNCHANGED <<os, unit, known, enabled, cmd, plan, todo, calm, gone>>
           /\ daemon = Down => daemon' = Down
           /\ Renewed(i) => Renewed(i)'
<1> USE DEF worldVars, commandVars
<1>1. UNCHANGED <<os, unit, known, enabled, cmd, plan, todo, calm, gone>>
  BY DEF Starts, StartFails, Exits, Ended, Relaunch
<1>2. daemon # Down
  <2>1. daemon.state # "down"
    BY DEF Starts, StartFails, Exits, Relaunch
  <2> QED
    BY <2>1 DEF Down
<1>3. Renewed(i) => Renewed(i)'
  <2>1. CASE Starts
    <3>1. daemon'.runs = daemon.runs /\ old' = old /\ Alive
      BY <2>1 DEF Starts, Alive, TypeOK
    <3> QED
      BY <1>1, <3>1 DEF Renewed
  <2>2. CASE StartFails \/ Exits
    <3>1. daemon'.state \in {"down", "waiting"}
      BY <2>2 DEF StartFails, Exits, Ended, Down
    <3> QED
      BY <3>1 DEF Renewed, Alive
  <2>3. CASE Relaunch
    <3>1. daemon' = Down \/ (daemon'.runs = known' /\ old' = {})
      BY <2>3 DEF Relaunch, Launch
    <3> QED
      BY <3>1 DEF Renewed, Alive, Down
  <2> QED
    BY <2>1, <2>2, <2>3
<1> QED
  BY <1>1, <1>2, <1>3

LEMMA DaemonKeepsStage ==
    ASSUME NEW i \in Invokers, TypeOK, Undisturbed(i),
           UNCHANGED <<os, unit, known, enabled, cmd, plan, todo>>,
           daemon = Down => daemon' = Down, Renewed(i) => Renewed(i)'
    PROVE  Undisturbed(i)'
<1>1. SystemdRegister(i) => SystemdRegister(i)'
  BY DEF SystemdRegister
<1>2. LaunchdRegister(i) => LaunchdRegister(i)'
  BY DEF LaunchdRegister
<1>3. SystemdUnregister(i) => SystemdUnregister(i)'
  BY DEF SystemdUnregister
<1>4. LaunchdUnregister(i) => LaunchdUnregister(i)'
  BY DEF LaunchdUnregister
<1>5. SystemdReload(i) => SystemdReload(i)'
  BY DEF SystemdReload
<1>6. LaunchdReload(i) => LaunchdReload(i)'
  BY DEF LaunchdReload
<1> QED
  BY <1>1, <1>2, <1>3, <1>4, <1>5, <1>6 DEF Undisturbed

-----------------------------------------------------------------------------
LEMMA CalmInit == Init => CalmInv /\ GoneInv
  BY DEF Init, CalmInv, GoneInv

(* Of two commands at most one is calm, and a command that begins beside   *)
(* another one leaves none.                                                *)
LEMMA CalmBegins ==
    ASSUME TypeOK, CalmInv, NEW i \in Invokers, NEW c \in {"register", "unregister", "reload"},
           Begin(i, c), todo' = [todo EXCEPT ![i] = IF c = "register" THEN <<"look">> ELSE Steps(c, TRUE)],
           c # "register" => unit # None
    PROVE  CalmInv' /\ GoneInv'
<1>1. /\ cmd[i] = "none" /\ cmd' = [cmd EXCEPT ![i] = c]
      /\ UNCHANGED <<os, unit, known, daemon>> /\ ~gone'
  BY DEF Begin, worldVars
<1>2. ASSUME NEW j \in Invokers, cmd'[j] = "none" PROVE todo'[j] = << >>
  <2>1. j # i /\ cmd[j] = "none"
    BY <1>1, <1>2 DEF TypeOK
  <2> QED
    BY <2>1 DEF CalmInv, TypeOK
<1>3. ASSUME NEW j \in calm' PROVE Undisturbed(j)' /\ \A k \in Invokers \ {j} : cmd'[k] = "none"
  <2>1. /\ j = i /\ \A k \in Invokers : cmd[k] = "none"
        /\ unit # None \/ (daemon = Down /\ (os = "macos" => known = None))
    BY <1>3 DEF Begin
  <2>2. \A k \in Invokers \ {j} : cmd'[k] = "none"
    BY <1>1, <2>1 DEF TypeOK
  <2>3. /\ cmd'[i] = c
        /\ todo'[i] = IF c = "register" THEN <<"look">> ELSE Steps(c, TRUE)
    BY <1>1 DEF TypeOK
  <2>4. os' \in {"linux", "macos"}
    BY <1>1 DEF TypeOK
  <2>5. CASE c = "register"
    <3>1. SystemdRegister(i)' /\ (os = "macos" => LaunchdRegister(i)')
      BY <1>1, <2>1, <2>3, <2>5 DEF SystemdRegister, LaunchdRegister
    <3> QED
      BY <1>1, <2>1, <2>2, <2>3, <2>4, <2>5, <3>1 DEF Undisturbed
  <2>6. CASE c = "unregister"
    <3>1. (os = "linux" => SystemdUnregister(i)') /\ (os = "macos" => LaunchdUnregister(i)')
      BY <2>3, <2>6, OtherSteps DEF SystemdUnregister, LaunchdUnregister, Steps
    <3> QED
      BY <1>1, <2>1, <2>2, <2>3, <2>4, <2>6, <3>1 DEF Undisturbed
  <2>7. CASE c = "reload"
    <3>1. (os = "linux" => SystemdReload(i)') /\ (os = "macos" => LaunchdReload(i)')
      BY <2>3, <2>7, OtherSteps DEF SystemdReload, LaunchdReload, Steps
    <3> QED
      BY <1>1, <2>1, <2>2, <2>3, <2>4, <2>7, <3>1 DEF Undisturbed
  <2> QED
    BY <2>5, <2>6, <2>7
<1> QED
  BY <1>1, <1>2, <1>3 DEF CalmInv, GoneInv

(* A command that ends, in whatever way, is no longer calm. *)
LEMMA CalmLeaves ==
    ASSUME TypeOK, CalmInv, NEW i \in Invokers, Leave(i), cmd[i] # "none",
           UNCHANGED <<os, unit, known, enabled, daemon>>
    PROVE  /\ calm' = {} \/ i \notin calm
           /\ CalmInv'
<1>1. /\ cmd' = [cmd EXCEPT ![i] = "none"] /\ todo' = [todo EXCEPT ![i] = << >>]
      /\ calm' = calm \ {i}
  BY DEF Leave
<1>2. \A j \in calm : j = i
  BY DEF CalmInv, TypeOK
<1>3. calm' = {}
  BY <1>1, <1>2
<1>4. ASSUME NEW j \in Invokers, cmd'[j] = "none" PROVE todo'[j] = << >>
  BY <1>1, <1>4 DEF CalmInv, TypeOK
<1> QED
  BY <1>3, <1>4 DEF CalmInv

LEMMA CalmStep == TypeOK /\ CalmInv /\ GoneInv /\ [Next]_vars => CalmInv' /\ GoneInv'
<1> SUFFICES ASSUME TypeOK, CalmInv, GoneInv, [Next]_vars PROVE CalmInv' /\ GoneInv'
  OBVIOUS
<1>0. calm \subseteq Invokers
  BY DEF TypeOK
<1>1. CASE Starts \/ StartFails \/ Exits \/ Relaunch
  <2>1. ASSUME NEW i \in Invokers
        PROVE  /\ UNCHANGED <<os, unit, known, enabled, cmd, plan, todo, calm, gone>>
               /\ daemon = Down => daemon' = Down
               /\ Renewed(i) => Renewed(i)'
    BY <1>1, DaemonStep
  <2>2. /\ UNCHANGED <<os, unit, known, enabled, cmd, plan, todo, calm, gone>>
        /\ daemon # Down
    <3>1. UNCHANGED <<os, unit, known, enabled, cmd, plan, todo, calm, gone>>
      BY <1>1 DEF Starts, StartFails, Exits, Ended, Relaunch, worldVars, commandVars
    <3>2. daemon.state # "down"
      BY <1>1 DEF Starts, StartFails, Exits, Relaunch
    <3> QED
      BY <3>1, <3>2 DEF Down
  <2>3. ASSUME NEW i \in calm PROVE Undisturbed(i)'
    BY <1>0, <2>1, DaemonKeepsStage DEF CalmInv
  <2> QED
    BY <2>2, <2>3 DEF CalmInv, GoneInv
<1>2. CASE Relogin
  <2>1. /\ calm' = {} /\ gone' = gone /\ unit' = unit
        /\ \A i \in Invokers : cmd'[i] = "none" /\ todo'[i] = << >>
    BY <1>2 DEF Relogin
  <2>2. unit = None => known' = None /\ daemon' = Down
    BY <1>2 DEF Relogin
  <2> QED
    BY <2>1, <2>2 DEF CalmInv, GoneInv
<1>3. CASE Upgrade \/ EditConfig
  <2>1. UNCHANGED <<os, unit, known, enabled, daemon, old, cmd, plan, todo, calm, gone>>
    BY <1>3 DEF Upgrade, EditConfig, managerVars, commandVars
  <2>2. ASSUME NEW i \in calm PROVE Undisturbed(i)'
    <3>1. Renewed(i) => Renewed(i)'
      BY <2>1 DEF Renewed, Alive
    <3> QED
      BY <1>0, <2>1, <3>1, DaemonKeepsStage DEF CalmInv
  <2> QED
    BY <2>1, <2>2 DEF CalmInv, GoneInv
<1>4. CASE EditUnit
  <2>1. /\ UNCHANGED <<cmd, todo, gone>> /\ unit # None /\ calm' = {}
    BY <1>4 DEF EditUnit, commandVars
  <2> QED
    BY <2>1 DEF CalmInv, GoneInv
<1>5. ASSUME NEW i \in Invokers, Command(i) PROVE CalmInv' /\ GoneInv'
  <2>1. CASE BeginRegister(i)
    BY <2>1, CalmBegins DEF BeginRegister
  <2>2. CASE BeginOther(i)
    <3>1. PICK c \in {"unregister", "reload"} :
              Begin(i, c) /\ todo' = [todo EXCEPT ![i] = Steps(c, TRUE)]
      BY <2>2 DEF BeginOther
    <3>2. unit # None
      BY <2>2 DEF BeginOther
    <3> QED
      BY <3>1, <3>2, CalmBegins
  <2>3. CASE Look(i) \/ Remove(i) \/ Write(i) \/ ManagerCall(i)
    <3>1. todo[i] # << >>
      BY <2>3 DEF Look, Remove, Write, ManagerCall, At
    <3>2. cmd[i] # "none"
      BY <3>1 DEF CalmInv
    <3>3. /\ UNCHANGED <<cmd, calm, gone>>
          /\ \A j \in Invokers \ {i} : todo'[j] = todo[j]
      BY <2>3 DEF Look, Remove, Write, ManagerCall, Advance, TypeOK
    <3>4. \A j \in calm : j = i
      BY <3>2, <1>0 DEF CalmInv
    <3>5. ASSUME NEW j \in calm PROVE Undisturbed(j)'
      BY <1>0, <2>3, <3>4, OwnStep DEF CalmInv
    <3>6. ASSUME NEW j \in Invokers, cmd'[j] = "none" PROVE todo'[j] = << >>
      BY <3>2, <3>3, <3>6 DEF CalmInv
    <3> QED
      BY <3>2, <3>3, <3>5, <3>6 DEF CalmInv, GoneInv
  <2>4. CASE ManagerFails(i)
    <3>1. /\ todo[i] # << >> /\ UNCHANGED <<os, unit, known, enabled, daemon, gone>>
      BY <2>4 DEF ManagerFails, At, worldVars
    <3>2. cmd[i] # "none" /\ ~gone
      BY <3>1 DEF CalmInv, GoneInv
    <3>3. CASE Leave(i)
      BY <3>1, <3>2, <3>3, CalmLeaves DEF GoneInv
    <3>4. CASE Advance(i) /\ calm' = calm \ {i}
      <4>1. \A j \in calm : j = i
        BY <1>0, <3>2 DEF CalmInv
      <4>2. calm' = {}
        BY <3>4, <4>1
      <4>3. \A j \in Invokers : cmd'[j] = "none" => todo'[j] = << >>
        BY <3>2, <3>4 DEF Advance, CalmInv, TypeOK
      <4> QED
        BY <3>1, <3>2, <4>2, <4>3 DEF CalmInv, GoneInv
    <3> QED
      BY <2>4, <3>3, <3>4 DEF ManagerFails
  <2>5. CASE Abort(i)
    <3>1. cmd[i] # "none" /\ Leave(i) /\ UNCHANGED <<os, unit, known, enabled, daemon, gone>>
      BY <2>5 DEF Abort, worldVars
    <3>2. ~gone
      BY <3>1 DEF GoneInv
    <3> QED
      BY <3>1, <3>2, CalmLeaves DEF GoneInv
  <2>6. CASE Succeed(i)
    <3>1. /\ cmd[i] # "none" /\ todo[i] = << >> /\ Leave(i)
          /\ UNCHANGED <<os, unit, known, enabled, daemon>>
          /\ gone' = (cmd[i] = "unregister" /\ i \in calm)
      BY <2>6 DEF Succeed, worldVars
    <3>2. CalmInv'
      BY <3>1, CalmLeaves
    <3>3. ASSUME gone' PROVE GoneInv'
      <4>1. cmd[i] = "unregister" /\ i \in calm
        BY <3>1, <3>3
      <4>2. Undisturbed(i) /\ \A j \in Invokers \ {i} : cmd[j] = "none"
        BY <4>1 DEF CalmInv
      <4>3. SystemdUnregister(i) \/ LaunchdUnregister(i)
        BY <4>1, <4>2 DEF Undisturbed
      <4>4. daemon = Down /\ known = None /\ unit = None
        BY <3>1, <4>3 DEF SystemdUnregister, LaunchdUnregister
      <4>5. \A j \in Invokers : cmd'[j] = "none"
        BY <3>1, <4>2 DEF Leave, TypeOK
      <4> QED
        BY <3>1, <4>4, <4>5 DEF GoneInv
    <3> QED
      BY <3>2, <3>3 DEF GoneInv
  <2> QED
    BY <1>5, <2>1, <2>2, <2>3, <2>4, <2>5, <2>6 DEF Command
<1>6. CASE UNCHANGED vars
  <2>1. UNCHANGED <<os, unit, known, enabled, daemon, old, cmd, plan, todo, calm, gone>>
    BY <1>6 DEF vars, worldVars, managerVars, commandVars
  <2>2. ASSUME NEW i \in calm PROVE Undisturbed(i)'
    <3>1. Renewed(i) => Renewed(i)'
      BY <2>1 DEF Renewed, Alive
    <3> QED
      BY <1>0, <2>1, <3>1, DaemonKeepsStage DEF CalmInv
  <2> QED
    BY <2>1, <2>2 DEF CalmInv, GoneInv
<1> QED
  BY <1>1, <1>2, <1>3, <1>4, <1>5, <1>6 DEF Next

LEMMA CalmInvariance == Spec => [](TypeOK /\ CalmInv /\ GoneInv)
<1>1. Init => TypeOK /\ CalmInv /\ GoneInv
  BY TypeInit, CalmInit
<1>2. TypeOK /\ CalmInv /\ GoneInv /\ [Next]_vars => (TypeOK /\ CalmInv /\ GoneInv)'
  BY TypeStep, CalmStep
<1> QED
  BY <1>1, <1>2, PTL DEF Spec

(***************************************************************************)
(* An undisturbed register or reload has taken effect by the time it is to *)
(* report success, however the daemon starts, fails and ends meanwhile.    *)
(***************************************************************************)
THEOREM CommandsTakeEffect == Spec => []TakesEffect
<1>1. TypeOK /\ CalmInv => TakesEffect
  <2> SUFFICES ASSUME TypeOK, CalmInv, NEW i \in calm,
                      cmd[i] \in {"register", "reload"}, todo[i] = << >>
               PROVE  /\ Alive => i \notin old /\ daemon.runs = known
                      /\ cmd[i] = "register" => unit = plan[i] /\ known = unit /\ enabled
    BY DEF TakesEffect
  <2>1. Undisturbed(i)
    BY DEF CalmInv
  <2>2. CASE cmd[i] = "register"
    <3>1. SystemdRegister(i) \/ LaunchdRegister(i)
      BY <2>1, <2>2 DEF Undisturbed
    <3> QED
      BY <3>1 DEF SystemdRegister, LaunchdRegister, Renewed
  <2>3. CASE cmd[i] = "reload"
    <3>1. SystemdReload(i) \/ LaunchdReload(i)
      BY <2>1, <2>3 DEF Undisturbed
    <3> QED
      BY <2>3, <3>1 DEF SystemdReload, LaunchdReload, Renewed
  <2> QED
    BY <2>2, <2>3
<1> QED
  BY <1>1, CalmInvariance, PTL

(***************************************************************************)
(* After an undisturbed unregister nothing brings the service back: no     *)
(* login, no restart by the manager, no rest of the command.               *)
(***************************************************************************)
THEOREM UnregisteredIsGone == Spec => []GoneForGood
<1>1. GoneInv => GoneForGood
  BY DEF GoneInv, GoneForGood, Down
<1> QED
  BY <1>1, CalmInvariance, PTL
=============================================================================
