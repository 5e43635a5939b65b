------------------------------ MODULE ServerApi ------------------------------
(***************************************************************************)
(* Server of agent/server.rs: bind, run with a channel for the shutdown    *)
(* signal, and the cleanup when it is dropped.  `run` of the command line  *)
(* does not use it; programs that link the crate may.                      *)
(*                                                                         *)
(* All servers are given the same path, and receivers of one watch         *)
(* channel, whose sender may be dropped at any time.                       *)
(***************************************************************************)
EXTENDS Naturals, FiniteSets

CONSTANTS
    Servers,
    Link,         \* a symbolic link at the path, to a file that exists
    None,
    MaxSockets,   \* bound: sockets bound in all
    MaxVersion,   \* bound: values sent
    MaxClients    \* bound: connections waiting at a listener

Sockets == 1..MaxSockets

ASSUME ServerApiAssumption ==
    /\ MaxSockets \in Nat /\ MaxVersion \in Nat /\ MaxClients \in Nat
    /\ Link # None /\ {Link, None} \cap Nat = {}

VARIABLES
    file,      \* what is at the path: a socket, a link or nothing
    made,      \* per socket: the server whose bind has made it
    state,     \* per server: what it is about to do
    fresh,     \* per server: the socket of a bind in progress
    listener,  \* per server: `listener`
    waiting,   \* per socket: clients not yet accepted
    value,     \* the channel: the latest value,
    version,   \* how many were sent,
    sender,    \* and whether there is a sender
    seen       \* per server: the version its receiver has seen

fileVars == <<file, made, fresh, listener>>
channelVars == <<value, version, sender>>
vars == <<fileVars, state, waiting, channelVars, seen>>

Binding == {"prepare", "bind", "chmod"}
Running == {"select", "borrow"}

TypeOK ==
    /\ file \in Sockets \cup {Link, None}
    /\ made \in [Sockets -> Servers \cup {None}]
    /\ state \in [Servers -> {"idle", "exists", "remove", "dropped"} \cup Binding \cup Running]
    /\ fresh \in [Servers -> Sockets \cup {None}]
    /\ \A s \in Servers : state[s] = "chmod" <=> fresh[s] # None
    /\ listener \in [Servers -> Sockets \cup {None}]
    /\ \A s \in Servers : state[s] \in Running => listener[s] # None
    /\ waiting \in [Sockets -> 0..MaxClients]
    /\ value \in BOOLEAN /\ version \in 0..MaxVersion /\ sender \in BOOLEAN
    /\ seen \in [Servers -> 0..version]

(* A path with nothing, or with a link somebody has put there. *)
Init ==
    /\ file \in {Link, None}
    /\ made = [k \in Sockets |-> None]
    /\ state = [s \in Servers |-> "idle"]
    /\ fresh = [s \in Servers |-> None]
    /\ listener = [s \in Servers |-> None]
    /\ waiting = [k \in Sockets |-> 0]
    /\ value = FALSE /\ version = 0 /\ sender = TRUE
    /\ seen = [s \in Servers |-> 0]

Goto(s, next) == state' = [state EXCEPT ![s] = next]

(* A listener that is dropped refuses the clients that wait at it. *)
Refused(dropped) == [k \in Sockets |-> IF k \in dropped THEN 0 ELSE waiting[k]]

-----------------------------------------------------------------------------
(***************************************************************************)
(* bind                                                                    *)
(***************************************************************************)
CallBind(s) ==
    /\ state[s] = "idle"
    /\ Goto(s, "prepare")
    /\ UNCHANGED <<fileVars, waiting, channelVars, seen>>

(* prepare_socket_path refuses a link and removes anything else; or the    *)
(* removal, or the directory, fails.                                       *)
Prepare(s) ==
    /\ state[s] = "prepare" /\ file # Link
    /\ Goto(s, "bind")
    /\ file' = None
    /\ UNCHANGED <<made, fresh, listener, waiting, channelVars, seen>>

PrepareFails(s) ==
    /\ state[s] = "prepare"
    /\ Goto(s, "idle")
    /\ UNCHANGED <<fileVars, waiting, channelVars, seen>>

Bind(s) ==
    /\ state[s] = "bind" /\ file = None
    /\ \E k \in Sockets :
          /\ made[k] = None /\ \A j \in Sockets : j < k => made[j] # None
          /\ made' = [made EXCEPT ![k] = s]
          /\ file' = k
          /\ fresh' = [fresh EXCEPT ![s] = k]
    /\ Goto(s, "chmod")
    /\ UNCHANGED <<listener, waiting, channelVars, seen>>

(* EADDRINUSE, or any other error *)
BindFails(s) ==
    /\ state[s] = "bind"
    /\ Goto(s, "idle")
    /\ UNCHANGED <<fileVars, waiting, channelVars, seen>>

(* set_socket_permissions, and the listener replaces the one from before. *)
Chmod(s) ==
    /\ state[s] = "chmod" /\ file # None
    /\ listener' = [listener EXCEPT ![s] = fresh[s]]
    /\ fresh' = [fresh EXCEPT ![s] = None]
    /\ waiting' = Refused({listener[s]})
    /\ Goto(s, "idle")
    /\ UNCHANGED <<file, made, channelVars, seen>>

(* The file has gone: the new listener is dropped, its file stays. *)
ChmodFails(s) ==
    /\ state[s] = "chmod"
    /\ fresh' = [fresh EXCEPT ![s] = None]
    /\ waiting' = Refused({fresh[s]})
    /\ Goto(s, "idle")
    /\ UNCHANGED <<file, made, listener, channelVars, seen>>

-----------------------------------------------------------------------------
(***************************************************************************)
(* run: the loop with select!.  Its receiver has seen what was sent before *)
(* it was subscribed, and nothing if it was there from the beginning.      *)
(***************************************************************************)
(* Mutant: run does not ask for a listener. *)
CallRunUnbound(s) ==
    /\ state[s] = "idle"
    /\ Goto(s, "select")
    /\ \E v \in {0, version} : seen' = [seen EXCEPT ![s] = v]
    /\ UNCHANGED <<fileVars, waiting, channelVars>>

CallRun(s) ==
    /\ state[s] = "idle" /\ listener[s] # None
    /\ Goto(s, "select")
    /\ \E v \in {0, version} : seen' = [seen EXCEPT ![s] = v]
    /\ UNCHANGED <<fileVars, waiting, channelVars>>

(* Mutant: the signal is looked for only when no client waits. *)
ChangedWhenIdle(s) ==
    /\ state[s] = "select" /\ (seen[s] < version \/ ~sender) /\ waiting[listener[s]] = 0
    /\ seen' = [seen EXCEPT ![s] = version]
    /\ Goto(s, "borrow")
    /\ UNCHANGED <<fileVars, waiting, channelVars>>

(* changed() is ready with Ok for a new value, and without a sender with   *)
(* an error, every time.                                                   *)
Changed(s) ==
    /\ state[s] = "select" /\ (seen[s] < version \/ ~sender)
    /\ seen' = [seen EXCEPT ![s] = version]
    /\ Goto(s, "borrow")
    /\ UNCHANGED <<fileVars, waiting, channelVars>>

(* The value by now; if it is true, run returns Ok(()). *)
Borrow(s) ==
    /\ state[s] = "borrow"
    /\ Goto(s, IF value THEN "idle" ELSE "select")
    /\ UNCHANGED <<fileVars, waiting, channelVars, seen>>

(* Mutant: the branches of select! are tried in their order. *)
AcceptLast(s) ==
    /\ state[s] = "select" /\ waiting[listener[s]] > 0
    /\ ~(seen[s] < version \/ ~sender)
    /\ waiting' = [waiting EXCEPT ![listener[s]] = @ - 1]
    /\ UNCHANGED <<fileVars, state, channelVars, seen>>

(* A client is accepted, to a task of its own, or the accept fails. *)
Accept(s) ==
    /\ state[s] = "select" /\ waiting[listener[s]] > 0
    /\ waiting' = [waiting EXCEPT ![listener[s]] = @ - 1]
    /\ UNCHANGED <<fileVars, state, channelVars, seen>>

(* accept, for a caller with a loop of its own *)
AcceptOne(s) ==
    /\ state[s] = "idle" /\ listener[s] # None
    /\ waiting[listener[s]] > 0
    /\ waiting' = [waiting EXCEPT ![listener[s]] = @ - 1]
    /\ UNCHANGED <<fileVars, state, channelVars, seen>>

(* The future of run is dropped. *)
CancelRun(s) ==
    /\ state[s] = "select"
    /\ Goto(s, "idle")
    /\ UNCHANGED <<fileVars, waiting, channelVars, seen>>

-----------------------------------------------------------------------------
(***************************************************************************)
(* drop: cleanup looks at the path and then removes what is there; then    *)
(* the listener goes.                                                      *)
(***************************************************************************)
Drop(s) ==
    /\ state[s] = "idle"
    /\ Goto(s, "exists")
    /\ UNCHANGED <<fileVars, waiting, channelVars, seen>>

Dropped(s) ==
    /\ Goto(s, "dropped")
    /\ listener' = [listener EXCEPT ![s] = None]
    /\ waiting' = Refused({listener[s]})

(* Mutant: only a server that is bound cleans up. *)
ExistsIfBound(s) ==
    /\ state[s] = "exists"
    /\ IF file = None \/ listener[s] = None
       THEN Dropped(s) ELSE Goto(s, "remove") /\ UNCHANGED <<listener, waiting>>
    /\ UNCHANGED <<file, made, fresh, channelVars, seen>>

Exists(s) ==
    /\ state[s] = "exists"
    /\ IF file = None THEN Dropped(s) ELSE Goto(s, "remove") /\ UNCHANGED <<listener, waiting>>
    /\ UNCHANGED <<file, made, fresh, channelVars, seen>>

(* External: removing a file in a directory of one's own does not fail. *)
Remove(s) ==
    /\ state[s] = "remove"
    /\ file' = None
    /\ Dropped(s)
    /\ UNCHANGED <<made, fresh, channelVars, seen>>

-----------------------------------------------------------------------------
(***************************************************************************)
(* The holder of the sender, and the clients.                              *)
(***************************************************************************)
Send ==
    /\ sender /\ version < MaxVersion
    /\ value' \in BOOLEAN
    /\ version' = version + 1
    /\ UNCHANGED <<fileVars, state, waiting, sender, seen>>

DropSender ==
    /\ sender
    /\ sender' = FALSE
    /\ UNCHANGED <<fileVars, state, waiting, value, version, seen>>

Listening(k) == \E s \in Servers : k \in {fresh[s], listener[s]}

Connect ==
    /\ file \in Sockets /\ Listening(file) /\ waiting[file] < MaxClients
    /\ waiting' = [waiting EXCEPT ![file] = @ + 1]
    /\ UNCHANGED <<fileVars, state, channelVars, seen>>

Step(s) ==
    \/ CallBind(s) \/ Prepare(s) \/ PrepareFails(s) \/ Bind(s) \/ BindFails(s)
    \/ Chmod(s) \/ ChmodFails(s)
    \/ CallRun(s) \/ Changed(s) \/ Borrow(s) \/ Accept(s) \/ AcceptOne(s) \/ CancelRun(s)
    \/ Drop(s) \/ Exists(s) \/ Remove(s)

Next == Send \/ DropSender \/ Connect \/ \E s \in Servers : Step(s)

(* The runtime polls a task that is ready, and select! takes a ready branch *)
(* at random, so none that is ready again and again is passed over for ever. *)
Fairness ==
    \A s \in Servers : WF_vars(Changed(s)) /\ WF_vars(Borrow(s)) /\ SF_vars(Accept(s))

Spec == Init /\ [][Next]_vars /\ Fairness

-----------------------------------------------------------------------------
(***************************************************************************)
(* Properties.                                                             *)
(***************************************************************************)

(***************************************************************************)
(* A server that is dropped leaves no socket of its own at the path, not   *)
(* even when its bind had failed half-way or a second server was at work   *)
(* on the same path.                                                       *)
(***************************************************************************)
DroppedLeavesNoSocket ==
    \A s \in Servers : state[s] = "dropped" => file \notin Sockets \/ made[file] # s

(***************************************************************************)
(* "This method runs until the shutdown signal is received": a signal sent *)
(* to a receiver that is in use ends run, however many clients come and    *)
(* whether or not the sender is dropped behind it, unless it is withdrawn. *)
(***************************************************************************)
SignalEndsRun ==
    \A s \in Servers :
        state[s] \in Running /\ seen[s] < version /\ value
            ~> state[s] \notin Running \/ ~value

(***************************************************************************)
(* A client that waits at a running server is accepted, also when the      *)
(* sender was dropped without a signal: the loop then goes round without   *)
(* end, but it does not starve the clients.                                *)
(***************************************************************************)
ClientIsAccepted ==
    \A s \in Servers : \A k \in Sockets :
        state[s] \in Running /\ listener[s] = k /\ waiting[k] = MaxClients
            ~> state[s] \notin Running \/ waiting[k] < MaxClients
=============================================================================
