---------------------------- MODULE FilteredAgent ----------------------------
(***************************************************************************)
(* What a filtered socket promises its clients, with no lock, no upstream  *)
(* connection and no half-rebuilt cache: one set of keys, replaced in one  *)
(* step by what the filter admits of one look at the agent, and consulted  *)
(* in one step by a sign request.                                          *)
(***************************************************************************)
EXTENDS AgentMessages

CONSTANTS
    Conns,     \* client connections
    Holdings   \* the sets of identities the agent may hold

VARIABLES
    held,     \* the identities the agent holds
    allowed,  \* the keys of the last completed listing
    phase,    \* per connection: how far its request has come
    req,      \* per connection: its request
    reply     \* per connection: the answer being prepared

vars == <<held, allowed, phase, req, reply>>

Init ==
    /\ held \in Holdings
    /\ allowed = {}
    /\ phase = [c \in Conns |-> "closed"]
    /\ req = [c \in Conns |-> NoRequest]
    /\ reply = [c \in Conns |-> NoReply]

Forget(c) ==
    /\ req' = [req EXCEPT ![c] = NoRequest]
    /\ reply' = [reply EXCEPT ![c] = NoReply]

Open(c) ==
    /\ phase[c] = "closed"
    /\ phase' = [phase EXCEPT ![c] = "idle"]
    /\ UNCHANGED <<held, allowed, req, reply>>

Ask(c) ==
    /\ phase[c] = "idle"
    /\ phase' = [phase EXCEPT ![c] = "asked"]
    /\ \E r \in Requests : req' = [req EXCEPT ![c] = r]
    /\ UNCHANGED <<held, allowed, reply>>

(* One look at the agent decides what a listing will answer... *)
Look(c) ==
    /\ phase[c] = "asked" /\ req[c].kind = "list"
    /\ phase' = [phase EXCEPT ![c] = "looked"]
    /\ reply' = [reply EXCEPT ![c] = Identities(Admitted(held))]
    /\ UNCHANGED <<held, allowed, req>>

(* ...and, one step later, which keys may sign. *)
Admit(c) ==
    /\ phase[c] = "looked"
    /\ allowed' = KeysOf(reply[c].ids)
    /\ phase' = [phase EXCEPT ![c] = "reply"]
    /\ UNCHANGED <<held, req, reply>>

Permit(c) ==
    /\ phase[c] = "asked" /\ req[c].kind = "sign"
    /\ req[c].key \in allowed \/ DirectMatch(req[c].key)
    /\ phase' = [phase EXCEPT ![c] = "permitted"]
    /\ UNCHANGED <<held, allowed, req, reply>>

Refuse(c) ==
    /\ phase[c] = "asked"
    /\ req[c].kind = "sign" => ~(req[c].key \in allowed \/ DirectMatch(req[c].key))
    /\ phase' = [phase EXCEPT ![c] = "reply"]
    /\ reply' = [reply EXCEPT ![c] = Plain("failure")]
    /\ UNCHANGED <<held, allowed, req>>

(* A signature is made by a key the agent holds, and only when permitted. *)
Sign(c) ==
    /\ phase[c] = "permitted"
    /\ phase' = [phase EXCEPT ![c] = "reply"]
    /\ \E kind \in {"signature", "failure"} :
          /\ kind = "signature" => req[c].key \in KeysOf(held)
          /\ reply' = [reply EXCEPT ![c] = Plain(kind)]
    /\ UNCHANGED <<held, allowed, req>>

Relay(c) ==
    /\ phase[c] = "asked" /\ req[c].kind = "other"
    /\ phase' = [phase EXCEPT ![c] = "reply"]
    /\ reply' = [reply EXCEPT ![c] = Plain("success")]
    /\ UNCHANGED <<held, allowed, req>>

Answer(c) ==
    /\ phase[c] = "reply"
    /\ phase' = [phase EXCEPT ![c] = "idle"]
    /\ Forget(c)
    /\ UNCHANGED <<held, allowed>>

Close(c) ==
    /\ phase' = [phase EXCEPT ![c] = "closed"]
    /\ Forget(c)
    /\ UNCHANGED <<held, allowed>>

Change ==
    /\ held' \in Holdings
    /\ UNCHANGED <<allowed, phase, req, reply>>

Restart ==
    /\ allowed' = {}
    /\ phase' = [c \in Conns |-> "closed"]
    /\ req' = [c \in Conns |-> NoRequest]
    /\ reply' = [c \in Conns |-> NoReply]
    /\ UNCHANGED held

Step(c) ==
    \/ Open(c) \/ Ask(c) \/ Look(c) \/ Admit(c) \/ Permit(c) \/ Refuse(c)
    \/ Sign(c) \/ Relay(c) \/ Answer(c) \/ Close(c)

Next == Change \/ Restart \/ \E c \in Conns : Step(c)

Spec == Init /\ [][Next]_vars
=============================================================================
