-------------------------------- MODULE Proxy --------------------------------
(***************************************************************************)
(* One filtered socket: agent/proxy.rs with the upstream connections of    *)
(* agent/upstream.rs.  Every client connection is a task of its own; the   *)
(* tasks share the cache of allowed keys behind a read-write lock, and the *)
(* upstream agent changes under them.                                      *)
(***************************************************************************)
EXTENDS AgentMessages

CONSTANTS
    Conns,    \* client connections open at the same time
    Holdings, \* the sets of identities the upstream agent may hold
    Nobody    \* the holder of a lock that is free

ASSUME ProxyAssumption ==
    /\ Holdings \subseteq SUBSET Identity
    /\ Nobody \notin Conns

VARIABLES
    held,       \* the identities the upstream agent holds (external)
    cache,      \* allowed_keys_cache
    writer,     \* the connection that holds the write lock of the cache
    todo,       \* the keys each task has still to insert into the cache
    pc,         \* where the task of each connection is
    req,        \* the request each task is processing
    resp,       \* the response each task has received or built
    published,  \* history: the admitted keys of every listing answered so far
    recent      \* history: the keys of each client's last listing, less those
                \* the agent has dropped (or re-labelled) since

vars == <<held, cache, writer, todo, pc, req, resp, published, recent>>

agentVars == <<held, published>>
lockVars == <<cache, writer, todo>>

(***************************************************************************)
(* closed -> idle -> connect -> wait -> answered -> [lock -> fill ->]      *)
(* reply -> idle; a sign request passes through check before connect.      *)
(***************************************************************************)
Label == {"closed", "idle", "check", "connect", "wait", "answered",
          "lock", "fill", "reply"}

TypeOK ==
    /\ held \in Holdings
    /\ cache \in SUBSET Keys
    /\ writer \in Conns \cup {Nobody}
    /\ todo \in [Conns -> SUBSET Keys]
    /\ pc \in [Conns -> Label]
    /\ req \in [Conns -> Requests \cup {NoRequest}]
    /\ resp \in [Conns -> Replies \cup {NoReply}]
    /\ published \in SUBSET SUBSET Keys
    /\ recent \in [Conns -> SUBSET Keys]
    \* What does not parse as a sign request is not for the agent.
    /\ \A c \in Conns : req[c].kind = "badsign" => pc[c] \in {"check", "reply"}

(* Proxy::new_shared: every start of the process begins with an empty cache. *)
Init ==
    /\ held \in Holdings
    /\ cache = {}
    /\ writer = Nobody
    /\ todo = [c \in Conns |-> {}]
    /\ pc = [c \in Conns |-> "closed"]
    /\ req = [c \in Conns |-> NoRequest]
    /\ resp = [c \in Conns |-> NoReply]
    /\ published = {}
    /\ recent = [c \in Conns |-> {}]

-----------------------------------------------------------------------------
(***************************************************************************)
(* The client side of a connection.                                        *)
(***************************************************************************)
Goto(c, label) == pc' = [pc EXCEPT ![c] = label]

(* A request is local to one turn of the loop of handle_client_inner. *)
EndRequest(c) ==
    /\ req' = [req EXCEPT ![c] = NoRequest]
    /\ resp' = [resp EXCEPT ![c] = NoReply]

(* An error that `?` carries out of handle_client_inner drops the streams: *)
(* the client sees the connection close, without an answer.                *)
CloseConn(c) ==
    /\ Goto(c, "closed")
    /\ EndRequest(c)
    /\ recent' = [recent EXCEPT ![c] = {}]
    /\ UNCHANGED <<agentVars, lockVars>>

(* The accept loop of `run` spawns a task for the connection. *)
Accept(c) ==
    /\ pc[c] = "closed"
    /\ Goto(c, "idle")
    /\ UNCHANGED <<agentVars, lockVars, req, resp, recent>>

(* AgentCodec::read and the dispatch of process_request. *)
ReadRequest(c) ==
    /\ pc[c] = "idle"
    /\ \E r \in Requests :
          /\ req' = [req EXCEPT ![c] = r]
          /\ Goto(c, IF r.kind \in {"sign", "badsign"} THEN "check" ELSE "connect")
    /\ UNCHANGED <<agentVars, lockVars, resp, recent>>

(* End of file, or a frame that AgentCodec::read rejects. *)
ClientLeaves(c) == pc[c] = "idle" /\ CloseConn(c)

(* AgentCodec::write of the response, and the next turn of the loop. *)
WriteReply(c) ==
    /\ pc[c] = "reply"
    /\ Goto(c, "idle")
    /\ EndRequest(c)
    /\ recent' = [recent EXCEPT ![c] =
          IF resp[c].kind = "identities" THEN KeysOf(resp[c].ids \cap held) ELSE @]
    /\ UNCHANGED <<agentVars, lockVars>>

(* The client has gone. *)
WriteFails(c) == pc[c] = "reply" /\ CloseConn(c)

-----------------------------------------------------------------------------
(***************************************************************************)
(* The upstream side: forward_to_upstream opens a connection per message.  *)
(***************************************************************************)
Connect(c) ==
    /\ pc[c] = "connect"
    /\ Goto(c, "wait")
    /\ UNCHANGED <<agentVars, lockVars, req, resp, recent>>

(* Refused, or DEFAULT_CONNECT_TIMEOUT has passed. *)
ConnectFails(c) == pc[c] = "connect" /\ CloseConn(c)

(* DEFAULT_REQUEST_TIMEOUT has passed, even with an answer on its way, or  *)
(* the upstream has closed the connection.                                 *)
RequestFails(c) == pc[c] \in {"wait", "answered"} /\ CloseConn(c)

(* External: the agent serves the request it holds, or refuses it. *)
Answers(r) ==
    CASE r.kind = "list" -> {Identities(held), Plain("garbled"), Plain("failure")}
      [] r.kind = "sign" ->
            {Plain("failure")} \cup (IF r.key \in KeysOf(held) THEN {Plain("signature")} ELSE {})
      [] OTHER -> {Plain("success"), Plain("failure")}

UpstreamAnswers(c) ==
    /\ pc[c] = "wait"
    /\ Goto(c, "answered")
    /\ \E r \in Answers(req[c]) :
          /\ resp' = [resp EXCEPT ![c] = r]
          /\ published' = IF r.kind = "identities"
                          THEN published \cup {KeysOf(Admitted(r.ids))}
                          ELSE published
    /\ UNCHANGED <<held, lockVars, req, recent>>

(* External: keys are added to, removed from or re-labelled in the agent. *)
AgentChanges ==
    /\ held' \in Holdings \ {held}
    /\ recent' = [c \in Conns |-> recent[c] \cap KeysOf(Admitted(held'))]
    /\ UNCHANGED <<cache, writer, todo, pc, req, resp, published>>

-----------------------------------------------------------------------------
(***************************************************************************)
(* handle_request_identities after forward_to_upstream, and the relay of   *)
(* any other answer to the client.                                         *)
(*                                                                         *)
(* An operator marked "Mutant" is no part of the model: it is the action   *)
(* below it with a plausible mistake, which a property has to catch.       *)
(***************************************************************************)
(* Mutant: the filter is not applied. *)
ReceiveUnfiltered(c) ==
    /\ pc[c] = "answered" /\ req[c].kind = "list" /\ resp[c].kind = "identities"
    /\ Goto(c, "lock")
    /\ UNCHANGED <<agentVars, lockVars, req, resp, recent>>

ReceiveIdentities(c) ==
    /\ pc[c] = "answered" /\ req[c].kind = "list" /\ resp[c].kind = "identities"
    /\ resp' = [resp EXCEPT ![c].ids = Admitted(@)]
    /\ Goto(c, "lock")
    /\ UNCHANGED <<agentVars, lockVars, req, recent>>

ReceiveOther(c) ==
    /\ pc[c] = "answered" /\ resp[c].kind # "identities"
    /\ resp' = IF resp[c].kind = "garbled"
               THEN [resp EXCEPT ![c] = Plain("failure")] ELSE resp
    /\ Goto(c, "reply")
    /\ UNCHANGED <<agentVars, lockVars, req, recent>>

(* Mutant: the lock is not waited for. *)
ClearUnlocked(c) ==
    /\ pc[c] = "lock"
    /\ writer' = c
    /\ cache' = {}
    /\ todo' = [todo EXCEPT ![c] = KeysOf(resp[c].ids)]
    /\ Goto(c, "fill")
    /\ UNCHANGED <<agentVars, req, resp, recent>>

(* Mutant: the previous listing is not cleared. *)
ClearForgotten(c) ==
    /\ pc[c] = "lock" /\ writer = Nobody
    /\ writer' = c
    /\ todo' = [todo EXCEPT ![c] = KeysOf(resp[c].ids)]
    /\ Goto(c, "fill")
    /\ UNCHANGED <<agentVars, cache, req, resp, recent>>

(* cache.write().await, then cache.clear() *)
ClearCache(c) ==
    /\ pc[c] = "lock" /\ writer = Nobody
    /\ writer' = c
    /\ cache' = {}
    /\ todo' = [todo EXCEPT ![c] = KeysOf(resp[c].ids)]
    /\ Goto(c, "fill")
    /\ UNCHANGED <<agentVars, req, resp, recent>>

(* One turn of `for identity in &filtered { cache.insert(..) }` *)
InsertKey(c) ==
    /\ pc[c] = "fill"
    /\ \E k \in todo[c] :
          /\ cache' = cache \cup {k}
          /\ todo' = [todo EXCEPT ![c] = @ \ {k}]
    /\ UNCHANGED <<agentVars, writer, pc, req, resp, recent>>

(* Mutant: the guard is never dropped. *)
UnlockForgotten(c) ==
    /\ pc[c] = "fill" /\ todo[c] = {}
    /\ Goto(c, "reply")
    /\ UNCHANGED <<agentVars, lockVars, req, resp, recent>>

(* The guard is dropped; build_identities_answer makes the response. *)
Unlock(c) ==
    /\ pc[c] = "fill" /\ todo[c] = {}
    /\ writer' = Nobody
    /\ Goto(c, "reply")
    /\ UNCHANGED <<agentVars, cache, todo, req, resp, recent>>

-----------------------------------------------------------------------------
(***************************************************************************)
(* handle_sign_request.  The read guard is taken and dropped around one    *)
(* lookup, so a lookup waits for the writer and is then one step.  The     *)
(* filter is consulted after the guard is dropped; it does not change      *)
(* while the socket runs, so when it is consulted makes no difference.     *)
(***************************************************************************)
Allowed(k) == k \in cache \/ DirectMatch(k)

(* Mutant: what does not parse is left to the agent. *)
ForwardBadSign(c) ==
    /\ pc[c] = "check" /\ req[c].kind = "badsign"
    /\ Goto(c, "connect")
    /\ UNCHANGED <<agentVars, lockVars, req, resp, recent>>

RejectBadSign(c) ==
    /\ pc[c] = "check" /\ req[c].kind = "badsign"
    /\ resp' = [resp EXCEPT ![c] = Plain("failure")]
    /\ Goto(c, "reply")
    /\ UNCHANGED <<agentVars, lockVars, req, recent>>

PermitSign(c) ==
    /\ pc[c] = "check" /\ req[c].kind = "sign" /\ writer = Nobody
    /\ Allowed(req[c].key)
    /\ Goto(c, "connect")
    /\ UNCHANGED <<agentVars, lockVars, req, resp, recent>>

(* Mutant: the cache is read without the lock. *)
RefuseUnlocked(c) ==
    /\ pc[c] = "check" /\ req[c].kind = "sign"
    /\ ~Allowed(req[c].key)
    /\ resp' = [resp EXCEPT ![c] = Plain("failure")]
    /\ Goto(c, "reply")
    /\ UNCHANGED <<agentVars, lockVars, req, recent>>

RefuseSign(c) ==
    /\ pc[c] = "check" /\ req[c].kind = "sign" /\ writer = Nobody
    /\ ~Allowed(req[c].key)
    /\ resp' = [resp EXCEPT ![c] = Plain("failure")]
    /\ Goto(c, "reply")
    /\ UNCHANGED <<agentVars, lockVars, req, recent>>

-----------------------------------------------------------------------------
(* The process ends, in the middle of anything, and is started again. *)
Restart ==
    /\ cache' = {}
    /\ writer' = Nobody
    /\ todo' = [c \in Conns |-> {}]
    /\ pc' = [c \in Conns |-> "closed"]
    /\ req' = [c \in Conns |-> NoRequest]
    /\ resp' = [c \in Conns |-> NoReply]
    /\ published' = {}
    /\ recent' = [c \in Conns |-> {}]
    /\ UNCHANGED held

(* What the task of a connection does whatever its client does. *)
Unaided(c) ==
    \/ Connect(c) \/ ConnectFails(c) \/ RequestFails(c)
    \/ ReceiveIdentities(c) \/ ReceiveOther(c)
    \/ InsertKey(c) \/ Unlock(c) \/ RejectBadSign(c)

Proceed(c) == Unaided(c) \/ WriteReply(c) \/ WriteFails(c)

(* What it does once the lock is granted. *)
UnderLock(c) == ClearCache(c) \/ PermitSign(c) \/ RefuseSign(c)

Client(c) == Accept(c) \/ ReadRequest(c) \/ ClientLeaves(c)

Next ==
    \/ AgentChanges \/ Restart
    \/ \E c \in Conns :
          Client(c) \/ UpstreamAnswers(c) \/ Proceed(c) \/ UnderLock(c)

(***************************************************************************)
(* A task that can run is run, and both timeouts of upstream.rs fire: weak *)
(* fairness.  tokio's RwLock serves its waiters in order, so a waiter is   *)
(* granted a lock that is released again and again: strong fairness.       *)
(* Nothing is asked of the upstream agent, nor of the clients: write_all   *)
(* has no timeout, so a reply that its client does not read may never be   *)
(* written, and its task may never end.                                    *)
(***************************************************************************)
Fairness == \A c \in Conns : WF_vars(Unaided(c)) /\ SF_vars(UnderLock(c))

Spec == Init /\ [][Next]_vars

FairSpec == Spec /\ Fairness

-----------------------------------------------------------------------------
(***************************************************************************)
(* Properties.                                                             *)
(***************************************************************************)

(***************************************************************************)
(* The cache is all of one listing: whenever no rebuild is under way, it   *)
(* holds exactly the keys that the filter admits of one answer of the      *)
(* agent since the process started, never a mixture of two answers that    *)
(* were processed at the same time, nor a part of one.                     *)
(***************************************************************************)
CacheIsOneListing == writer = Nobody => cache \in published \cup {{}}

(***************************************************************************)
(* A sign request is on its way to the agent only if its key was admitted  *)
(* in a listing since the process started, or the filter admits it with    *)
(* the empty comment: across restarts, failed listings and rebuilds.       *)
(***************************************************************************)
SignNeedsAdmission ==
    \A c \in Conns :
        pc[c] \in {"connect", "wait", "answered"} /\ req[c].kind = "sign"
            => req[c].key \in UNION published \/ DirectMatch(req[c].key)

(***************************************************************************)
(* A client that was shown a key the agent still holds is refused that key *)
(* only if some answer of the agent since the process started did not      *)
(* admit it: a rebuild in progress alone never refuses anybody.            *)
(***************************************************************************)
RefusalHasCause ==
    [][\A c \in Conns : RefuseSign(c) /\ req[c].key \in recent[c]
            => \E keys \in published : req[c].key \notin keys]_vars

(***************************************************************************)
(* The note in handle_sign_request: "the key should have been in the cache *)
(* from REQUEST_IDENTITIES".  A client is not refused a key of its own     *)
(* last listing while the agent still holds that key as it was listed.     *)
(***************************************************************************)
ListedKeyIsUsable ==
    [][\A c \in Conns : RefuseSign(c) => req[c].key \notin recent[c]]_vars

(***************************************************************************)
(* Every request comes to a decision: its reply is ready to be written, or *)
(* its connection is closed.  No lock, no dead or silent upstream, and no  *)
(* other client that stops reading its own reply holds it for ever.        *)
(***************************************************************************)
RequestIsDecided ==
    \A c \in Conns :
        pc[c] \notin {"closed", "idle", "reply"} ~> pc[c] \in {"closed", "reply"}

-----------------------------------------------------------------------------
(***************************************************************************)
(* The proxy implements FilteredAgent.  A rebuild takes effect where it    *)
(* begins, since nobody looks at the cache before it ends: what is cached  *)
(* and what is still to be inserted are together what is allowed.  An      *)
(* answer counts as filtered from the moment the agent has given it.       *)
(***************************************************************************)
AbstractPhase(c) ==
    CASE pc[c] \in {"closed", "idle"} -> pc[c]
      [] pc[c] = "check" -> "asked"
      [] pc[c] \in {"connect", "wait"} ->
            IF req[c].kind = "sign" THEN "permitted" ELSE "asked"
      [] pc[c] = "answered" ->
            IF resp[c].kind = "identities" THEN "looked" ELSE "reply"
      [] pc[c] = "lock" -> "looked"
      [] OTHER -> "reply"

AbstractReply(c) ==
    CASE pc[c] = "answered" /\ resp[c].kind = "identities" -> Identities(Admitted(resp[c].ids))
      [] pc[c] = "answered" /\ resp[c].kind = "garbled" -> Plain("failure")
      [] OTHER -> resp[c]

(* The keys of rebuilds under way that are still to be inserted. *)
Pending == UNION {todo[c] : c \in Conns}

Abstract == INSTANCE FilteredAgent WITH
    allowed <- cache \cup Pending,
    phase <- [c \in Conns |-> AbstractPhase(c)],
    reply <- [c \in Conns |-> AbstractReply(c)]

(* The clients of the proxy see what FilteredAgent lets them see. *)
Implements == Abstract!Spec
=============================================================================
