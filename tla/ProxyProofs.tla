----------------------------- MODULE ProxyProofs -----------------------------
(***************************************************************************)
(* Proofs about Proxy, for every set of connections, keys and comments,    *)
(* every filter, and every agent.                                          *)
(***************************************************************************)
EXTENDS Proxy, TLAPS

(* The key set the cache holds, or will hold when its writer is done. *)
Target == cache \cup Pending

(* Connection c has been answered, or is about to be, with a listing. *)
HasListing(c) ==
    \/ recent[c] # {}
    \/ pc[c] \in {"fill", "reply"} /\ resp[c].kind = "identities"

(* The write lock is held exactly while its holder rebuilds the cache. *)
LockInv ==
    /\ \A c \in Conns : writer # c => todo[c] = {}
    /\ \A c \in Conns : pc[c] = "fill" <=> writer = c

(* Identities on their way through a task are those of an answered listing. *)
ListingInv ==
    \A c \in Conns :
        /\ pc[c] = "answered" /\ resp[c].kind = "identities"
              => KeysOf(Admitted(resp[c].ids)) \in published
        /\ pc[c] = "lock" => KeysOf(resp[c].ids) \in published

(* The target of the cache is one listing; empty-handed only at the start. *)
TargetInv ==
    /\ Target \in published \cup {{}}
    /\ \A c \in Conns : HasListing(c) => Target \in published

IInv ==
    TypeOK /\ LockInv /\ ListingInv /\ TargetInv /\ SignNeedsAdmission

-----------------------------------------------------------------------------
(***************************************************************************)
(* Lemmas about the operators of Filter and AgentMessages.                 *)
(***************************************************************************)

(* The keys of identities are keys, and the filter only drops identities. *)
LEMMA KeysOfType ==
    ASSUME NEW ids \in SUBSET Identity
    PROVE  /\ KeysOf(ids) \in SUBSET Keys
           /\ Admitted(ids) \in SUBSET Identity
           /\ Admitted(ids) \subseteq ids
  BY DEF KeysOf, Admitted, Identity

(***************************************************************************)
(* A rule that rejects the empty comment decides by the comment alone, so  *)
(* a group that admits a key with the empty comment has no comment rule,   *)
(* and admits the key with every comment.                                  *)
(***************************************************************************)
LEMMA RuleIgnoresComment ==
    ASSUME NEW rule, NEW k \in Keys, NEW com \in Comments,
           rule.negated \in BOOLEAN,
           rule.kind = "comment" => (rule.negated <=> EmptyComment \in rule.arg),
           RuleMatches(rule, [key |-> k, comment |-> EmptyComment])
    PROVE  RuleMatches(rule, [key |-> k, comment |-> com])
<1>1. CASE rule.kind = "comment"
  <2>1. FilterMatches(rule, [key |-> k, comment |-> EmptyComment])
            <=> EmptyComment \in rule.arg
    BY <1>1 DEF FilterMatches, KeyFilters
  <2> QED
    BY <1>1, <2>1 DEF RuleMatches
<1>2. CASE rule.kind # "comment"
  <2>1. FilterMatches(rule, [key |-> k, comment |-> EmptyComment])
            <=> FilterMatches(rule, [key |-> k, comment |-> com])
    BY <1>2 DEF FilterMatches
  <2> QED
    BY <2>1 DEF RuleMatches
<1> QED
  BY <1>1, <1>2

(***************************************************************************)
(* handle_sign_request checks a key with the empty comment.  When the      *)
(* comment rules reject the empty comment, a key that passes is one that a *)
(* listing shows whatever its comment is.                                  *)
(***************************************************************************)
THEOREM DirectMatchIsListed ==
    ASSUME CommentRulesRejectEmpty,
           NEW k \in Keys, NEW com \in Comments, DirectMatch(k)
    PROVE  Matches([key |-> k, comment |-> com])
<1>1. CASE Groups = {}
  BY <1>1 DEF Matches
<1>2. CASE Groups # {}
  <2>1. PICK group \in Groups :
            GroupMatches(group, [key |-> k, comment |-> EmptyComment])
    BY <1>2 DEF DirectMatch, Matches
  <2>2. ASSUME NEW rule \in group
        PROVE  RuleMatches(rule, [key |-> k, comment |-> com])
    <3>1. rule.negated \in BOOLEAN
      BY <2>1, FilterAssumption DEF Rule
    <3>2. rule.kind = "comment" => (rule.negated <=> EmptyComment \in rule.arg)
      BY <2>1 DEF CommentRulesRejectEmpty
    <3>3. RuleMatches(rule, [key |-> k, comment |-> EmptyComment])
      BY <2>1 DEF GroupMatches
    <3> QED
      BY <3>1, <3>2, <3>3, RuleIgnoresComment
  <2>3. GroupMatches(group, [key |-> k, comment |-> com])
    BY <2>2 DEF GroupMatches
  <2> QED
    BY <2>1, <2>3 DEF Matches
<1> QED
  BY <1>1, <1>2

(* The requests and replies the actions use are well typed. *)
LEMMA MessageTypes ==
    /\ \A kind \in ReplyKind : Plain(kind) \in Replies
    /\ \A ids \in SUBSET Identity : Identities(ids) \in Replies
    /\ \A r \in Requests : r.kind = "sign" => r.key \in Keys
  BY DEF Plain, Identities, Replies, ReplyKind, Requests, ListRequest,
         SignRequest, BadSignRequest, OtherRequest

-----------------------------------------------------------------------------
(***************************************************************************)
(* Type correctness.                                                       *)
(***************************************************************************)
LEMMA TypeInit == Init => TypeOK
  BY ProxyAssumption DEF Init, TypeOK, Label, NoRequest

(* What the upstream agent answers is a reply. *)
LEMMA AnswersType ==
    ASSUME TypeOK, NEW r, NEW a \in Answers(r)
    PROVE  a \in Replies /\ a.ids \in SUBSET Identity
<1>1. held \in SUBSET Identity
  BY ProxyAssumption DEF TypeOK
<1>2. a \in {Identities(held), Plain("garbled"), Plain("failure"),
             Plain("signature"), Plain("success")}
  BY DEF Answers
<1> QED
  BY <1>1, <1>2 DEF Identities, Plain, Replies, ReplyKind

LEMMA TypeStep == TypeOK /\ [Next]_vars => TypeOK'
<1> SUFFICES ASSUME TypeOK, [Next]_vars PROVE TypeOK'
  OBVIOUS
<1> USE DEF TypeOK, Label, agentVars, lockVars
<1>1. CASE AgentChanges
  BY <1>1 DEF AgentChanges
<1>2. CASE Restart
  BY <1>2 DEF Restart, NoRequest
<1>3. ASSUME NEW c \in Conns, Client(c) PROVE TypeOK'
  <2>1. CASE ReadRequest(c)
    <3>1. PICK r \in Requests :
              /\ req' = [req EXCEPT ![c] = r]
              /\ Goto(c, IF r.kind \in {"sign", "badsign"} THEN "check" ELSE "connect")
      BY <2>1 DEF ReadRequest
    <3> QED
      BY <2>1, <3>1 DEF ReadRequest, Goto
  <2>2. CASE Accept(c)
    BY <2>2 DEF Accept, Goto
  <2>3. CASE ClientLeaves(c)
    BY <2>3 DEF ClientLeaves, CloseConn, EndRequest, Goto, NoRequest
  <2> QED
    BY <1>3, <2>1, <2>2, <2>3 DEF Client
<1>4. ASSUME NEW c \in Conns, UpstreamAnswers(c) PROVE TypeOK'
  <2>1. PICK r \in Answers(req[c]) :
            /\ resp' = [resp EXCEPT ![c] = r]
            /\ published' = IF r.kind = "identities"
                            THEN published \cup {KeysOf(Admitted(r.ids))}
                            ELSE published
    BY <1>4 DEF UpstreamAnswers
  <2>2. r \in Replies /\ r.ids \in SUBSET Identity
    BY AnswersType
  <2>3. KeysOf(Admitted(r.ids)) \in SUBSET Keys
    BY <2>2, KeysOfType
  <2> QED
    BY <1>4, <2>1, <2>2, <2>3 DEF UpstreamAnswers, Goto
<1>5. ASSUME NEW c \in Conns, Proceed(c) PROVE TypeOK'
  <2>1. CASE Connect(c) \/ ConnectFails(c) \/ RequestFails(c) \/ WriteFails(c)
    BY <2>1 DEF Connect, ConnectFails, RequestFails, WriteFails, CloseConn, EndRequest, Goto,
                NoRequest
  <2>2. CASE ReceiveIdentities(c)
    <3>1. resp[c] \in Replies
      BY <2>2 DEF ReceiveIdentities, NoReply
    <3>2. Admitted(resp[c].ids) \in SUBSET Identity
      BY <3>1, KeysOfType DEF Replies
    <3>3. [resp[c] EXCEPT !.ids = Admitted(resp[c].ids)] \in Replies
      BY <3>1, <3>2 DEF Replies
    <3>4. resp' = [resp EXCEPT ![c] = [resp[c] EXCEPT !.ids = Admitted(resp[c].ids)]]
      BY <2>2 DEF ReceiveIdentities
    <3> QED
      BY <2>2, <3>3, <3>4 DEF ReceiveIdentities, Goto
  <2>3. CASE ReceiveOther(c) \/ RejectBadSign(c)
    <3>1. Plain("failure") \in Replies
      BY MessageTypes DEF ReplyKind
    <3> QED
      BY <2>3, <3>1 DEF ReceiveOther, RejectBadSign, Goto
  <2>4. CASE InsertKey(c) \/ Unlock(c)
    BY <2>4 DEF InsertKey, Unlock, Goto
  <2>5. CASE WriteReply(c)
    <3>1. KeysOf(resp[c].ids \cap held) \in SUBSET Keys
      BY ProxyAssumption, KeysOfType
    <3> QED
      BY <2>5, <3>1 DEF WriteReply, EndRequest, Goto, NoRequest
  <2> QED
    BY <1>5, <2>1, <2>2, <2>3, <2>4, <2>5 DEF Proceed, Unaided
<1>6. ASSUME NEW c \in Conns, UnderLock(c) PROVE TypeOK'
  <2>1. CASE ClearCache(c)
    <3>1. resp[c].ids \in SUBSET Identity
      BY DEF Replies, NoReply
    <3>2. KeysOf(resp[c].ids) \in SUBSET Keys
      BY <3>1, KeysOfType
    <3> QED
      BY <2>1, <3>2 DEF ClearCache, Goto
  <2>2. CASE PermitSign(c)
    BY <2>2 DEF PermitSign, Goto
  <2>3. CASE RefuseSign(c)
    <3>1. Plain("failure") \in Replies
      BY MessageTypes DEF ReplyKind
    <3> QED
      BY <2>3, <3>1 DEF RefuseSign, Goto
  <2> QED
    BY <1>6, <2>1, <2>2, <2>3 DEF UnderLock
<1>7. CASE UNCHANGED vars
  BY <1>7 DEF vars
<1> QED
  BY <1>1, <1>2, <1>3, <1>4, <1>5, <1>6, <1>7 DEF Next

(* Every variable of the proxy stays within its type. *)
THEOREM TypeCorrect == Spec => []TypeOK
  BY TypeInit, TypeStep, PTL DEF Spec
-----------------------------------------------------------------------------
(***************************************************************************)
(* The inductive invariant.  CacheIsOneListing alone is not inductive: it  *)
(* says nothing of the cache during a rebuild, nor of the answers that are *)
(* still on their way to it.                                               *)
(***************************************************************************)
LEMMA IInvInit == Init => IInv
<1> SUFFICES ASSUME Init PROVE IInv
  OBVIOUS
<1>1. TypeOK
  BY TypeInit
<1>2. \A c \in Conns : pc[c] = "closed" /\ recent[c] = {} /\ writer # c
  BY ProxyAssumption DEF Init
<1>3. LockInv /\ ListingInv /\ SignNeedsAdmission
  BY <1>2 DEF Init, LockInv, ListingInv, SignNeedsAdmission
<1>4. TargetInv
  BY <1>2 DEF Init, TargetInv, Target, Pending, HasListing
<1> QED
  BY <1>1, <1>3, <1>4 DEF IInv

(* The lock keeps one writer at a time, and an unlocked cache complete. *)
LEMMA LockStep == TypeOK /\ LockInv /\ [Next]_vars => LockInv'
<1> SUFFICES ASSUME TypeOK, LockInv, [Next]_vars PROVE LockInv'
  OBVIOUS
<1> USE DEF LockInv, agentVars, lockVars
<1>1. CASE AgentChanges \/ UNCHANGED vars
  BY <1>1 DEF AgentChanges, vars
<1>2. CASE Restart
  BY <1>2, ProxyAssumption DEF Restart
<1>3. ASSUME NEW c \in Conns, Client(c) \/ UpstreamAnswers(c) PROVE LockInv'
  BY <1>3 DEF TypeOK, Client, Accept, ReadRequest, ClientLeaves, CloseConn, Goto,
              UpstreamAnswers
<1>4. ASSUME NEW c \in Conns, Proceed(c) PROVE LockInv'
  <2>1. CASE Connect(c) \/ ConnectFails(c) \/ RequestFails(c) \/ WriteFails(c)
    BY <2>1 DEF TypeOK, Connect, ConnectFails, RequestFails, WriteFails, CloseConn, Goto
  <2>2. CASE ReceiveIdentities(c) \/ ReceiveOther(c) \/ RejectBadSign(c) \/ WriteReply(c)
    BY <2>2 DEF TypeOK, ReceiveIdentities, ReceiveOther, RejectBadSign, WriteReply, Goto
  <2>3. CASE InsertKey(c)
    BY <2>3, ProxyAssumption DEF InsertKey
  <2>4. CASE Unlock(c)
    BY <2>4, ProxyAssumption DEF TypeOK, Unlock, Goto
  <2> QED
    BY <1>4, <2>1, <2>2, <2>3, <2>4 DEF Proceed, Unaided
<1>5. ASSUME NEW c \in Conns, UnderLock(c) PROVE LockInv'
  BY <1>5, ProxyAssumption DEF TypeOK, UnderLock, ClearCache, PermitSign, RefuseSign, Goto
<1> QED
  BY <1>1, <1>2, <1>3, <1>4, <1>5 DEF Next

(* A listing is published when it is answered, and filtered before the lock. *)
LEMMA ListingStep == TypeOK /\ ListingInv /\ [Next]_vars => ListingInv'
<1> SUFFICES ASSUME TypeOK, ListingInv, [Next]_vars PROVE ListingInv'
  OBVIOUS
<1> USE DEF ListingInv, agentVars, lockVars
<1>1. CASE AgentChanges \/ UNCHANGED vars
  BY <1>1 DEF AgentChanges, vars
<1>2. CASE Restart
  BY <1>2 DEF Restart
<1>3. ASSUME NEW c \in Conns, Client(c) PROVE ListingInv'
  BY <1>3 DEF TypeOK, Client, Accept, ReadRequest, ClientLeaves, CloseConn, EndRequest, Goto
<1>4. ASSUME NEW c \in Conns, UpstreamAnswers(c) PROVE ListingInv'
  BY <1>4 DEF TypeOK, UpstreamAnswers, Goto
<1>5. ASSUME NEW c \in Conns, Proceed(c) PROVE ListingInv'
  <2>1. CASE Connect(c) \/ ConnectFails(c) \/ RequestFails(c) \/ WriteFails(c)
    BY <2>1 DEF TypeOK, Connect, ConnectFails, RequestFails, WriteFails, CloseConn,
                EndRequest, Goto
  <2>2. CASE ReceiveIdentities(c)
    <3>1. KeysOf(Admitted(resp[c].ids)) \in published
      BY <2>2 DEF ReceiveIdentities
    <3>2. resp'[c].ids = Admitted(resp[c].ids)
      BY <2>2 DEF ReceiveIdentities, TypeOK, Replies, NoReply
    <3> QED
      BY <2>2, <3>1, <3>2 DEF ReceiveIdentities, TypeOK, Goto
  <2>3. CASE ReceiveOther(c) \/ RejectBadSign(c) \/ WriteReply(c)
    BY <2>3 DEF TypeOK, ReceiveOther, RejectBadSign, WriteReply, EndRequest, Goto
  <2>4. CASE InsertKey(c) \/ Unlock(c)
    BY <2>4 DEF TypeOK, InsertKey, Unlock, Goto
  <2> QED
    BY <1>5, <2>1, <2>2, <2>3, <2>4 DEF Proceed, Unaided
<1>6. ASSUME NEW c \in Conns, UnderLock(c) PROVE ListingInv'
  BY <1>6 DEF TypeOK, UnderLock, ClearCache, PermitSign, RefuseSign, Goto
<1> QED
  BY <1>1, <1>2, <1>3, <1>4, <1>5, <1>6 DEF Next

(* The cache is built towards one published listing, and stays at one. *)
LEMMA TargetStep == IInv /\ [Next]_vars => TargetInv'
<1> SUFFICES ASSUME IInv, [Next]_vars PROVE TargetInv'
  OBVIOUS
<1> USE DEF IInv, TargetInv, HasListing, agentVars, lockVars
<1>0. cache' = cache /\ todo' = todo => Target' = Target
  BY DEF Target, Pending
<1>1. CASE AgentChanges \/ UNCHANGED vars
  BY <1>0, <1>1 DEF AgentChanges, vars
<1>2. CASE Restart
  BY <1>2 DEF Restart, Target, Pending
<1>3. ASSUME NEW c \in Conns, Client(c) PROVE TargetInv'
  BY <1>0, <1>3 DEF TypeOK, Client, Accept, ReadRequest, ClientLeaves, CloseConn, EndRequest, Goto
<1>4. ASSUME NEW c \in Conns, UpstreamAnswers(c) PROVE TargetInv'
  BY <1>0, <1>4 DEF TypeOK, UpstreamAnswers, Goto
<1>5. ASSUME NEW c \in Conns, Proceed(c) PROVE TargetInv'
  <2>1. CASE Connect(c) \/ ConnectFails(c) \/ RequestFails(c) \/ WriteFails(c)
    BY <1>0, <2>1 DEF TypeOK, Connect, ConnectFails, RequestFails, WriteFails, CloseConn,
                EndRequest, Goto
  <2>2. CASE ReceiveIdentities(c)
    BY <1>0, <2>2 DEF TypeOK, ReceiveIdentities, Goto
  <2>3. CASE ReceiveOther(c) \/ RejectBadSign(c)
    <3>1. Plain("failure").kind # "identities"
      BY DEF Plain
    <3> QED
      BY <1>0, <2>3, <3>1 DEF TypeOK, ReceiveOther, RejectBadSign, Goto
  <2>4. CASE InsertKey(c)
    <3>1. PICK k \in todo[c] :
              cache' = cache \cup {k} /\ todo' = [todo EXCEPT ![c] = @ \ {k}]
      BY <2>4 DEF InsertKey
    <3>2. todo \in [Conns -> SUBSET Keys]
      BY DEF TypeOK
    <3>3. Target' = Target
      BY <3>1, <3>2 DEF Target, Pending
    <3> QED
      BY <2>4, <3>3 DEF InsertKey
  <2>5. CASE Unlock(c)
    BY <1>0, <2>5 DEF TypeOK, Unlock, Goto
  <2>6. CASE WriteReply(c)
    BY <1>0, <2>6 DEF TypeOK, WriteReply, EndRequest, Goto
  <2> QED
    BY <1>5, <2>1, <2>2, <2>3, <2>4, <2>5, <2>6 DEF Proceed, Unaided
<1>6. ASSUME NEW c \in Conns, UnderLock(c) PROVE TargetInv'
  <2>1. CASE ClearCache(c)
    <3>1. \A d \in Conns : todo[d] = {}
      BY <2>1, ProxyAssumption DEF ClearCache, LockInv
    <3>2. Target' = KeysOf(resp[c].ids)
      BY <2>1, <3>1 DEF ClearCache, Target, Pending, TypeOK
    <3>3. Target' \in published
      BY <2>1, <3>2 DEF ClearCache, ListingInv
    <3> QED
      BY <2>1, <3>3 DEF ClearCache
  <2>2. CASE PermitSign(c)
    BY <1>0, <2>2 DEF TypeOK, PermitSign, Goto
  <2>3. CASE RefuseSign(c)
    <3>1. Plain("failure").kind # "identities"
      BY DEF Plain
    <3> QED
      BY <1>0, <2>3, <3>1 DEF TypeOK, RefuseSign, Goto
  <2> QED
    BY <1>6, <2>1, <2>2, <2>3 DEF UnderLock
<1> QED
  BY <1>1, <1>2, <1>3, <1>4, <1>5, <1>6 DEF Next

(* While the lock is free the cache is all there is. *)
LEMMA FreeCache ==
    ASSUME LockInv, writer = Nobody
    PROVE  Target = cache
<1>1. \A c \in Conns : todo[c] = {}
  BY ProxyAssumption DEF LockInv
<1> QED
  BY <1>1 DEF Target, Pending

(* A key that handle_sign_request lets pass is published or matches directly. *)
LEMMA AllowedIsAdmitted ==
    ASSUME IInv, NEW k, Allowed(k)
    PROVE  k \in UNION published \/ DirectMatch(k)
  BY DEF IInv, TargetInv, Target, Allowed

LEMMA AdmissionStep == IInv /\ [Next]_vars => SignNeedsAdmission'
<1> SUFFICES ASSUME IInv, [Next]_vars PROVE SignNeedsAdmission'
  OBVIOUS
<1> USE DEF SignNeedsAdmission, agentVars, lockVars
<1>0. TypeOK /\ SignNeedsAdmission
  BY DEF IInv
<1>1. CASE AgentChanges \/ UNCHANGED vars
  BY <1>0, <1>1 DEF AgentChanges, vars
<1>2. CASE Restart
  BY <1>2 DEF Restart
<1>3. ASSUME NEW c \in Conns, Client(c) PROVE SignNeedsAdmission'
  BY <1>0, <1>3 DEF TypeOK, Client, Accept, ReadRequest, ClientLeaves, CloseConn,
                    EndRequest, Goto
<1>4. ASSUME NEW c \in Conns, UpstreamAnswers(c) PROVE SignNeedsAdmission'
  <2>1. published \subseteq published'
    BY <1>4 DEF UpstreamAnswers
  <2>2. UNION published \subseteq UNION published'
    BY <2>1
  <2> QED
    BY <1>0, <1>4, <2>2 DEF TypeOK, UpstreamAnswers, Goto
<1>5. ASSUME NEW c \in Conns, Proceed(c) PROVE SignNeedsAdmission'
  <2>1. CASE Connect(c) \/ ConnectFails(c) \/ RequestFails(c) \/ WriteFails(c)
    BY <1>0, <2>1 DEF TypeOK, Connect, ConnectFails, RequestFails, WriteFails, CloseConn,
                      EndRequest, Goto
  <2>2. CASE ReceiveIdentities(c) \/ ReceiveOther(c) \/ RejectBadSign(c) \/ WriteReply(c)
    BY <1>0, <2>2 DEF TypeOK, ReceiveIdentities, ReceiveOther, RejectBadSign, WriteReply,
                      EndRequest, Goto
  <2>3. CASE InsertKey(c) \/ Unlock(c)
    BY <1>0, <2>3 DEF TypeOK, InsertKey, Unlock, Goto
  <2> QED
    BY <1>5, <2>1, <2>2, <2>3 DEF Proceed, Unaided
<1>6. ASSUME NEW c \in Conns, UnderLock(c) PROVE SignNeedsAdmission'
  <2>1. CASE ClearCache(c) \/ RefuseSign(c)
    BY <1>0, <2>1 DEF TypeOK, ClearCache, RefuseSign, Goto
  <2>2. CASE PermitSign(c)
    <3>1. req[c].key \in UNION published \/ DirectMatch(req[c].key)
      BY <2>2, AllowedIsAdmitted DEF PermitSign
    <3> QED
      BY <1>0, <2>2, <3>1 DEF TypeOK, PermitSign, Goto
  <2> QED
    BY <1>6, <2>1, <2>2 DEF UnderLock
<1> QED
  BY <1>1, <1>2, <1>3, <1>4, <1>5, <1>6 DEF Next

LEMMA IInvStep == IInv /\ [Next]_vars => IInv'
  BY TypeStep, LockStep, ListingStep, TargetStep, AdmissionStep DEF IInv

THEOREM Invariance == Spec => []IInv
  BY IInvInit, IInvStep, PTL DEF Spec

-----------------------------------------------------------------------------
(***************************************************************************)
(* The properties.                                                         *)
(***************************************************************************)

(***************************************************************************)
(* Whatever listings, restarts and failures overlap, an unlocked cache is  *)
(* exactly one listing the agent has answered since the process started.   *)
(***************************************************************************)
THEOREM CacheCorrect == Spec => []CacheIsOneListing
<1>1. IInv => CacheIsOneListing
  BY FreeCache DEF IInv, TargetInv, CacheIsOneListing
<1> QED
  BY <1>1, Invariance, PTL

(* A sign request reaches the agent only for an admitted key. *)
THEOREM SignCorrect == Spec => []SignNeedsAdmission
<1>1. IInv => SignNeedsAdmission
  BY DEF IInv
<1> QED
  BY <1>1, Invariance, PTL

(***************************************************************************)
(* A refusal of a listed key is explained by an answer that lacks the key: *)
(* the cache is unlocked when it is consulted, so it is a whole listing.   *)
(***************************************************************************)
THEOREM RefusalsHaveCause == Spec => RefusalHasCause
<1>1. ASSUME IInv,
             NEW c \in Conns, RefuseSign(c), req[c].key \in recent[c]
      PROVE  \E keys \in published : req[c].key \notin keys
  <2>1. Target \in published
    BY <1>1 DEF IInv, TargetInv, HasListing
  <2>2. req[c].key \notin Target
    BY <1>1, FreeCache DEF IInv, RefuseSign, Allowed
  <2> QED
    BY <2>1, <2>2
<1>2. IInv /\ [Next]_vars
         => [\A c \in Conns : RefuseSign(c) /\ req[c].key \in recent[c]
                => \E keys \in published : req[c].key \notin keys]_vars
  BY <1>1
<1> QED
  BY <1>2, Invariance, PTL DEF Spec, RefusalHasCause

-----------------------------------------------------------------------------
(***************************************************************************)
(* Proxy implements FilteredAgent: every step of the proxy is, under the   *)
(* mapping of Proxy, a step of FilteredAgent or none at all.               *)
(***************************************************************************)
(* What the variables of FilteredAgent stand for. *)
AbstractPhases == [c \in Conns |-> AbstractPhase(c)]
AbstractReplies == [c \in Conns |-> AbstractReply(c)]

(* A message that does not parse as a sign request never goes upstream. *)
KindInv ==
    \A c \in Conns :
        pc[c] \in {"connect", "wait"} => req[c].kind \in {"list", "sign", "other"}

RInv == TypeOK /\ LockInv /\ KindInv

LEMMA KindStep == TypeOK /\ KindInv /\ [Next]_vars => KindInv'
<1> SUFFICES ASSUME TypeOK, KindInv, [Next]_vars PROVE KindInv'
  OBVIOUS
<1> USE DEF TypeOK, KindInv, Goto, CloseConn, EndRequest
<1>1. CASE AgentChanges \/ Restart \/ UNCHANGED vars
  BY <1>1 DEF AgentChanges, Restart, vars
<1>2. ASSUME NEW c \in Conns, Client(c) PROVE KindInv'
  <2>1. CASE ReadRequest(c)
    <3>1. PICK r \in Requests :
              /\ req' = [req EXCEPT ![c] = r]
              /\ Goto(c, IF r.kind \in {"sign", "badsign"} THEN "check" ELSE "connect")
      BY <2>1 DEF ReadRequest
    <3>2. r.kind \in {"list", "sign", "badsign", "other"}
      BY DEF Requests, ListRequest, BadSignRequest, OtherRequest, SignRequest
    <3> QED
      BY <3>1, <3>2
  <2>2. CASE Accept(c) \/ ClientLeaves(c)
    BY <2>2 DEF Accept, ClientLeaves
  <2> QED
    BY <1>2, <2>1, <2>2 DEF Client
<1>3. ASSUME NEW c \in Conns, UpstreamAnswers(c) \/ Proceed(c) PROVE KindInv'
  BY <1>3 DEF UpstreamAnswers, Proceed, Unaided, Connect, ConnectFails, RequestFails,
     ReceiveIdentities, ReceiveOther, InsertKey, Unlock, RejectBadSign, WriteReply, WriteFails
<1>4. ASSUME NEW c \in Conns, UnderLock(c) PROVE KindInv'
  BY <1>4 DEF UnderLock, ClearCache, PermitSign, RefuseSign
<1> QED
  BY <1>1, <1>2, <1>3, <1>4 DEF Next

LEMMA RefinementInvariance == Spec => []RInv
<1>1. Init => KindInv
  BY DEF Init, KindInv
<1>2. Spec => [](TypeOK /\ LockInv)
  <2>1. IInv => TypeOK /\ LockInv
    BY DEF IInv
  <2> QED
    BY <2>1, Invariance, PTL
<1>3. KindInv /\ TypeOK /\ [Next]_vars => KindInv'
  BY KindStep
<1> QED
  BY <1>1, <1>2, <1>3, PTL DEF Spec, RInv

-----------------------------------------------------------------------------
(***************************************************************************)
(* Lemmas about the mapping.                                               *)
(***************************************************************************)
(* A step of one connection changes only its own phase and reply. *)
LEMMA OnlyOwn ==
    ASSUME NEW c \in Conns,
           \A d \in Conns \ {c} : pc'[d] = pc[d] /\ req'[d] = req[d] /\ resp'[d] = resp[d]
    PROVE  /\ AbstractPhases' = [AbstractPhases EXCEPT ![c] = AbstractPhase(c)']
           /\ AbstractReplies' = [AbstractReplies EXCEPT ![c] = AbstractReply(c)']
<1>1. \A d \in Conns \ {c} : AbstractPhase(d)' = AbstractPhase(d)
  BY DEF AbstractPhase
<1>2. \A d \in Conns \ {c} : AbstractReply(d)' = AbstractReply(d)
  BY DEF AbstractReply
<1> QED
  BY <1>1, <1>2 DEF AbstractPhases, AbstractReplies

(* What is cached and what is to be cached; nothing is, with a free lock. *)
LEMMA PendingIsFree == LockInv /\ writer = Nobody => Pending = {}
  BY ProxyAssumption DEF LockInv, Pending

(* FilteredAgent speaks of the same messages, and of the same filter. *)
LEMMA SameMessages ==
    /\ Abstract!NoRequest = NoRequest /\ Abstract!NoReply = NoReply
    /\ Abstract!Requests = Requests
    /\ \A kind : Abstract!Plain(kind) = Plain(kind)
    /\ \A ids : Abstract!Identities(ids) = Identities(ids)
  BY DEF Abstract!NoRequest, NoRequest, Abstract!NoReply, NoReply, Abstract!Plain, Plain,
     Abstract!Identities, Identities, Abstract!Requests, Requests,
     Abstract!ListRequest, ListRequest, Abstract!BadSignRequest, BadSignRequest,
     Abstract!OtherRequest, OtherRequest, Abstract!SignRequest, SignRequest

LEMMA SameFilter ==
    /\ \A ids : Abstract!KeysOf(ids) = KeysOf(ids)
    /\ \A ids : Abstract!Admitted(ids) = Admitted(ids)
    /\ \A k : Abstract!DirectMatch(k) <=> DirectMatch(k)
<1>1. \A id : Abstract!Matches(id) <=> Matches(id)
  BY DEF Abstract!Matches, Matches, Abstract!GroupMatches, GroupMatches,
     Abstract!RuleMatches, RuleMatches, Abstract!FilterMatches, FilterMatches,
     Abstract!KeyFilters, KeyFilters
<1> QED
  BY <1>1 DEF Abstract!KeysOf, KeysOf, Abstract!Admitted, Admitted,
     Abstract!DirectMatch, DirectMatch

(* A step that changes neither what is cached nor what is to be cached. *)
LEMMA SameAllowed == UNCHANGED lockVars => (cache \cup Pending)' = cache \cup Pending
  BY DEF lockVars, Pending

(***************************************************************************)
(* A step of c in terms of the mapping: that it is the step of             *)
(* FilteredAgent from the old phase and reply of c to the new ones.        *)
(***************************************************************************)
LocalStep(c, phase, reply) ==
    /\ AbstractPhases' = [AbstractPhases EXCEPT ![c] = phase]
    /\ AbstractReplies' = [AbstractReplies EXCEPT ![c] = reply]

LEMMA Local ==
    ASSUME TypeOK, NEW c \in Conns,
           \A d \in Conns \ {c} : pc'[d] = pc[d] /\ req'[d] = req[d] /\ resp'[d] = resp[d]
    PROVE  LocalStep(c, AbstractPhase(c)', AbstractReply(c)')
  BY OnlyOwn DEF LocalStep

(* A step that does not show. *)
Hidden(c) ==
    /\ UNCHANGED <<held, req>>
    /\ (cache \cup Pending)' = cache \cup Pending
    /\ AbstractPhase(c)' = AbstractPhase(c)
    /\ AbstractReply(c)' = AbstractReply(c)

LEMMA HiddenIsStutter ==
    ASSUME TypeOK, NEW c \in Conns, Hidden(c),
           \A d \in Conns \ {c} : pc'[d] = pc[d] /\ resp'[d] = resp[d]
    PROVE  UNCHANGED Abstract!vars
<1>1. \A d \in Conns : AbstractPhase(d)' = AbstractPhase(d) /\ AbstractReply(d)' = AbstractReply(d)
  BY DEF Hidden, AbstractPhase, AbstractReply
<1> QED
  BY <1>1 DEF Hidden, Abstract!vars

-----------------------------------------------------------------------------
(***************************************************************************)
(* One lemma for each group of actions: which step of FilteredAgent it is. *)
(***************************************************************************)
LEMMA CloseIsClose ==
    ASSUME TypeOK, NEW c \in Conns, CloseConn(c)
    PROVE  Abstract!Close(c)
<1> USE DEF TypeOK, CloseConn, Goto, EndRequest
<1>1. LocalStep(c, "closed", NoReply)
  <2>1. AbstractPhase(c)' = "closed" /\ AbstractReply(c)' = NoReply
    BY DEF AbstractPhase, AbstractReply
  <2> QED
    BY <2>1, Local
<1> QED
  BY <1>1, SameMessages, SameAllowed
  DEF Abstract!Close, Abstract!Forget, LocalStep, AbstractPhases, AbstractReplies, agentVars

LEMMA ClientSteps ==
    ASSUME TypeOK, NEW c \in Conns, Accept(c) \/ ReadRequest(c) \/ WriteReply(c)
    PROVE  Abstract!Step(c)
<1> USE DEF TypeOK, Goto, EndRequest
<1>1. CASE Accept(c)
  <2>1. LocalStep(c, "idle", AbstractReply(c)) /\ AbstractPhase(c) = "closed"
    <3>1. AbstractPhase(c)' = "idle" /\ AbstractReply(c)' = AbstractReply(c)
      BY <1>1 DEF Accept, AbstractPhase, AbstractReply
    <3> QED
      BY <1>1, <3>1, Local DEF Accept, AbstractPhase
  <2>2. Abstract!Open(c)
    BY <1>1, <2>1, SameAllowed
    DEF Accept, Abstract!Open, LocalStep, AbstractPhases, AbstractReplies, agentVars
  <2> QED
    BY <2>2 DEF Abstract!Step
<1>2. CASE ReadRequest(c)
  <2>1. LocalStep(c, "asked", AbstractReply(c)) /\ AbstractPhase(c) = "idle"
    <3>1. AbstractPhase(c)' = "asked" /\ AbstractReply(c)' = AbstractReply(c)
      BY <1>2 DEF ReadRequest, AbstractPhase, AbstractReply
    <3> QED
      BY <1>2, <3>1, Local DEF ReadRequest, AbstractPhase
  <2>2. Abstract!Ask(c)
    BY <1>2, <2>1, SameAllowed, SameMessages
    DEF ReadRequest, Abstract!Ask, LocalStep, AbstractPhases, AbstractReplies, agentVars
  <2> QED
    BY <2>2 DEF Abstract!Step
<1>3. CASE WriteReply(c)
  <2>1. LocalStep(c, "idle", NoReply) /\ AbstractPhase(c) = "reply"
    <3>1. AbstractPhase(c)' = "idle" /\ AbstractReply(c)' = NoReply
      BY <1>3 DEF WriteReply, AbstractPhase, AbstractReply
    <3> QED
      BY <1>3, <3>1, Local DEF WriteReply, AbstractPhase
  <2>2. Abstract!Answer(c)
    BY <1>3, <2>1, SameAllowed, SameMessages
    DEF WriteReply, Abstract!Answer, Abstract!Forget, LocalStep, AbstractPhases,
        AbstractReplies, agentVars
  <2> QED
    BY <2>2 DEF Abstract!Step
<1> QED
  BY <1>1, <1>2, <1>3

(* The agent's answer: a listing is decided here, and a signature made. *)
LEMMA UpstreamSteps ==
    ASSUME TypeOK, KindInv, NEW c \in Conns, UpstreamAnswers(c)
    PROVE  Abstract!Step(c)
<1> USE DEF TypeOK, Goto
<1>1. PICK r \in Answers(req[c]) : resp' = [resp EXCEPT ![c] = r]
  BY DEF UpstreamAnswers
<1>2. pc[c] = "wait" /\ pc' = [pc EXCEPT ![c] = "answered"] /\ UNCHANGED <<held, lockVars, req>>
  BY DEF UpstreamAnswers
<1>3. req[c].kind \in {"list", "sign", "other"}
  BY <1>2 DEF KindInv
<1>4. resp'[c] = r /\ pc'[c] = "answered"
  BY <1>1, <1>2
<1>5. LocalStep(c, AbstractPhase(c)', AbstractReply(c)')
  BY <1>1, <1>2, Local
<1>6. ASSUME req[c].kind = "list" PROVE Abstract!Step(c)
  <2>1. AbstractPhase(c) = "asked"
    BY <1>2, <1>6 DEF AbstractPhase
  <2>2. CASE r = Identities(held)
    <3>1. AbstractPhase(c)' = "looked" /\ AbstractReply(c)' = Identities(Admitted(held))
      BY <1>4, <2>2 DEF AbstractPhase, AbstractReply, Identities
    <3>2. Abstract!Look(c)
      BY <1>2, <1>5, <1>6, <2>1, <3>1, SameAllowed, SameMessages, SameFilter
      DEF Abstract!Look, LocalStep, AbstractPhases, AbstractReplies
    <3> QED
      BY <3>2 DEF Abstract!Step
  <2>3. CASE r \in {Plain("garbled"), Plain("failure")}
    <3>1. AbstractPhase(c)' = "reply" /\ AbstractReply(c)' = Plain("failure")
      <4>1. PICK kind \in {"garbled", "failure"} : resp'[c] = Plain(kind)
        BY <1>4, <2>3
      <4>2. resp'[c].kind = kind
        BY <4>1 DEF Plain
      <4> QED
        BY <1>4, <4>1, <4>2 DEF AbstractPhase, AbstractReply
    <3>2. Abstract!Refuse(c)
      BY <1>2, <1>5, <1>6, <2>1, <3>1, SameAllowed, SameMessages, SameFilter
      DEF Abstract!Refuse, LocalStep, AbstractPhases, AbstractReplies
    <3> QED
      BY <3>2 DEF Abstract!Step
  <2> QED
    BY <1>6, <2>2, <2>3 DEF Answers
<1>7. ASSUME req[c].kind = "sign" PROVE Abstract!Step(c)
  <2>1. AbstractPhase(c) = "permitted"
    BY <1>2, <1>7 DEF AbstractPhase
  <2>2. PICK kind \in {"signature", "failure"} :
            r = Plain(kind) /\ (kind = "signature" => req[c].key \in KeysOf(held))
    BY <1>7 DEF Answers
  <2>3. AbstractPhase(c)' = "reply" /\ AbstractReply(c)' = Plain(kind)
    BY <1>4, <2>2 DEF AbstractPhase, AbstractReply, Plain
  <2>4. Abstract!Sign(c)
    BY <1>2, <1>5, <2>1, <2>2, <2>3, SameAllowed, SameMessages, SameFilter
    DEF Abstract!Sign, LocalStep, AbstractPhases, AbstractReplies
  <2> QED
    BY <2>4 DEF Abstract!Step
<1>8. ASSUME req[c].kind = "other" PROVE Abstract!Step(c)
  <2>1. AbstractPhase(c) = "asked"
    BY <1>2, <1>8 DEF AbstractPhase
  <2>2. PICK kind \in {"success", "failure"} : r = Plain(kind)
    BY <1>8 DEF Answers
  <2>3. AbstractPhase(c)' = "reply" /\ AbstractReply(c)' = Plain(kind)
    BY <1>4, <2>2 DEF AbstractPhase, AbstractReply, Plain
  <2>4. CASE kind = "success"
    <3>1. Abstract!Relay(c)
      BY <1>2, <1>5, <1>8, <2>1, <2>3, <2>4, SameAllowed, SameMessages
      DEF Abstract!Relay, LocalStep, AbstractPhases, AbstractReplies
    <3> QED
      BY <3>1 DEF Abstract!Step
  <2>5. CASE kind = "failure"
    <3>1. Abstract!Refuse(c)
      BY <1>2, <1>5, <1>8, <2>1, <2>3, <2>5, SameAllowed, SameMessages
      DEF Abstract!Refuse, LocalStep, AbstractPhases, AbstractReplies
    <3> QED
      BY <3>1 DEF Abstract!Step
  <2> QED
    BY <2>4, <2>5
<1> QED
  BY <1>3, <1>6, <1>7, <1>8

(* A rebuild takes effect where it begins, a check where it is made. *)
LEMMA LockSteps ==
    ASSUME TypeOK, LockInv, NEW c \in Conns, UnderLock(c) \/ RejectBadSign(c)
    PROVE  Abstract!Step(c)
<1> USE DEF TypeOK, Goto
<1>1. CASE ClearCache(c)
  <2>1. Pending = {} /\ writer = Nobody
    BY <1>1, PendingIsFree DEF ClearCache
  <2>2. (cache \cup Pending)' = KeysOf(resp[c].ids)
    <3>1. \A d \in Conns : todo'[d] = IF d = c THEN KeysOf(resp[c].ids) ELSE {}
      BY <1>1, <2>1, ProxyAssumption DEF ClearCache, LockInv
    <3> QED
      BY <1>1, <3>1 DEF ClearCache, Pending
  <2>3. LocalStep(c, "reply", resp[c]) /\ AbstractPhase(c) = "looked" /\ AbstractReply(c) = resp[c]
    <3>1. AbstractPhase(c)' = "reply" /\ AbstractReply(c)' = resp[c]
      BY <1>1 DEF ClearCache, AbstractPhase, AbstractReply
    <3> QED
      BY <1>1, <3>1, Local DEF ClearCache, AbstractPhase, AbstractReply
  <2>4. Abstract!Admit(c)
    BY <1>1, <2>2, <2>3, SameFilter
    DEF ClearCache, Abstract!Admit, LocalStep, AbstractPhases, AbstractReplies, agentVars
  <2> QED
    BY <2>4 DEF Abstract!Step
<1>2. CASE PermitSign(c)
  <2>1. LocalStep(c, "permitted", AbstractReply(c)) /\ AbstractPhase(c) = "asked"
    <3>1. AbstractPhase(c)' = "permitted" /\ AbstractReply(c)' = AbstractReply(c)
      BY <1>2 DEF PermitSign, AbstractPhase, AbstractReply
    <3> QED
      BY <1>2, <3>1, Local DEF PermitSign, AbstractPhase
  <2>2. req[c].key \in cache \cup Pending \/ Abstract!DirectMatch(req[c].key)
    BY <1>2, SameFilter DEF PermitSign, Allowed
  <2>3. Abstract!Permit(c)
    BY <1>2, <2>1, <2>2, SameAllowed
    DEF PermitSign, Abstract!Permit, LocalStep, AbstractPhases, AbstractReplies, agentVars
  <2> QED
    BY <2>3 DEF Abstract!Step
<1>3. CASE RefuseSign(c) \/ RejectBadSign(c)
  <2>1. LocalStep(c, "reply", Plain("failure")) /\ AbstractPhase(c) = "asked"
    <3>1. AbstractPhase(c)' = "reply" /\ AbstractReply(c)' = Plain("failure")
      BY <1>3 DEF RefuseSign, RejectBadSign, AbstractPhase, AbstractReply
    <3> QED
      BY <1>3, <3>1, Local DEF RefuseSign, RejectBadSign, AbstractPhase
  <2>2. req[c].kind = "sign"
            => ~(req[c].key \in cache \cup Pending \/ Abstract!DirectMatch(req[c].key))
    BY <1>3, SameFilter, PendingIsFree DEF RefuseSign, RejectBadSign, Allowed
  <2>3. Abstract!Refuse(c)
    BY <1>3, <2>1, <2>2, SameAllowed, SameMessages
    DEF RefuseSign, RejectBadSign, Abstract!Refuse, LocalStep, AbstractPhases,
        AbstractReplies, agentVars
  <2> QED
    BY <2>3 DEF Abstract!Step
<1> QED
  BY <1>1, <1>2, <1>3 DEF UnderLock

(* What FilteredAgent does not have: the connection upstream, the filling  *)
(* of the cache, and the release of its lock.                              *)
LEMMA HiddenSteps ==
    ASSUME TypeOK, LockInv, NEW c \in Conns,
           \/ Connect(c) \/ ReceiveIdentities(c) \/ ReceiveOther(c)
           \/ InsertKey(c) \/ Unlock(c)
    PROVE  UNCHANGED Abstract!vars
<1> USE DEF TypeOK, Goto
<1>1. CASE Connect(c)
  BY <1>1, SameAllowed, HiddenIsStutter
  DEF Connect, Hidden, AbstractPhase, AbstractReply, agentVars
<1>2. CASE ReceiveIdentities(c)
  <2>1. resp'[c] = Identities(Admitted(resp[c].ids))
    <3>1. resp[c] \in [kind : ReplyKind, ids : SUBSET Identity]
      BY <1>2 DEF ReceiveIdentities, Replies, NoReply
    <3> QED
      BY <1>2, <3>1 DEF ReceiveIdentities, Identities
  <2>2. AbstractPhase(c)' = AbstractPhase(c) /\ AbstractReply(c)' = AbstractReply(c)
    BY <1>2, <2>1 DEF ReceiveIdentities, AbstractPhase, AbstractReply
  <2> QED
    BY <1>2, <2>2, SameAllowed, HiddenIsStutter DEF ReceiveIdentities, Hidden, agentVars
<1>3. CASE ReceiveOther(c)
  <2>1. AbstractPhase(c)' = AbstractPhase(c) /\ AbstractReply(c)' = AbstractReply(c)
    BY <1>3 DEF ReceiveOther, AbstractPhase, AbstractReply
  <2> QED
    BY <1>3, <2>1, SameAllowed, HiddenIsStutter DEF ReceiveOther, Hidden, agentVars
<1>4. CASE InsertKey(c)
  <2>1. (cache \cup Pending)' = cache \cup Pending
    <3>1. PICK k \in todo[c] :
              cache' = cache \cup {k} /\ todo' = [todo EXCEPT ![c] = @ \ {k}]
      BY <1>4 DEF InsertKey
    <3> QED
      BY <3>1 DEF Pending
  <2>2. AbstractPhase(c)' = AbstractPhase(c) /\ AbstractReply(c)' = AbstractReply(c)
    BY <1>4 DEF InsertKey, AbstractPhase, AbstractReply
  <2> QED
    BY <1>4, <2>1, <2>2, HiddenIsStutter DEF InsertKey, Hidden, agentVars
<1>5. CASE Unlock(c)
  <2>1. AbstractPhase(c)' = AbstractPhase(c) /\ AbstractReply(c)' = AbstractReply(c)
    BY <1>5 DEF Unlock, AbstractPhase, AbstractReply
  <2>2. (cache \cup Pending)' = cache \cup Pending
    BY <1>5 DEF Unlock, Pending
  <2> QED
    BY <1>5, <2>1, <2>2, HiddenIsStutter DEF Unlock, Hidden, agentVars
<1> QED
  BY <1>1, <1>2, <1>3, <1>4, <1>5

LEMMA InitRefines == Init => Abstract!Init
<1> SUFFICES ASSUME Init PROVE Abstract!Init
  OBVIOUS
<1>1. cache \cup Pending = {}
  BY DEF Init, Pending
<1>2. \A c \in Conns : AbstractPhase(c) = "closed" /\ AbstractReply(c) = NoReply
  BY DEF Init, AbstractPhase, AbstractReply
<1> QED
  BY <1>1, <1>2, SameMessages DEF Init, Abstract!Init

LEMMA StepRefines == RInv /\ [Next]_vars => [Abstract!Next]_Abstract!vars
<1> SUFFICES ASSUME RInv, [Next]_vars PROVE Abstract!Next \/ UNCHANGED Abstract!vars
  OBVIOUS
<1> USE DEF RInv
<1>1. CASE AgentChanges
  <2>1. held' \in Holdings /\ UNCHANGED <<cache, todo, pc, req, resp>>
    BY <1>1 DEF AgentChanges
  <2>2. Abstract!Change
    BY <2>1 DEF Abstract!Change, Pending, AbstractPhase, AbstractReply
  <2> QED
    BY <2>2 DEF Abstract!Next
<1>2. CASE Restart
  <2>1. (cache \cup Pending)' = {}
    BY <1>2 DEF Restart, Pending
  <2>2. \A c \in Conns : AbstractPhase(c)' = "closed" /\ AbstractReply(c)' = NoReply
    BY <1>2 DEF Restart, AbstractPhase, AbstractReply
  <2>3. Abstract!Restart
    BY <1>2, <2>1, <2>2, SameMessages DEF Restart, Abstract!Restart
  <2> QED
    BY <2>3 DEF Abstract!Next
<1>3. ASSUME NEW c \in Conns,
             Client(c) \/ UpstreamAnswers(c) \/ Proceed(c) \/ UnderLock(c)
      PROVE  Abstract!Next \/ UNCHANGED Abstract!vars
  <2>1. CASE CloseConn(c)
    BY <2>1, CloseIsClose DEF Abstract!Next, Abstract!Step
  <2>2. CASE Accept(c) \/ ReadRequest(c) \/ WriteReply(c)
    BY <2>2, ClientSteps DEF Abstract!Next
  <2>3. CASE UpstreamAnswers(c)
    BY <2>3, UpstreamSteps DEF Abstract!Next
  <2>4. CASE UnderLock(c) \/ RejectBadSign(c)
    BY <2>4, LockSteps DEF Abstract!Next
  <2>5. CASE Connect(c) \/ ReceiveIdentities(c) \/ ReceiveOther(c) \/ InsertKey(c) \/ Unlock(c)
    BY <2>5, HiddenSteps
  <2> QED
    BY <1>3, <2>1, <2>2, <2>3, <2>4, <2>5
    DEF Client, ClientLeaves, Proceed, Unaided, ConnectFails, RequestFails, WriteFails
<1>4. CASE UNCHANGED vars
  BY <1>4 DEF vars, Abstract!vars, Pending, AbstractPhase, AbstractReply
<1> QED
  BY <1>1, <1>2, <1>3, <1>4 DEF Next

(***************************************************************************)
(* What clients of the proxy can see is what FilteredAgent lets them see,  *)
(* for any number of connections, any keys, any filter and any agent.      *)
(***************************************************************************)
THEOREM Refinement == Spec => Implements
<1>1. Spec => [][Abstract!Next]_Abstract!vars
  BY StepRefines, RefinementInvariance, PTL DEF Spec
<1> QED
  BY <1>1, InitRefines, PTL DEF Spec, Implements, Abstract!Spec
=============================================================================
