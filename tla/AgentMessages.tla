---------------------------- MODULE AgentMessages ----------------------------
(***************************************************************************)
(* The agent protocol messages the proxy tells apart (process_request), and *)
(* what an answer from the upstream agent can be to it.                    *)
(***************************************************************************)
EXTENDS Filter

CONSTANT NoKey

ASSUME NoKeyAssumption == NoKey \notin Keys

(***************************************************************************)
(* REQUEST_IDENTITIES, a SIGN_REQUEST that parses and names a key, one     *)
(* that does not parse, and every other message, which is passed through.  *)
(***************************************************************************)
ListRequest == [kind |-> "list", key |-> NoKey]
SignRequest(k) == [kind |-> "sign", key |-> k]
BadSignRequest == [kind |-> "badsign", key |-> NoKey]
OtherRequest == [kind |-> "other", key |-> NoKey]

Requests ==
    {ListRequest, BadSignRequest, OtherRequest} \cup {SignRequest(k) : k \in Keys}

NoRequest == [kind |-> "none", key |-> NoKey]

(***************************************************************************)
(* "garbled" is an IDENTITIES_ANSWER that parse_identities rejects.  Only  *)
(* an "identities" answer carries identities.                              *)
(***************************************************************************)
ReplyKind == {"identities", "garbled", "signature", "success", "failure"}

Replies == [kind : ReplyKind, ids : SUBSET Identity]

Identities(ids) == [kind |-> "identities", ids |-> ids]
Plain(kind) == [kind |-> kind, ids |-> {}]

NoReply == [kind |-> "none", ids |-> {}]
=============================================================================
