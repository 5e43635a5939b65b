------------------------------- MODULE Filter -------------------------------
(***************************************************************************)
(* The filter rules of src/filter: which identities (a public key and the  *)
(* comment the agent reports with it) a socket lets through.               *)
(*                                                                         *)
(* A pattern, a file of keys or a list fetched from GitHub matters only by *)
(* the keys, algorithms or comments it selects: that set is the rule's     *)
(* "arg".  Groups and rules are sets, since `any` and `all` do not depend  *)
(* on order or repetition.                                                 *)
(***************************************************************************)

CONSTANTS
    Keys,          \* public key blobs
    Comments,      \* the comments an agent may report
    EmptyComment,  \* String::new()
    Algos,         \* normalised key types ("ed25519", "rsa", ...)
    NoAlgo,        \* of a blob that does not decode as a public key
    Algo,          \* the key type of each blob
    Groups         \* the filters of one socket: groups (OR) of rules (AND)

Identity == [key : Keys, comment : Comments]

KeyFilters == {"pubkey", "keyfile", "github"}

FilterKind == KeyFilters \cup {"fingerprint", "type", "comment"}

Rule == [kind : FilterKind,
         arg : SUBSET Keys \cup SUBSET Algos \cup SUBSET Comments,
         negated : BOOLEAN]

ASSUME FilterAssumption ==
    /\ EmptyComment \in Comments
    /\ NoAlgo \notin Algos
    /\ Algo \in [Keys -> Algos \cup {NoAlgo}]
    /\ Groups \subseteq SUBSET Rule

(***************************************************************************)
(* Filter::matches.  Pubkey, keyfile and github rules compare the blob; a  *)
(* fingerprint or a type exists only for a blob that decodes.              *)
(***************************************************************************)
FilterMatches(rule, id) ==
    \/ rule.kind \in KeyFilters /\ id.key \in rule.arg
    \/ rule.kind = "fingerprint" /\ Algo[id.key] # NoAlgo /\ id.key \in rule.arg
    \/ rule.kind = "type" /\ Algo[id.key] # NoAlgo /\ Algo[id.key] \in rule.arg
    \/ rule.kind = "comment" /\ id.comment \in rule.arg

(* FilterRule::matches *)
RuleMatches(rule, id) ==
    IF rule.negated THEN ~FilterMatches(rule, id) ELSE FilterMatches(rule, id)

(* FilterGroup::matches: a group without rules matches every identity. *)
GroupMatches(group, id) == \A rule \in group : RuleMatches(rule, id)

(* FilterEvaluator::matches: no group at all matches every identity. *)
Matches(id) == Groups = {} \/ \E group \in Groups : GroupMatches(group, id)

KeysOf(ids) == {id.key : id \in ids}

Admitted(ids) == {id \in ids : Matches(id)}

(* The identity handle_sign_request builds: the comment is not known. *)
DirectMatch(key) == Matches([key |-> key, comment |-> EmptyComment])

(***************************************************************************)
(* Filters for which guessing an empty comment errs on one side only: no   *)
(* comment rule, negation included, holds of the empty comment.            *)
(***************************************************************************)
CommentRulesRejectEmpty ==
    \A group \in Groups : \A rule \in group :
        rule.kind = "comment" => (rule.negated <=> EmptyComment \in rule.arg)
=============================================================================
