----------------------------- MODULE RuleLoading -----------------------------
(***************************************************************************)
(* The keys behind the rules github=USER and keyfile=FILE: the matchers of *)
(* filter/github.rs and filter/keyfile.rs, and the calls that load them,   *)
(* parse, ensure_loaded and reload of filter/evaluator.rs.  The tasks      *)
(* share one evaluator, clones of which share their lists of keys.         *)
(*                                                                         *)
(* A list of keys is represented by the time at which its source had it.   *)
(* A step that does not wait takes no time: see Tick.                      *)
(***************************************************************************)
EXTENDS Naturals

CONSTANTS
    Tasks,
    NRules,          \* the rules of all groups, numbered in their order
    GitHub,          \* rules github=USER; the others are keyfile=FILE
    CacheTtl,        \* cache_ttl
    RequestTimeout,  \* DEFAULT_TIMEOUT, of a whole request
    MaxTime,         \* bound: the clock stops here
    None

Rules == 1..NRules

ASSUME RuleLoadingAssumption ==
    /\ NRules \in Nat
    /\ GitHub \subseteq Rules
    /\ CacheTtl \in Nat /\ RequestTimeout \in Nat \ {0} /\ MaxTime \in Nat
    /\ None \notin Nat

VARIABLES
    now,
    built,     \* whether the evaluator exists
    list,      \* per rule: `matchers`
    stamp,     \* per rule: `cache_time`
    fetching,  \* per rule: the flag
    pc,        \* per task: the next step of its call
    op,        \* per task: the call
    at,        \* per task: the rule it is at
    asked,     \* per task: when its download began
    held,      \* per task: the list it has read and not stored yet
    began,     \* history: when the call began
    alone      \* history: the calls that no other has overlapped

sharedVars == <<built, list, stamp, fetching>>
taskVars == <<pc, op, at, asked, held>>
historyVars == <<began, alone>>
vars == <<now, sharedVars, taskVars, historyVars>>

Times == 0..MaxTime
Ops == {"none", "parse", "ensure", "reload"}

(* Behind the flag: the body of fetch_keys. *)
Fetching == {"download", "list", "stamp", "release"}

TypeOK ==
    /\ now \in Times
    /\ built \in BOOLEAN
    /\ list \in [Rules -> Times \cup {None}]
    /\ stamp \in [Rules -> Times \cup {None}]
    /\ fetching \in [Rules -> BOOLEAN]
    /\ pc \in [Tasks -> {"idle", "rule", "claim", "store"} \cup Fetching]
    /\ op \in [Tasks -> Ops]
    /\ at \in [Tasks -> 0..(NRules + 1)]
    /\ \A t \in Tasks : /\ pc[t] \in Fetching \cup {"claim"} => at[t] \in GitHub
                        /\ pc[t] = "store" => at[t] \in Rules \ GitHub
                        \* Only ensure_loaded looks at the cache; parse does not download.
                        /\ pc[t] = "claim" => op[t] = "ensure"
                        /\ pc[t] \in Fetching => op[t] \in {"ensure", "reload"}
    /\ asked \in [Tasks -> Times] /\ held \in [Tasks -> Times]
    /\ began \in [Tasks -> Times] /\ alone \in SUBSET Tasks

Init ==
    /\ now = 0
    /\ built = FALSE
    /\ list = [r \in Rules |-> None] /\ stamp = [r \in Rules |-> None]
    /\ fetching = [r \in Rules |-> FALSE]
    /\ pc = [t \in Tasks |-> "idle"] /\ op = [t \in Tasks |-> "none"]
    /\ at = [t \in Tasks |-> 0]
    /\ asked = [t \in Tasks |-> 0] /\ held = [t \in Tasks |-> 0]
    /\ began = [t \in Tasks |-> 0] /\ alone = {}

-----------------------------------------------------------------------------
(***************************************************************************)
(* Calls.                                                                  *)
(***************************************************************************)
(* Nothing can be called before parse has returned the evaluator. *)
Begin(t, call) ==
    /\ pc[t] = "idle"
    /\ IF built THEN call # "parse"
                ELSE call = "parse" /\ \A u \in Tasks : pc[u] = "idle"
    /\ pc' = [pc EXCEPT ![t] = "rule"]
    /\ op' = [op EXCEPT ![t] = call]
    /\ at' = [at EXCEPT ![t] = 1]
    /\ began' = [began EXCEPT ![t] = now]
    /\ alone' = IF \A u \in Tasks : pc[u] = "idle" THEN {t} ELSE {}
    /\ UNCHANGED <<now, sharedVars, asked, held>>

Leave(t) ==
    /\ pc' = [pc EXCEPT ![t] = "idle"]
    /\ op' = [op EXCEPT ![t] = "none"]
    /\ at' = [at EXCEPT ![t] = 0]
    /\ asked' = [asked EXCEPT ![t] = 0]
    /\ held' = [held EXCEPT ![t] = 0]
    /\ began' = [began EXCEPT ![t] = 0]
    /\ alone' = alone \ {t}

(* The loops over groups and rules. *)
NextRule(t) ==
    /\ pc' = [pc EXCEPT ![t] = "rule"]
    /\ at' = [at EXCEPT ![t] = @ + 1]
    /\ UNCHANGED <<op, asked, held, historyVars>>

(* All rules are done: the call returns Ok(()). *)
Succeeds(t) == pc[t] = "rule" /\ at[t] = NRules + 1

Return(t) ==
    /\ Succeeds(t)
    /\ built' = TRUE
    /\ Leave(t)
    /\ UNCHANGED <<now, list, stamp, fetching>>

(* `?`, the rest of the rules is left as it is.  Without an evaluator, for *)
(* an error of parse, the next one starts from the beginning.              *)
Fail(t) ==
    /\ Leave(t)
    /\ list' = IF built THEN list ELSE [r \in Rules |-> None]
    /\ UNCHANGED <<now, built, stamp>>

-----------------------------------------------------------------------------
(***************************************************************************)
(* KeyfileMatcher: new and reload.                                         *)
(***************************************************************************)
AtRule(t) == pc[t] = "rule" /\ at[t] \in Rules
AtFile(t) == AtRule(t) /\ at[t] \notin GitHub

(* load_keys *)
ReadFile(t) ==
    /\ AtFile(t)
    /\ held' = [held EXCEPT ![t] = now]
    /\ pc' = [pc EXCEPT ![t] = "store"]
    /\ UNCHANGED <<now, sharedVars, op, at, asked, historyVars>>

(* Mutant: ensure_loaded ignores the error of a key file. *)
ReadFailsUnnoticed(t) ==
    /\ AtFile(t)
    /\ NextRule(t)
    /\ UNCHANGED <<now, sharedVars>>

ReadFails(t) ==
    /\ AtFile(t)
    /\ Fail(t)
    /\ UNCHANGED fetching

StoreFile(t) ==
    /\ pc[t] = "store"
    /\ list' = [list EXCEPT ![at[t]] = held[t]]
    /\ NextRule(t)
    /\ UNCHANGED <<now, built, stamp, fetching>>

-----------------------------------------------------------------------------
(***************************************************************************)
(* GitHubKeysMatcher.                                                      *)
(***************************************************************************)
AtGitHub(t) == AtRule(t) /\ at[t] \in GitHub

(* GitHubKeysMatcher::new loads nothing. *)
NewMatcher(t) ==
    /\ AtGitHub(t) /\ op[t] = "parse"
    /\ NextRule(t)
    /\ UNCHANGED <<now, sharedVars>>

Valid(r) == stamp[r] # None /\ now - stamp[r] < CacheTtl

(* try_read fails while somebody writes cache_time. *)
Locked(r) == \E u \in Tasks : at[u] = r /\ pc[u] = "stamp"

(* is_cache_valid holds. *)
SkipValid(t) ==
    /\ AtGitHub(t) /\ op[t] = "ensure"
    /\ Valid(at[t])
    /\ NextRule(t)
    /\ UNCHANGED <<now, sharedVars>>

(* Mutant: reload goes by the cache, like ensure_loaded. *)
FindInvalidReload(t) ==
    /\ AtGitHub(t) /\ op[t] # "parse"
    /\ ~Valid(at[t]) \/ Locked(at[t])
    /\ pc' = [pc EXCEPT ![t] = "claim"]
    /\ UNCHANGED <<now, sharedVars, op, at, asked, held, historyVars>>

FindInvalid(t) ==
    /\ AtGitHub(t) /\ op[t] = "ensure"
    /\ ~Valid(at[t]) \/ Locked(at[t])
    /\ pc' = [pc EXCEPT ![t] = "claim"]
    /\ UNCHANGED <<now, sharedVars, op, at, asked, held, historyVars>>

(* compare_exchange *)
AtClaim(t) == pc[t] = "claim" \/ (AtGitHub(t) /\ op[t] = "reload")

(* Mutant: the flag is not looked at. *)
ClaimAnyway(t) ==
    /\ AtClaim(t)
    /\ fetching' = [fetching EXCEPT ![at[t]] = TRUE]
    /\ pc' = [pc EXCEPT ![t] = "download"]
    /\ asked' = [asked EXCEPT ![t] = now]
    /\ UNCHANGED <<now, built, list, stamp, op, at, held, historyVars>>

Claim(t) ==
    /\ AtClaim(t) /\ ~fetching[at[t]]
    /\ fetching' = [fetching EXCEPT ![at[t]] = TRUE]
    /\ pc' = [pc EXCEPT ![t] = "download"]
    /\ asked' = [asked EXCEPT ![t] = now]
    /\ UNCHANGED <<now, built, list, stamp, op, at, held, historyVars>>

(* "already in progress": Ok(()), whatever is loaded by now. *)
SkipClaimed(t) ==
    /\ AtClaim(t) /\ fetching[at[t]]
    /\ NextRule(t)
    /\ UNCHANGED <<now, sharedVars>>

(* Mutant: cache_time is written before the list. *)
DownloadedStamped(t) ==
    /\ pc[t] = "download"
    /\ \E seen \in asked[t]..now : held' = [held EXCEPT ![t] = seen]
    /\ stamp' = [stamp EXCEPT ![at[t]] = now]
    /\ pc' = [pc EXCEPT ![t] = "list"]
    /\ UNCHANGED <<now, built, list, fetching, op, at, asked, historyVars>>

(* The answer shows the keys at some time since the request. *)
Downloaded(t) ==
    /\ pc[t] = "download"
    /\ \E seen \in asked[t]..now : held' = [held EXCEPT ![t] = seen]
    /\ pc' = [pc EXCEPT ![t] = "list"]
    /\ UNCHANGED <<now, sharedVars, op, at, asked, historyVars>>

(* scopeguard *)
ClearFlag(t) == fetching' = [fetching EXCEPT ![at[t]] = FALSE]

(* Mutant: the flag is cleared on success only. *)
DownloadFailsFlagged(t) ==
    /\ pc[t] = "download"
    /\ Fail(t)
    /\ UNCHANGED fetching

(* No connection, another status than success, or the timeout. *)
DownloadFails(t) ==
    /\ pc[t] = "download"
    /\ Fail(t)
    /\ ClearFlag(t)

WriteList(t) ==
    /\ pc[t] = "list"
    /\ list' = [list EXCEPT ![at[t]] = held[t]]
    /\ pc' = [pc EXCEPT ![t] = "stamp"]
    /\ UNCHANGED <<now, built, stamp, fetching, op, at, asked, held, historyVars>>

WriteStamp(t) ==
    /\ pc[t] = "stamp"
    /\ stamp' = [stamp EXCEPT ![at[t]] = now]
    /\ pc' = [pc EXCEPT ![t] = "release"]
    /\ UNCHANGED <<now, built, list, fetching, op, at, asked, held, historyVars>>

Release(t) ==
    /\ pc[t] = "release"
    /\ ClearFlag(t)
    /\ NextRule(t)
    /\ UNCHANGED <<now, built, list, stamp>>

(* The future is dropped while it waits for the answer or for a lock. *)
Cancel(t) ==
    /\ pc[t] \in {"download", "list", "stamp"}
    /\ ClearFlag(t)
    /\ Leave(t)
    /\ UNCHANGED <<now, built, list, stamp>>

-----------------------------------------------------------------------------
(* Time passes while files are read and answers are waited for, for the     *)
(* latter not too long.  It does not at "list" and "stamp": who holds      *)
(* either lock gives it back without waiting for anything.                 *)
Tick ==
    /\ now < MaxTime
    /\ \A t \in Tasks : \/ pc[t] \in {"idle", "store"}
                        \/ pc[t] = "download" /\ now - asked[t] < RequestTimeout
    /\ now' = now + 1
    /\ UNCHANGED <<sharedVars, taskVars, historyVars>>

Step(t) ==
    \/ \E call \in Ops \ {"none"} : Begin(t, call)
    \/ Return(t) \/ ReadFile(t) \/ ReadFails(t) \/ StoreFile(t)
    \/ NewMatcher(t) \/ SkipValid(t) \/ FindInvalid(t)
    \/ Claim(t) \/ SkipClaimed(t) \/ Downloaded(t) \/ DownloadFails(t)
    \/ WriteList(t) \/ WriteStamp(t) \/ Release(t) \/ Cancel(t)

Next == Tick \/ \E t \in Tasks : Step(t)

Spec == Init /\ [][Next]_vars

-----------------------------------------------------------------------------
(***************************************************************************)
(* Properties.                                                             *)
(***************************************************************************)
Fetches(t, r) == at[t] = r /\ pc[t] \in Fetching

(***************************************************************************)
(* "Flag to prevent thundering herd": at most one task downloads the keys  *)
(* of a user.  And the flag is never left set by a call that has failed or *)
(* was dropped: the list could not be loaded ever again.                   *)
(***************************************************************************)
FlagHasOneOwner ==
    \A r \in GitHub :
        /\ fetching[r] <=> \E t \in Tasks : Fetches(t, r)
        /\ \A t, u \in Tasks : Fetches(t, r) /\ Fetches(u, r) => t = u

(***************************************************************************)
(* What is_cache_valid promises: GitHub had the list that is matched       *)
(* against no longer ago than cache_ttl and the time of one request.       *)
(***************************************************************************)
ValidIsFresh ==
    \A r \in GitHub : Valid(r) =>
        list[r] # None /\ now < list[r] + CacheTtl + RequestTimeout

(***************************************************************************)
(* A list from GitHub is never replaced by an older one, however calls     *)
(* overlap, fail and are dropped.  (It is not so for key files: README.)   *)
(***************************************************************************)
ListNeverAges ==
    [][\A r \in GitHub : list[r] # None => list'[r] # None /\ list'[r] >= list[r]]_vars

(***************************************************************************)
(* What run::execute relies on when it binds a socket behind parse and     *)
(* ensure_loaded: a call that returns Ok(()), and that no other call has   *)
(* overlapped, has loaded every rule.  After reload no list is older than  *)
(* the call; after ensure_loaded no key file is, and no list from GitHub   *)
(* by more than its cache allows.                                          *)
(***************************************************************************)
CallTakesEffect ==
    \A t \in alone : Succeeds(t) => \A r \in Rules :
        \/ op[t] = "parse" /\ r \in GitHub
        \/ /\ list[r] # None
           /\ IF op[t] = "ensure" /\ r \in GitHub
              THEN began[t] < list[r] + CacheTtl + RequestTimeout
              ELSE began[t] <= list[r]
=============================================================================
