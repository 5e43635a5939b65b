-------------------------- MODULE RuleLoadingProofs --------------------------
(***************************************************************************)
(* Theorems about RuleLoading, for any number of tasks and rules, any      *)
(* cache_ttl and any timeout.                                              *)
(***************************************************************************)
EXTENDS RuleLoading, TLAPS

(***************************************************************************)
(* The inductive invariant.  The promises about an age rest on what every  *)
(* task holds in the middle of a download, and on the flag: while it is    *)
(* set, the list of the rule belongs to one task.                          *)
(***************************************************************************)
(* Only an evaluator that exists is refreshed; parse does not download. *)
BuiltInv ==
    /\ \A t \in Tasks : op[t] \in {"ensure", "reload"} => built
    /\ \A r \in GitHub : stamp[r] # None => list[r] # None
    /\ \A r \in GitHub : list[r] # None => built

(* Nothing is known of the future. *)
TimeInv ==
    /\ \A r \in Rules : list[r] # None => list[r] <= now
    /\ \A r \in Rules : stamp[r] # None => stamp[r] <= now
    /\ \A t \in Tasks : asked[t] <= now /\ held[t] <= now /\ began[t] <= now

(* A download takes no longer than the timeout, and what it brings is no   *)
(* older than its beginning, hence no older than the list it replaces.     *)
FetchInv ==
    \A t \in Tasks :
        /\ pc[t] = "store" => began[t] <= held[t]
        /\ pc[t] \in Fetching => began[t] <= asked[t]
        /\ pc[t] = "download" =>
              /\ now <= asked[t] + RequestTimeout
              /\ (list[at[t]] # None => list[at[t]] <= asked[t])
        /\ pc[t] \in {"list", "stamp", "release"} => asked[t] <= held[t]
        /\ pc[t] \in {"list", "stamp"} => now <= held[t] + RequestTimeout
        /\ pc[t] = "list" => (list[at[t]] # None => list[at[t]] <= held[t])
        /\ pc[t] \in {"stamp", "release"} => list[at[t]] = held[t]

(* A list was stored no later than one request behind its time. *)
StampInv == \A r \in GitHub : stamp[r] # None => stamp[r] <= list[r] + RequestTimeout

(* What the call of t has done for rule r, when it is past it. *)
Loaded(t, r) ==
    \/ op[t] = "parse" /\ r \in GitHub
    \/ /\ list[r] # None
       /\ IF op[t] = "ensure" /\ r \in GitHub
          THEN began[t] < list[r] + CacheTtl + RequestTimeout
          ELSE began[t] <= list[r]

AloneInv ==
    \A t \in alone :
        /\ pc[t] # "idle"
        /\ \A u \in Tasks : u # t => pc[u] = "idle"
        /\ \A r \in Rules : r < at[t] => Loaded(t, r)

IInv == TypeOK /\ FlagHasOneOwner /\ BuiltInv /\ TimeInv /\ FetchInv /\ StampInv /\ AloneInv

-----------------------------------------------------------------------------
(***************************************************************************)
(* Each part holds at first and is kept by every step.                     *)
(***************************************************************************)
LEMMA Begins == Init => IInv
<1> SUFFICES ASSUME Init PROVE IInv
  OBVIOUS
<1> USE RuleLoadingAssumption DEF Init
<1>1. TypeOK
  <2>1. 0 \in Times /\ 0 \in 0..(NRules + 1)
    BY DEF Times
  <2>2. list \in [Rules -> Times \cup {None}] /\ stamp \in [Rules -> Times \cup {None}]
    OBVIOUS
  <2>3. pc \in [Tasks -> {"idle", "rule", "claim", "store"} \cup Fetching] /\ op \in [Tasks -> Ops]
    BY DEF Ops
  <2> QED
    BY <2>1, <2>2, <2>3 DEF TypeOK, Fetching
<1>2. FlagHasOneOwner
  BY DEF FlagHasOneOwner, Fetches, Fetching
<1>3. BuiltInv /\ TimeInv
  BY DEF BuiltInv, TimeInv, Fetching, Rules
<1>4. FetchInv /\ StampInv /\ AloneInv
  BY DEF FetchInv, StampInv, AloneInv, Fetching
<1> QED
  BY <1>1, <1>2, <1>3, <1>4 DEF IInv

(* Every variable keeps its type. *)
LEMMA TypeKept == TypeOK /\ [Next]_vars => TypeOK'
<1> SUFFICES ASSUME TypeOK, [Next]_vars PROVE TypeOK'
  OBVIOUS
<1> USE RuleLoadingAssumption DEF TypeOK, Times, Ops, Rules, Fetching
<1>1. CASE UNCHANGED vars
  BY <1>1 DEF vars, sharedVars, taskVars, historyVars
<1>2. CASE Tick
  BY <1>2 DEF Tick, sharedVars, taskVars, historyVars
<1>3. ASSUME NEW t \in Tasks, Step(t) PROVE TypeOK'
  <2>1. ASSUME NEW call \in Ops \ {"none"}, Begin(t, call) PROVE TypeOK'
    <3>1. UNCHANGED <<now, built, list, stamp, fetching, asked, held>>
      BY <2>1 DEF Begin, sharedVars
    <3>2. /\ pc' = [pc EXCEPT ![t] = "rule"] /\ op' = [op EXCEPT ![t] = call]
          /\ at' = [at EXCEPT ![t] = 1] /\ began' = [began EXCEPT ![t] = now]
          /\ alone' \in SUBSET Tasks
      BY <2>1 DEF Begin
    <3>3. 1 \in 0..(NRules + 1)
      OBVIOUS
    <3> QED
      BY <3>1, <3>2, <3>3
  <2>2. CASE Return(t)
    BY <2>2 DEF Return, Succeeds, Leave, sharedVars, historyVars
  <2>3. CASE ReadFile(t)
    BY <2>3 DEF ReadFile, AtFile, AtRule, sharedVars, historyVars
  <2>4. CASE ReadFails(t)
    BY <2>4 DEF ReadFails, AtFile, AtRule, Fail, Leave, sharedVars, historyVars
  <2>5. CASE StoreFile(t)
    BY <2>5 DEF StoreFile, NextRule, sharedVars, historyVars
  <2>6. CASE NewMatcher(t)
    BY <2>6 DEF NewMatcher, AtGitHub, AtRule, NextRule, sharedVars, historyVars
  <2>7. CASE SkipValid(t)
    BY <2>7 DEF SkipValid, AtGitHub, AtRule, NextRule, sharedVars, historyVars
  <2>8. CASE FindInvalid(t)
    BY <2>8 DEF FindInvalid, AtGitHub, AtRule, sharedVars, historyVars
  <2>9. CASE Claim(t)
    BY <2>9 DEF Claim, AtClaim, AtGitHub, AtRule, sharedVars, historyVars
  <2>10. CASE SkipClaimed(t)
    BY <2>10 DEF SkipClaimed, AtClaim, AtGitHub, AtRule, NextRule, sharedVars,
       historyVars
  <2>11. CASE Downloaded(t)
    BY <2>11 DEF Downloaded, sharedVars, historyVars
  <2>12. CASE DownloadFails(t)
    BY <2>12 DEF DownloadFails, Fail, Leave, ClearFlag, sharedVars, historyVars
  <2>13. CASE WriteList(t)
    BY <2>13 DEF WriteList, sharedVars, historyVars
  <2>14. CASE WriteStamp(t)
    BY <2>14 DEF WriteStamp, sharedVars, historyVars
  <2>15. CASE Release(t)
    BY <2>15 DEF Release, ClearFlag, NextRule, sharedVars, historyVars
  <2>16. CASE Cancel(t)
    BY <2>16 DEF Cancel, ClearFlag, Leave, sharedVars, historyVars
  <2> QED
    BY <1>3, <2>1, <2>2, <2>3, <2>4, <2>5, <2>6, <2>7, <2>8, <2>9, <2>10, <2>11,
       <2>12, <2>13, <2>14, <2>15, <2>16 DEF Step
<1> QED
  BY <1>1, <1>2, <1>3 DEF Next

(* A task sets the flag when it begins a download, and clears it however   *)
(* that ends.                                                              *)
LEMMA FlagKept == TypeOK /\ FlagHasOneOwner /\ [Next]_vars => FlagHasOneOwner'
<1> SUFFICES ASSUME TypeOK /\ FlagHasOneOwner, [Next]_vars PROVE FlagHasOneOwner'
  OBVIOUS
<1> USE RuleLoadingAssumption DEF TypeOK, FlagHasOneOwner, Fetches, Fetching
<1>1. CASE UNCHANGED vars
  BY <1>1 DEF vars, sharedVars, taskVars, historyVars
<1>2. CASE Tick
  BY <1>2 DEF Tick, sharedVars, taskVars, historyVars
<1>3. ASSUME NEW t \in Tasks, Step(t) PROVE FlagHasOneOwner'
  <2>1. ASSUME NEW call \in Ops \ {"none"}, Begin(t, call) PROVE FlagHasOneOwner'
    BY <2>1 DEF Begin, sharedVars
  <2>2. CASE Return(t)
    BY <2>2 DEF Return, Succeeds, Leave, sharedVars, historyVars
  <2>3. CASE ReadFile(t)
    BY <2>3 DEF ReadFile, AtFile, AtRule, sharedVars, historyVars
  <2>4. CASE ReadFails(t)
    BY <2>4 DEF ReadFails, AtFile, AtRule, Fail, Leave, sharedVars, historyVars
  <2>5. CASE StoreFile(t)
    BY <2>5 DEF StoreFile, NextRule, sharedVars, historyVars
  <2>6. CASE NewMatcher(t)
    BY <2>6 DEF NewMatcher, AtGitHub, AtRule, NextRule, sharedVars, historyVars
  <2>7. CASE SkipValid(t)
    BY <2>7 DEF SkipValid, AtGitHub, AtRule, NextRule, sharedVars, historyVars
  <2>8. CASE FindInvalid(t)
    BY <2>8 DEF FindInvalid, AtGitHub, AtRule, sharedVars, historyVars
  <2>9. CASE Claim(t)
    BY <2>9 DEF Claim, AtClaim, AtGitHub, AtRule, sharedVars, historyVars
  <2>10. CASE SkipClaimed(t)
    BY <2>10 DEF SkipClaimed, AtClaim, AtGitHub, AtRule, NextRule, sharedVars,
       historyVars
  <2>11. CASE Downloaded(t)
    BY <2>11 DEF Downloaded, sharedVars, historyVars
  <2>12. CASE DownloadFails(t)
    BY <2>12 DEF DownloadFails, Fail, Leave, ClearFlag, sharedVars, historyVars
  <2>13. CASE WriteList(t)
    BY <2>13 DEF WriteList, sharedVars, historyVars
  <2>14. CASE WriteStamp(t)
    BY <2>14 DEF WriteStamp, sharedVars, historyVars
  <2>15. CASE Release(t)
    BY <2>15 DEF Release, ClearFlag, NextRule, sharedVars, historyVars
  <2>16. CASE Cancel(t)
    BY <2>16 DEF Cancel, ClearFlag, Leave, sharedVars, historyVars
  <2> QED
    BY <1>3, <2>1, <2>2, <2>3, <2>4, <2>5, <2>6, <2>7, <2>8, <2>9, <2>10, <2>11,
       <2>12, <2>13, <2>14, <2>15, <2>16 DEF Step
<1> QED
  BY <1>1, <1>2, <1>3 DEF Next

(* Only Return makes the evaluator, and parse downloads nothing. *)
LEMMA BuiltKept == TypeOK /\ FetchInv /\ BuiltInv /\ [Next]_vars => BuiltInv'
<1> SUFFICES ASSUME TypeOK /\ FetchInv /\ BuiltInv, [Next]_vars PROVE BuiltInv'
  OBVIOUS
<1> USE RuleLoadingAssumption DEF TypeOK, Times, Ops, Rules, BuiltInv, FetchInv,
        Fetching
<1>1. CASE UNCHANGED vars
  BY <1>1 DEF vars, sharedVars, taskVars, historyVars
<1>2. CASE Tick
  BY <1>2 DEF Tick, sharedVars, taskVars, historyVars
<1>3. ASSUME NEW t \in Tasks, Step(t) PROVE BuiltInv'
  <2>1. ASSUME NEW call \in Ops \ {"none"}, Begin(t, call) PROVE BuiltInv'
    BY <2>1 DEF Begin, sharedVars
  <2>2. CASE Return(t)
    BY <2>2 DEF Return, Succeeds, Leave, sharedVars, historyVars
  <2>3. CASE ReadFile(t)
    BY <2>3 DEF ReadFile, AtFile, AtRule, sharedVars, historyVars
  <2>4. CASE ReadFails(t)
    BY <2>4 DEF ReadFails, AtFile, AtRule, Fail, Leave, sharedVars, historyVars
  <2>5. CASE StoreFile(t)
    BY <2>5 DEF StoreFile, NextRule, sharedVars, historyVars
  <2>6. CASE NewMatcher(t)
    BY <2>6 DEF NewMatcher, AtGitHub, AtRule, NextRule, sharedVars, historyVars
  <2>7. CASE SkipValid(t)
    BY <2>7 DEF SkipValid, AtGitHub, AtRule, NextRule, sharedVars, historyVars
  <2>8. CASE FindInvalid(t)
    BY <2>8 DEF FindInvalid, AtGitHub, AtRule, sharedVars, historyVars
  <2>9. CASE Claim(t)
    BY <2>9 DEF Claim, AtClaim, AtGitHub, AtRule, sharedVars, historyVars
  <2>10. CASE SkipClaimed(t)
    BY <2>10 DEF SkipClaimed, AtClaim, AtGitHub, AtRule, NextRule, sharedVars,
       historyVars
  <2>11. CASE Downloaded(t)
    BY <2>11 DEF Downloaded, sharedVars, historyVars
  <2>12. CASE DownloadFails(t)
    BY <2>12 DEF DownloadFails, Fail, Leave, ClearFlag, sharedVars, historyVars
  <2>13. CASE WriteList(t)
    BY <2>13 DEF WriteList, sharedVars, historyVars
  <2>14. CASE WriteStamp(t)
    BY <2>14 DEF WriteStamp, sharedVars, historyVars
  <2>15. CASE Release(t)
    BY <2>15 DEF Release, ClearFlag, NextRule, sharedVars, historyVars
  <2>16. CASE Cancel(t)
    BY <2>16 DEF Cancel, ClearFlag, Leave, sharedVars, historyVars
  <2> QED
    BY <1>3, <2>1, <2>2, <2>3, <2>4, <2>5, <2>6, <2>7, <2>8, <2>9, <2>10, <2>11,
       <2>12, <2>13, <2>14, <2>15, <2>16 DEF Step
<1> QED
  BY <1>1, <1>2, <1>3 DEF Next

(* The times that are written are of now, or have been read before. *)
LEMMA TimeKept == TypeOK /\ TimeInv /\ [Next]_vars => TimeInv'
<1> SUFFICES ASSUME TypeOK /\ TimeInv, [Next]_vars PROVE TimeInv'
  OBVIOUS
<1> USE RuleLoadingAssumption DEF TypeOK, Times, Ops, Rules, TimeInv
<1>1. CASE UNCHANGED vars
  BY <1>1 DEF vars, sharedVars, taskVars, historyVars
<1>2. CASE Tick
  BY <1>2 DEF Tick, sharedVars, taskVars, historyVars
<1>3. ASSUME NEW t \in Tasks, Step(t) PROVE TimeInv'
  <2>1. ASSUME NEW call \in Ops \ {"none"}, Begin(t, call) PROVE TimeInv'
    BY <2>1 DEF Begin, sharedVars
  <2>2. CASE Return(t)
    BY <2>2 DEF Return, Succeeds, Leave, sharedVars, historyVars
  <2>3. CASE ReadFile(t)
    BY <2>3 DEF ReadFile, AtFile, AtRule, sharedVars, historyVars
  <2>4. CASE ReadFails(t)
    BY <2>4 DEF ReadFails, AtFile, AtRule, Fail, Leave, sharedVars, historyVars
  <2>5. CASE StoreFile(t)
    BY <2>5 DEF StoreFile, NextRule, sharedVars, historyVars
  <2>6. CASE NewMatcher(t)
    BY <2>6 DEF NewMatcher, AtGitHub, AtRule, NextRule, sharedVars, historyVars
  <2>7. CASE SkipValid(t)
    BY <2>7 DEF SkipValid, AtGitHub, AtRule, NextRule, sharedVars, historyVars
  <2>8. CASE FindInvalid(t)
    BY <2>8 DEF FindInvalid, AtGitHub, AtRule, sharedVars, historyVars
  <2>9. CASE Claim(t)
    BY <2>9 DEF Claim, AtClaim, AtGitHub, AtRule, sharedVars, historyVars
  <2>10. CASE SkipClaimed(t)
    BY <2>10 DEF SkipClaimed, AtClaim, AtGitHub, AtRule, NextRule, sharedVars,
       historyVars
  <2>11. CASE Downloaded(t)
    BY <2>11 DEF Downloaded, sharedVars, historyVars
  <2>12. CASE DownloadFails(t)
    BY <2>12 DEF DownloadFails, Fail, Leave, ClearFlag, sharedVars, historyVars
  <2>13. CASE WriteList(t)
    BY <2>13 DEF WriteList, sharedVars, historyVars
  <2>14. CASE WriteStamp(t)
    BY <2>14 DEF WriteStamp, sharedVars, historyVars
  <2>15. CASE Release(t)
    BY <2>15 DEF Release, ClearFlag, NextRule, sharedVars, historyVars
  <2>16. CASE Cancel(t)
    BY <2>16 DEF Cancel, ClearFlag, Leave, sharedVars, historyVars
  <2> QED
    BY <1>3, <2>1, <2>2, <2>3, <2>4, <2>5, <2>6, <2>7, <2>8, <2>9, <2>10, <2>11,
       <2>12, <2>13, <2>14, <2>15, <2>16 DEF Step
<1> QED
  BY <1>1, <1>2, <1>3 DEF Next

(* A list that is not in the hands of t is not changed by t; a list from   *)
(* GitHub is only in the hands of the owner of its flag.                   *)
LEMMA FetchKept ==
    TypeOK /\ FlagHasOneOwner /\ BuiltInv /\ TimeInv /\ FetchInv /\ [Next]_vars
    => FetchInv'
<1> SUFFICES ASSUME TypeOK /\ FlagHasOneOwner /\ BuiltInv /\ TimeInv /\ FetchInv,
                    [Next]_vars
             PROVE  FetchInv'
  OBVIOUS
<1> USE RuleLoadingAssumption DEF TypeOK, Times, Ops, Rules, FlagHasOneOwner,
        Fetches, BuiltInv, TimeInv, FetchInv, Fetching
<1>1. CASE UNCHANGED vars
  BY <1>1 DEF vars, sharedVars, taskVars, historyVars
<1>2. CASE Tick
  <2>1. now' = now + 1 /\ UNCHANGED <<list, pc, at, asked, held, began>>
    BY <1>2 DEF Tick, sharedVars, taskVars, historyVars
  <2>2. ASSUME NEW u \in Tasks
        PROVE  \/ pc[u] \in {"idle", "store"}
               \/ pc[u] = "download" /\ now + 1 <= asked[u] + RequestTimeout
    <3>1. now \in Nat /\ asked[u] \in Nat
      OBVIOUS
    <3> QED
      BY <1>2, <3>1 DEF Tick
  <2> QED
    BY <2>1, <2>2
<1>3. ASSUME NEW t \in Tasks, Step(t) PROVE FetchInv'
  <2>1. ASSUME NEW call \in Ops \ {"none"}, Begin(t, call) PROVE FetchInv'
    BY <2>1 DEF Begin, sharedVars
  <2>2. CASE Return(t)
    BY <2>2 DEF Return, Succeeds, Leave, sharedVars, historyVars
  <2>3. CASE ReadFile(t)
    BY <2>3 DEF ReadFile, AtFile, AtRule, sharedVars, historyVars
  <2>4. CASE ReadFails(t)
    BY <2>4 DEF ReadFails, AtFile, AtRule, Fail, Leave, sharedVars, historyVars
  <2>5. CASE StoreFile(t)
    BY <2>5 DEF StoreFile, NextRule, sharedVars, historyVars
  <2>6. CASE NewMatcher(t)
    BY <2>6 DEF NewMatcher, AtGitHub, AtRule, NextRule, sharedVars, historyVars
  <2>7. CASE SkipValid(t)
    BY <2>7 DEF SkipValid, AtGitHub, AtRule, NextRule, sharedVars, historyVars
  <2>8. CASE FindInvalid(t)
    BY <2>8 DEF FindInvalid, AtGitHub, AtRule, sharedVars, historyVars
  <2>9. CASE Claim(t)
    BY <2>9 DEF Claim, AtClaim, AtGitHub, AtRule, sharedVars, historyVars
  <2>10. CASE SkipClaimed(t)
    BY <2>10 DEF SkipClaimed, AtClaim, AtGitHub, AtRule, NextRule, sharedVars,
       historyVars
  <2>11. CASE Downloaded(t)
    BY <2>11 DEF Downloaded, sharedVars, historyVars
  <2>12. CASE DownloadFails(t)
    BY <2>12 DEF DownloadFails, Fail, Leave, ClearFlag, sharedVars, historyVars
  <2>13. CASE WriteList(t)
    BY <2>13 DEF WriteList, sharedVars, historyVars
  <2>14. CASE WriteStamp(t)
    BY <2>14 DEF WriteStamp, sharedVars, historyVars
  <2>15. CASE Release(t)
    BY <2>15 DEF Release, ClearFlag, NextRule, sharedVars, historyVars
  <2>16. CASE Cancel(t)
    BY <2>16 DEF Cancel, ClearFlag, Leave, sharedVars, historyVars
  <2> QED
    BY <1>3, <2>1, <2>2, <2>3, <2>4, <2>5, <2>6, <2>7, <2>8, <2>9, <2>10, <2>11,
       <2>12, <2>13, <2>14, <2>15, <2>16 DEF Step
<1> QED
  BY <1>1, <1>2, <1>3 DEF Next

(* The stamp is written behind the list, and within the timeout. *)
LEMMA StampKept ==
    TypeOK /\ BuiltInv /\ FetchInv /\ StampInv /\ [Next]_vars => StampInv'
<1> SUFFICES ASSUME TypeOK /\ BuiltInv /\ FetchInv /\ StampInv,
                    [Next]_vars
             PROVE  StampInv'
  OBVIOUS
<1> USE RuleLoadingAssumption DEF TypeOK, Times, Ops, Rules, BuiltInv, FetchInv,
        StampInv, Fetching
<1>1. CASE UNCHANGED vars
  BY <1>1 DEF vars, sharedVars, taskVars, historyVars
<1>2. CASE Tick
  BY <1>2 DEF Tick, sharedVars, taskVars, historyVars
<1>3. ASSUME NEW t \in Tasks, Step(t) PROVE StampInv'
  <2>1. ASSUME NEW call \in Ops \ {"none"}, Begin(t, call) PROVE StampInv'
    BY <2>1 DEF Begin, sharedVars
  <2>2. CASE Return(t)
    BY <2>2 DEF Return, Succeeds, Leave, sharedVars, historyVars
  <2>3. CASE ReadFile(t)
    BY <2>3 DEF ReadFile, AtFile, AtRule, sharedVars, historyVars
  <2>4. CASE ReadFails(t)
    BY <2>4 DEF ReadFails, AtFile, AtRule, Fail, Leave, sharedVars, historyVars
  <2>5. CASE StoreFile(t)
    BY <2>5 DEF StoreFile, NextRule, sharedVars, historyVars
  <2>6. CASE NewMatcher(t)
    BY <2>6 DEF NewMatcher, AtGitHub, AtRule, NextRule, sharedVars, historyVars
  <2>7. CASE SkipValid(t)
    BY <2>7 DEF SkipValid, AtGitHub, AtRule, NextRule, sharedVars, historyVars
  <2>8. CASE FindInvalid(t)
    BY <2>8 DEF FindInvalid, AtGitHub, AtRule, sharedVars, historyVars
  <2>9. CASE Claim(t)
    BY <2>9 DEF Claim, AtClaim, AtGitHub, AtRule, sharedVars, historyVars
  <2>10. CASE SkipClaimed(t)
    BY <2>10 DEF SkipClaimed, AtClaim, AtGitHub, AtRule, NextRule, sharedVars,
       historyVars
  <2>11. CASE Downloaded(t)
    BY <2>11 DEF Downloaded, sharedVars, historyVars
  <2>12. CASE DownloadFails(t)
    BY <2>12 DEF DownloadFails, Fail, Leave, ClearFlag, sharedVars, historyVars
  <2>13. CASE WriteList(t)
    BY <2>13 DEF WriteList, sharedVars, historyVars
  <2>14. CASE WriteStamp(t)
    BY <2>14 DEF WriteStamp, sharedVars, historyVars
  <2>15. CASE Release(t)
    BY <2>15 DEF Release, ClearFlag, NextRule, sharedVars, historyVars
  <2>16. CASE Cancel(t)
    BY <2>16 DEF Cancel, ClearFlag, Leave, sharedVars, historyVars
  <2> QED
    BY <1>3, <2>1, <2>2, <2>3, <2>4, <2>5, <2>6, <2>7, <2>8, <2>9, <2>10, <2>11,
       <2>12, <2>13, <2>14, <2>15, <2>16 DEF Step
<1> QED
  BY <1>1, <1>2, <1>3 DEF Next

(* A call by itself has done what it promises for the rules it has passed. *)
LEMMA AloneKept ==
    TypeOK /\ FlagHasOneOwner /\ BuiltInv /\ TimeInv /\ FetchInv /\ StampInv /\ AloneInv /\ [Next]_vars
    => AloneInv'
<1> SUFFICES ASSUME TypeOK /\ FlagHasOneOwner /\ BuiltInv /\ TimeInv /\ FetchInv /\ StampInv /\ AloneInv,
                    [Next]_vars
             PROVE  AloneInv'
  OBVIOUS
<1> USE RuleLoadingAssumption DEF TypeOK, Times, Ops, Rules, FlagHasOneOwner,
        Fetches, Fetching, BuiltInv, TimeInv, FetchInv, StampInv, AloneInv, Loaded,
        Valid
<1>1. CASE UNCHANGED vars
  BY <1>1 DEF vars, sharedVars, taskVars, historyVars
<1>2. CASE Tick
  BY <1>2 DEF Tick, sharedVars, taskVars, historyVars
<1>3. ASSUME NEW t \in Tasks, Step(t) PROVE AloneInv'
  <2>1. ASSUME NEW call \in Ops \ {"none"}, Begin(t, call) PROVE AloneInv'
    BY <2>1 DEF Begin, sharedVars
  <2>2. CASE Return(t)
    BY <2>2 DEF Return, Succeeds, Leave, sharedVars, historyVars
  <2>3. CASE ReadFile(t)
    BY <2>3 DEF ReadFile, AtFile, AtRule, sharedVars, historyVars
  <2>4. CASE ReadFails(t)
    BY <2>4 DEF ReadFails, AtFile, AtRule, Fail, Leave, sharedVars, historyVars
  <2>5. CASE StoreFile(t)
    BY <2>5 DEF StoreFile, NextRule, sharedVars, historyVars
  <2>6. CASE NewMatcher(t)
    <3>1. alone' = alone /\ at' = [at EXCEPT ![t] = at[t] + 1] /\ pc' = [pc EXCEPT ![t] = "rule"]
      BY <2>6 DEF NewMatcher, NextRule, historyVars
    <3>2. UNCHANGED <<now, op, list, began>>
      BY <2>6 DEF NewMatcher, NextRule, sharedVars, historyVars
    <3>3. Loaded(t, at[t])
      BY <2>6 DEF NewMatcher, AtGitHub
    <3>4. \A u \in alone : u = t
      BY <2>6 DEF NewMatcher, AtGitHub, AtRule
    <3>5. at[t] \in Nat /\ \A r \in Rules : r < at[t] + 1 => r < at[t] \/ r = at[t]
      OBVIOUS
    <3> QED
      BY <3>1, <3>2, <3>3, <3>4, <3>5
  <2>7. CASE SkipValid(t)
    <3>1. alone' = alone /\ at' = [at EXCEPT ![t] = at[t] + 1] /\ pc' = [pc EXCEPT ![t] = "rule"]
      BY <2>7 DEF SkipValid, AtGitHub, AtRule, NextRule, sharedVars, historyVars
    <3>2. UNCHANGED <<now, op, list, began>>
      BY <2>7 DEF SkipValid, AtGitHub, AtRule, NextRule, sharedVars, historyVars
    <3>3. t \in alone => Loaded(t, at[t])
      <4>1. at[t] \in GitHub /\ op[t] = "ensure" /\ Valid(at[t])
        BY <2>7 DEF SkipValid, AtGitHub, AtRule, NextRule, sharedVars, historyVars
      <4>2. stamp[at[t]] \in Nat /\ list[at[t]] \in Nat /\ now \in Nat /\ began[t] \in Nat
        BY <4>1
      <4> QED
        BY <4>1, <4>2
    <3>4. \A u \in alone : u = t
      BY <2>7 DEF SkipValid, AtGitHub, AtRule, NextRule, sharedVars, historyVars
    <3>5. at[t] \in Nat /\ \A r \in Rules : r < at[t] + 1 => r < at[t] \/ r = at[t]
      OBVIOUS
    <3> QED
      BY <3>1, <3>2, <3>3, <3>4, <3>5
  <2>8. CASE FindInvalid(t)
    BY <2>8 DEF FindInvalid, AtGitHub, AtRule, sharedVars, historyVars
  <2>9. CASE Claim(t)
    BY <2>9 DEF Claim, AtClaim, AtGitHub, AtRule, sharedVars, historyVars
  <2>10. CASE SkipClaimed(t)
    <3>1. alone' = alone /\ at' = [at EXCEPT ![t] = at[t] + 1] /\ pc' = [pc EXCEPT ![t] = "rule"]
      BY <2>10 DEF SkipClaimed, AtClaim, AtGitHub, AtRule, NextRule, sharedVars,
       historyVars
    <3>2. UNCHANGED <<now, op, list, began>>
      BY <2>10 DEF SkipClaimed, AtClaim, AtGitHub, AtRule, NextRule, sharedVars,
       historyVars
    <3>3. t \in alone => Loaded(t, at[t])
      <4>1. PICK u \in Tasks : Fetches(u, at[t])
        BY <2>10 DEF SkipClaimed, AtClaim, AtGitHub, AtRule, NextRule, sharedVars,
       historyVars
      <4>2. u # t /\ pc[u] # "idle"
        BY <2>10, <4>1 DEF SkipClaimed, AtClaim, AtGitHub, AtRule, NextRule,
       sharedVars, historyVars
      <4> QED
        BY <4>2
    <3>4. \A u \in alone : u = t
      BY <2>10 DEF SkipClaimed, AtClaim, AtGitHub, AtRule, NextRule, sharedVars,
       historyVars
    <3>5. at[t] \in Nat /\ \A r \in Rules : r < at[t] + 1 => r < at[t] \/ r = at[t]
      OBVIOUS
    <3> QED
      BY <3>1, <3>2, <3>3, <3>4, <3>5
  <2>11. CASE Downloaded(t)
    BY <2>11 DEF Downloaded, sharedVars, historyVars
  <2>12. CASE DownloadFails(t)
    BY <2>12 DEF DownloadFails, Fail, Leave, ClearFlag, sharedVars, historyVars
  <2>13. CASE WriteList(t)
    <3>1. UNCHANGED <<now, op, at, began, alone>> /\ at[t] \in GitHub
      BY <2>13 DEF WriteList, historyVars
    <3>2. pc' = [pc EXCEPT ![t] = "stamp"] /\ list' = [list EXCEPT ![at[t]] = held[t]]
      BY <2>13 DEF WriteList
    <3>3. \A u \in alone : u = t
      BY <2>13 DEF WriteList
    <3>4. \A r \in Rules : r < at[t] => list'[r] = list[r]
      BY <3>1, <3>2
    <3> QED
      BY <3>1, <3>2, <3>3, <3>4
  <2>14. CASE WriteStamp(t)
    BY <2>14 DEF WriteStamp, sharedVars, historyVars
  <2>15. CASE Release(t)
    <3>1. alone' = alone /\ at' = [at EXCEPT ![t] = at[t] + 1] /\ pc' = [pc EXCEPT ![t] = "rule"]
      BY <2>15 DEF Release, ClearFlag, NextRule, sharedVars, historyVars
    <3>2. UNCHANGED <<now, op, list, began>>
      BY <2>15 DEF Release, ClearFlag, NextRule, sharedVars, historyVars
    <3>3. t \in alone => Loaded(t, at[t])
      <4>1. at[t] \in GitHub /\ list[at[t]] = held[t] /\ began[t] <= held[t]
        BY <2>15 DEF Release, ClearFlag, NextRule, sharedVars, historyVars
      <4>2. held[t] \in Nat /\ began[t] \in Nat
        OBVIOUS
      <4> QED
        BY <4>1, <4>2
    <3>4. \A u \in alone : u = t
      BY <2>15 DEF Release, ClearFlag, NextRule, sharedVars, historyVars
    <3>5. at[t] \in Nat /\ \A r \in Rules : r < at[t] + 1 => r < at[t] \/ r = at[t]
      OBVIOUS
    <3> QED
      BY <3>1, <3>2, <3>3, <3>4, <3>5
  <2>16. CASE Cancel(t)
    BY <2>16 DEF Cancel, ClearFlag, Leave, sharedVars, historyVars
  <2> QED
    BY <1>3, <2>1, <2>2, <2>3, <2>4, <2>5, <2>6, <2>7, <2>8, <2>9, <2>10, <2>11,
       <2>12, <2>13, <2>14, <2>15, <2>16 DEF Step
<1> QED
  BY <1>1, <1>2, <1>3 DEF Next

-----------------------------------------------------------------------------
(***************************************************************************)
(* The inductive invariant holds in every reachable state, however calls   *)
(* overlap, fail and are dropped.                                          *)
(***************************************************************************)
THEOREM Invariance == Spec => []IInv
<1>1. IInv /\ [Next]_vars => IInv'
  BY TypeKept, FlagKept, BuiltKept, TimeKept, FetchKept, StampKept, AloneKept DEF IInv
<1> QED
  BY <1>1, Begins, PTL DEF Spec

(* The type invariant of RuleLoading. *)
THEOREM TypeCorrect == Spec => []TypeOK
<1>1. IInv => TypeOK
  BY DEF IInv
<1> QED
  BY <1>1, Invariance, PTL

(* The flag of a matcher is set exactly while one task is in fetch_keys,   *)
(* and never two are: for any number of tasks and users.                   *)
THEOREM OneDownloadAtATime == Spec => []FlagHasOneOwner
<1>1. IInv => FlagHasOneOwner
  BY DEF IInv
<1> QED
  BY <1>1, Invariance, PTL

(* A list that is_cache_valid accepts is younger than cache_ttl and the    *)
(* timeout of a request, for any cache_ttl and any timeout.                *)
THEOREM CacheIsFresh == Spec => []ValidIsFresh
<1>1. IInv => ValidIsFresh
  <2> SUFFICES ASSUME IInv, NEW r \in GitHub, Valid(r)
               PROVE  list[r] # None /\ now < list[r] + CacheTtl + RequestTimeout
    BY DEF ValidIsFresh
  <2> USE RuleLoadingAssumption DEF IInv, TypeOK, Times, Rules
  <2>1. list[r] # None /\ stamp[r] # None /\ stamp[r] <= list[r] + RequestTimeout
    BY DEF BuiltInv, StampInv, Valid
  <2>2. list[r] \in Nat /\ stamp[r] \in Nat /\ now \in Nat
    BY <2>1
  <2> QED
    BY <2>1, <2>2 DEF Valid
<1> QED
  BY <1>1, Invariance, PTL

(* No step of a task puts an older list in the place of a list that has    *)
(* come from GitHub: whoever writes it has asked for it since it had the   *)
(* flag, and nobody else has written meanwhile.                            *)
THEOREM GitHubListNeverAges == Spec => ListNeverAges
<1> DEFINE Kept == \A r \in GitHub : list[r] # None => list'[r] # None /\ list'[r] >= list[r]
<1>1. IInv /\ [Next]_vars => [Kept]_vars
  <2> SUFFICES ASSUME IInv, Next PROVE Kept
    OBVIOUS
  <2> USE RuleLoadingAssumption DEF IInv, TypeOK, Times, Rules
  <2>1. \A r \in GitHub : list[r] # None => list[r] \in Nat
    OBVIOUS
  <2>2. CASE UNCHANGED list
    BY <2>1, <2>2
  <2>3. CASE \E t \in Tasks : StoreFile(t)
    BY <2>1, <2>3 DEF StoreFile
  <2>4. CASE \E t \in Tasks : WriteList(t)
    <3> SUFFICES ASSUME NEW t \in Tasks, WriteList(t) PROVE Kept
      BY <2>4
    <3>1. list[at[t]] # None => list[at[t]] <= held[t]
      BY DEF FetchInv, WriteList
    <3>2. held[t] \in Nat /\ list' = [list EXCEPT ![at[t]] = held[t]]
      BY DEF WriteList
    <3> QED
      BY <2>1, <3>1, <3>2
  <2>5. CASE \E t \in Tasks : ReadFails(t) \/ DownloadFails(t)
    <3>1. \A r \in GitHub : list[r] # None => list' = list
      BY <2>5 DEF BuiltInv, ReadFails, DownloadFails, Fail
    <3> QED
      BY <2>1, <3>1
  <2> QED
    BY <2>2, <2>3, <2>4, <2>5
    DEF Next, Tick, Step, Begin, Return, ReadFile, NewMatcher, SkipValid, FindInvalid, Claim,
        SkipClaimed, Downloaded, WriteStamp, Release, Cancel, sharedVars
<1>2. [][IInv /\ [Next]_vars]_vars => [][Kept]_vars
  BY <1>1, PTL
<1> QED
  BY <1>1, Invariance, PTL DEF Spec, ListNeverAges

(* A call that returns Ok(()) and has been the only one has loaded every   *)
(* rule: what run::execute builds on.                                      *)
THEOREM LoneCallTakesEffect == Spec => []CallTakesEffect
<1>1. IInv => CallTakesEffect
  <2> SUFFICES ASSUME IInv, NEW t \in alone, Succeeds(t), NEW r \in Rules PROVE Loaded(t, r)
    BY DEF CallTakesEffect, Loaded
  <2>1. r < at[t]
    BY RuleLoadingAssumption DEF Succeeds, Rules
  <2> QED
    BY <2>1 DEF IInv, AloneInv
<1> QED
  BY <1>1, Invariance, PTL
=============================================================================
