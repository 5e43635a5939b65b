--------------------------- MODULE ServerApiProofs ---------------------------
(***************************************************************************)
(* Theorems about ServerApi, for any number of servers, sockets, signals   *)
(* and clients.                                                            *)
(***************************************************************************)
EXTENDS ServerApi, TLAPS

LEMMA TypeInit == Init => TypeOK
<1> SUFFICES ASSUME Init PROVE TypeOK
  OBVIOUS
<1> USE ServerApiAssumption DEF Init
<1>1. 0 \in 0..MaxClients /\ 0 \in 0..MaxVersion /\ seen \in [Servers -> 0..version]
  OBVIOUS
<1>2. \A s \in Servers : fresh[s] = None /\ state[s] = "idle"
  OBVIOUS
<1> QED
  BY <1>1, <1>2 DEF TypeOK, Binding, Running

(* Every variable keeps its type; a server that runs has a listener, and one
   that is about to set permissions has a socket that is not its listener yet. *)
LEMMA TypeStep == TypeOK /\ [Next]_vars => TypeOK'
<1> SUFFICES ASSUME TypeOK, [Next]_vars PROVE TypeOK'
  OBVIOUS
<1> USE ServerApiAssumption DEF TypeOK, Sockets, Binding, Running, Goto, fileVars, channelVars
<1>1. CASE Send \/ DropSender \/ Connect \/ UNCHANGED vars
  <2>1. CASE Send
    BY <1>1, <2>1 DEF Send
  <2>2. CASE DropSender \/ UNCHANGED vars
    BY <1>1, <2>2 DEF DropSender, vars
  <2>3. CASE Connect
    BY <1>1, <2>3 DEF Connect
  <2> QED
    BY <1>1, <2>1, <2>2, <2>3
<1>2. ASSUME NEW s \in Servers, Step(s) PROVE TypeOK'
  <2>1. CASE CallBind(s)
    BY <2>1 DEF CallBind
  <2>2. CASE Prepare(s)
    BY <2>2 DEF Prepare
  <2>3. CASE PrepareFails(s)
    BY <2>3 DEF PrepareFails
  <2>4. CASE Bind(s)
    <3>1. PICK k \in Sockets :
              /\ made' = [made EXCEPT ![k] = s] /\ file' = k
              /\ fresh' = [fresh EXCEPT ![s] = k]
      BY <2>4 DEF Bind
    <3>2. state' = [state EXCEPT ![s] = "chmod"]
      BY <2>4 DEF Bind
    <3>3. k # None /\ state[s] = "bind" /\ k \in 1..MaxSockets
      <4>1. k \in Nat
        OBVIOUS
      <4> QED
        BY <2>4, <4>1 DEF Bind
    <3>4. UNCHANGED <<listener, waiting, value, version, sender, seen>>
      BY <2>4 DEF Bind
    <3> QED
      BY <3>1, <3>2, <3>3, <3>4
  <2>5. CASE BindFails(s)
    BY <2>5 DEF BindFails
  <2>6. CASE Chmod(s)
    BY <2>6 DEF Chmod, Refused
  <2>7. CASE ChmodFails(s)
    BY <2>7 DEF ChmodFails, Refused
  <2>8. CASE CallRun(s)
    BY <2>8 DEF CallRun
  <2>9. CASE Changed(s)
    BY <2>9 DEF Changed
  <2>10. CASE Borrow(s)
    BY <2>10 DEF Borrow
  <2>11. CASE Accept(s)
    BY <2>11 DEF Accept
  <2>12. CASE AcceptOne(s)
    BY <2>12 DEF AcceptOne
  <2>13. CASE CancelRun(s)
    BY <2>13 DEF CancelRun
  <2>14. CASE Drop(s)
    BY <2>14 DEF Drop
  <2>15. CASE Exists(s)
    <3>1. CASE file = None
      <4>1. Dropped(s) /\ UNCHANGED <<file, made, fresh, value, version, sender, seen>>
        BY <2>15, <3>1 DEF Exists
      <4>2. state[s] = "exists"
        BY <2>15 DEF Exists
      <4> QED
        BY <3>1, <4>1, <4>2 DEF Dropped, Refused
    <3>2. CASE file # None
      BY <2>15, <3>2 DEF Exists
    <3> QED
      BY <3>1, <3>2
  <2>16. CASE Remove(s)
    BY <2>16 DEF Remove, Dropped, Refused
  <2> QED
    BY <1>2, <2>1, <2>2, <2>3, <2>4, <2>5, <2>6, <2>7, <2>8, <2>9,
        <2>10, <2>11, <2>12, <2>13, <2>14, <2>15, <2>16 DEF Step
<1> QED
  BY <1>1, <1>2 DEF Next

(* Every variable of the server keeps its type. *)
THEOREM TypeCorrect == Spec => []TypeOK
  BY TypeInit, TypeStep, PTL DEF Spec

(* A dropped server does nothing any more, and the cleanup was its last step. *)
LEMMA DroppedStep == TypeOK /\ DroppedLeavesNoSocket /\ [Next]_vars => DroppedLeavesNoSocket'
<1> SUFFICES ASSUME TypeOK /\ DroppedLeavesNoSocket, [Next]_vars PROVE DroppedLeavesNoSocket'
  OBVIOUS
<1> USE ServerApiAssumption DEF TypeOK, DroppedLeavesNoSocket, Sockets, Binding, Running, Goto, fileVars, channelVars
<1>1. CASE Send \/ DropSender \/ Connect \/ UNCHANGED vars
  <2>1. CASE Send
    BY <1>1, <2>1 DEF Send
  <2>2. CASE DropSender \/ UNCHANGED vars
    BY <1>1, <2>2 DEF DropSender, vars
  <2>3. CASE Connect
    BY <1>1, <2>3 DEF Connect
  <2> QED
    BY <1>1, <2>1, <2>2, <2>3
<1>2. ASSUME NEW s \in Servers, Step(s) PROVE DroppedLeavesNoSocket'
  <2>1. CASE CallBind(s)
    BY <2>1 DEF CallBind
  <2>2. CASE Prepare(s)
    BY <2>2 DEF Prepare
  <2>3. CASE PrepareFails(s)
    BY <2>3 DEF PrepareFails
  <2>4. CASE Bind(s)
    BY <2>4 DEF Bind
  <2>5. CASE BindFails(s)
    BY <2>5 DEF BindFails
  <2>6. CASE Chmod(s)
    BY <2>6 DEF Chmod, Refused
  <2>7. CASE ChmodFails(s)
    BY <2>7 DEF ChmodFails, Refused
  <2>8. CASE CallRun(s)
    BY <2>8 DEF CallRun
  <2>9. CASE Changed(s)
    BY <2>9 DEF Changed
  <2>10. CASE Borrow(s)
    BY <2>10 DEF Borrow
  <2>11. CASE Accept(s)
    BY <2>11 DEF Accept
  <2>12. CASE AcceptOne(s)
    BY <2>12 DEF AcceptOne
  <2>13. CASE CancelRun(s)
    BY <2>13 DEF CancelRun
  <2>14. CASE Drop(s)
    BY <2>14 DEF Drop
  <2>15. CASE Exists(s)
    <3>1. CASE file = None
      <4>1. Dropped(s) /\ UNCHANGED <<file, made, fresh, value, version, sender, seen>>
        BY <2>15, <3>1 DEF Exists
      <4>2. state[s] = "exists"
        BY <2>15 DEF Exists
      <4>3. file' \notin 1..MaxSockets
        <5>1. \A k \in 1..MaxSockets : k \in Nat
          OBVIOUS
        <5> QED
          BY <3>1, <4>1, <5>1
      <4> QED
        BY <4>3
    <3>2. CASE file # None
      BY <2>15, <3>2 DEF Exists
    <3> QED
      BY <3>1, <3>2
  <2>16. CASE Remove(s)
    BY <2>16 DEF Remove, Dropped, Refused
  <2> QED
    BY <1>2, <2>1, <2>2, <2>3, <2>4, <2>5, <2>6, <2>7, <2>8, <2>9,
        <2>10, <2>11, <2>12, <2>13, <2>14, <2>15, <2>16 DEF Step
<1> QED
  BY <1>1, <1>2 DEF Next

(***************************************************************************)
(* However binds fail, overlap and repeat, a server that is dropped leaves *)
(* no socket of its own at the path.                                       *)
(***************************************************************************)
THEOREM DropCleansUp == Spec => []DroppedLeavesNoSocket
<1>1. Init => DroppedLeavesNoSocket
  BY DEF Init, DroppedLeavesNoSocket
<1> QED
  BY <1>1, TypeCorrect, DroppedStep, PTL DEF Spec
=============================================================================
