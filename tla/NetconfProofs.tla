--------------------------- MODULE NetconfProofs ---------------------------
(***************************************************************************)
(* Proofs about NetconfTarget, for any number of Sets, of callers that     *)
(* overlap and of transport failures: drivers are not leaked and closed    *)
(* ones are being replaced, what was refused reaches the device only with  *)
(* the commit of a Set that overlapped it, and a Set that returns without  *)
(* an error is on the device unless one that overlapped it discarded the   *)
(* candidate or the device restarted.                                      *)
(*                                                                         *)
(* DriverInv is inductive.  SetInv follows the Sets from their edit to     *)
(* their result; with the types it is inductive too.                       *)
(***************************************************************************)
EXTENDS NetconfTarget, TLAPS

\* A Set in progress has its own number, no result yet, and overlaps the others in progress.
Numbered(c) ==
  set[c].pc # "idle" =>
    /\ set[c].id \in Sets /\ set[c].id <= calls /\ result[set[c].id] = "none"
    /\ \A d \in Callers \ {c} : set[d].pc # "idle" =>
         set[d].id # set[c].id /\ set[d].id \in overlap[set[c].id]

\* Where a Set is tells what the device has of it.
Placed(c) ==
  /\ set[c].pc \in {"discard", "commit"} => mode = "candidate"
  /\ set[c].pc = "commit" /\ KeptInCandidate(set[c].id) /\ fault # "restart"
       => set[c].id \in candidate
  /\ mode = "candidate" =>
       /\ set[c].pc = "edit" => set[c].id \notin candidate \cup devRunning
       /\ set[c].pc = "discard" /\ set[c].id \in devRunning
            => \E j \in overlap[set[c].id] : Carried(j)

\* What is left of the Set k when it is over, and that there is nothing of it before.
Settled(k) ==
  /\ calls < k => result[k] = "none"
  /\ mode = "candidate" =>
       /\ calls < k \/ result[k] = "notConnected" => k \notin candidate \cup devRunning
       /\ result[k] = "editError" /\ k \in candidate => k \in devRunning
       /\ result[k] = "editError" /\ k \in devRunning => \E j \in overlap[k] : Carried(j)

SetInv ==
  /\ \A c \in Callers : Numbered(c) /\ Placed(c)
  /\ \A k \in Sets : Settled(k)

\* Both hold in the beginning.
LEMMA Initially == Init => DriverInv /\ SetInv
<1> SUFFICES ASSUME Init PROVE DriverInv /\ SetInv
  OBVIOUS
<1> USE BoundsAssumption DEF Init
<1>1. TypeOK
  <2>1. get \in [Gets -> [pc : {"check", "call", "close", "apply", "done"}, got : SUBSET Sets]]
    BY DEF Gets
  <2>2. result \in [Sets -> Results] BY DEF Results
  <2>3. set \in [Callers -> [pc : {"idle", "edit", "discard", "commit", "close"}, id : 0..MaxSets]]
    <3>1. 0 \in 0..MaxSets OBVIOUS
    <3> QED BY Zenon, <3>1
  <2>4. drops \in 0..MaxDrops /\ waiting \in Nat /\ calls \in 0..MaxSets OBVIOUS
  <2>6. overlap \in [Sets -> SUBSET Sets] BY Zenon
  <2>5. devRunning \subseteq Sets /\ candidate \subseteq Sets /\ running \subseteq Sets
    OBVIOUS
  <2> QED BY Zenon, <2>1, <2>2, <2>3, <2>4, <2>5, <2>6 DEF TypeOK
<1>2. DriverInv BY <1>1 DEF DriverInv, NoDriverLeaks, ClosedMeansReconnecting, Connected
<1>3. SetInv BY Zenon DEF SetInv, Numbered, Placed, Settled
<1> QED BY <1>2, <1>3

\* Every step keeps the types.
LEMMA TypesKept == TypeOK /\ SetInv /\ [Next]_vars => TypeOK'
<1> SUFFICES ASSUME TypeOK, SetInv, [Next]_vars PROVE TypeOK'
  OBVIOUS
<1> DEFINE SetType    == set \in [Callers -> [pc : {"idle", "edit", "discard", "commit", "close"},
                                            id : 0..MaxSets]]
           CallType   == /\ SetType /\ calls \in 0..MaxSets
                         /\ result \in [Sets -> Results] /\ overlap \in [Sets -> SUBSET Sets]
           DeviceType == devRunning \subseteq Sets /\ candidate \subseteq Sets
<1>0. CallType /\ DeviceType BY Zenon DEF TypeOK
<1>a. ASSUME NEW c \in Callers, NEW r \in Results, Return(c, r) PROVE CallType'
  <2>1. SetType'
    <3>1. ASSUME NEW d \in Callers PROVE [set[d] EXCEPT !.pc = "idle"]
                  \in [pc : {"idle", "edit", "discard", "commit", "close"}, id : 0..MaxSets]
      BY <1>0
    <3> QED BY Zenon, <1>0, <1>a, <3>1 DEF Return
  <2> QED BY Zenon, <1>0, <1>a, <2>1 DEF Return
<1>b. ASSUME NEW c \in Callers, NEW pc \in {"discard", "commit", "close"}, SetGoto(c, pc)
      PROVE  CallType'
  <2>1. SetType'
    <3>1. ASSUME NEW d \in Callers PROVE [set[d] EXCEPT !.pc = pc]
                  \in [pc : {"idle", "edit", "discard", "commit", "close"}, id : 0..MaxSets]
      BY <1>0
    <3> QED BY Zenon, <1>0, <1>b, <3>1 DEF SetGoto
  <2> QED BY Zenon, <1>0, <1>b, <2>1 DEF SetGoto
<1>c. ASSUME NEW c \in Callers, set[c].pc # "idle", Edit(Edited) \/ Edit(Edited \cup {set[c].id})
      PROVE  DeviceType'
  <2>1. set[c].id \in Sets BY Zenon, <1>c DEF SetInv, Numbered
  <2> QED BY <1>0, <1>c, <2>1 DEF Edit, Edited
<1>d. ASSUME HandleTransportError
      PROVE  driver' \in {"up", "broken", "closed", "nil"} /\ waiting' \in Nat
             /\ leaked' \in BOOLEAN /\ opening' \in BOOLEAN
  BY <1>d DEF HandleTransportError, Close, TypeOK
<1>e. ASSUME Answered \/ AnswerLost \/ NoAnswer
      PROVE  driver' \in {"up", "broken", "closed", "nil"} /\ drops' \in 0..MaxDrops
  BY <1>e, BoundsAssumption DEF Answered, AnswerLost, NoAnswer, TypeOK
<1> USE BoundsAssumption DEF TypeOK, connection, calling, device, syncing, environment
<1>1. CASE Drop BY <1>1 DEF Drop
<1>2. CASE Stop BY <1>2 DEF Stop, Close
<1>3. ASSUME NEW c \in Callers, SetBegin(c) PROVE TypeOK'
  <2>1. calls + 1 \in Sets /\ calls + 1 \in 0..MaxSets BY <1>3 DEF SetBegin, Sets
  <2>2. CallType'
    <3>1. InProgress \subseteq Sets
      <4>1. \A d \in Callers : set[d].pc # "idle" => set[d].id \in Sets
        BY Zenon DEF SetInv, Numbered
      <4> QED BY <4>1 DEF InProgress
    <3>2. "notConnected" \in Results BY DEF Results
    <3>3. CASE Connected
      <4>1. overlap' \in [Sets -> SUBSET Sets]
        <5>1. overlap' = [k \in Sets |-> IF k = calls + 1 THEN InProgress
                                        ELSE IF k \in InProgress THEN overlap[k] \cup {calls + 1}
                                        ELSE overlap[k]]
          BY Zenon, <1>3, <3>3 DEF SetBegin
        <5> QED BY <1>0, <2>1, <3>1, <5>1
      <4>2. [pc |-> "edit", id |-> calls + 1]
              \in [pc : {"idle", "edit", "discard", "commit", "close"}, id : 0..MaxSets]
        BY Zenon, <2>1
      <4>3. set' = [set EXCEPT ![c] = [pc |-> "edit", id |-> calls + 1]]
            /\ calls' = calls + 1 /\ result' = result
        BY Zenon, <1>3, <3>3 DEF SetBegin
      <4> QED BY Zenon, <1>0, <2>1, <4>1, <4>2, <4>3
    <3>4. CASE ~Connected
      <4>1. result' = [result EXCEPT ![calls + 1] = "notConnected"]
            /\ calls' = calls + 1 /\ UNCHANGED <<set, overlap>>
        BY Zenon, <1>3, <3>4 DEF SetBegin
      <4> QED BY Zenon, <1>0, <2>1, <3>2, <4>1
    <3> QED BY Zenon, <3>3, <3>4
  <2> QED BY Zenon, <1>3, <2>2 DEF SetBegin
<1>4. ASSUME NEW c \in Callers, SetEdit(c) PROVE TypeOK'
  <2>1. CallType' BY <1>4, <1>a, <1>b DEF SetEdit, EditRefused, Results
  <2>2. DeviceType' BY Zenon, <1>0, <1>4, <1>c DEF SetEdit
  <2>3. driver' \in {"up", "broken", "closed", "nil"} /\ drops' \in 0..MaxDrops
    BY Zenon, <1>4, <1>e DEF SetEdit, NilDriver
  <2>4. panicked' \in BOOLEAN BY Zenon, <1>4 DEF SetEdit, NilDriver
  <2>5. UNCHANGED <<leaked, waiting, opening, syncing, stopped, environment>> BY Zenon, <1>4 DEF SetEdit
  <2> QED BY Zenon, <2>1, <2>2, <2>3, <2>4, <2>5
<1>5. ASSUME NEW c \in Callers, SetDiscard(c) PROVE TypeOK'
  <2>1. CallType' BY <1>5, <1>a DEF SetDiscard, Results
  <2>2. DeviceType' BY Zenon, <1>0, <1>5 DEF SetDiscard
  <2>3. driver' \in {"up", "broken", "closed", "nil"} /\ drops' \in 0..MaxDrops
    BY Zenon, <1>5, <1>e DEF SetDiscard, NilDriver
  <2>4. panicked' \in BOOLEAN BY Zenon, <1>5 DEF SetDiscard, NilDriver
  <2>5. UNCHANGED <<leaked, waiting, opening, syncing, stopped, environment>> BY Zenon, <1>5 DEF SetDiscard
  <2> QED BY Zenon, <2>1, <2>2, <2>3, <2>4, <2>5
<1>6. ASSUME NEW c \in Callers, SetCommit(c) PROVE TypeOK'
  <2>1. CallType' BY <1>6, <1>a, <1>b DEF SetCommit, Results
  <2>2. DeviceType' BY Zenon, <1>0, <1>6 DEF SetCommit, Committed
  <2>3. driver' \in {"up", "broken", "closed", "nil"} /\ drops' \in 0..MaxDrops
    BY Zenon, <1>6, <1>e DEF SetCommit, NilDriver
  <2>4. panicked' \in BOOLEAN BY Zenon, <1>6 DEF SetCommit, NilDriver
  <2>5. UNCHANGED <<leaked, waiting, opening, syncing, stopped, environment>> BY Zenon, <1>6 DEF SetCommit
  <2> QED BY Zenon, <2>1, <2>2, <2>3, <2>4, <2>5
<1>7. ASSUME NEW c \in Callers, SetClose(c) PROVE TypeOK'
  <2>1. CallType' BY <1>7, <1>a DEF SetClose, Results
  <2> QED BY Zenon, <1>7, <1>d, <2>1 DEF SetClose
<1>8. CASE ReconnectLock BY <1>8 DEF ReconnectLock, ReconnectNeeded
<1>9. CASE ReconnectOpen BY Zenon, <1>9 DEF ReconnectOpen, NewDriver
<1>10. CASE ReconnectFails BY <1>10 DEF ReconnectFails, NewDriver, ReconnectAgain
<1>11. ASSUME NEW g \in Gets, GetBegin(g) \/ GetCall(g) \/ GetClose(g) \/ GetApply(g) PROVE TypeOK'
  <2> DEFINE GetType == get \in [Gets -> [pc : {"check", "call", "close", "apply", "done"},
                                          got : SUBSET Sets]]
  <2>a. ASSUME NEW pc \in {"check", "call", "close", "done"}, GetGoto(g, pc) PROVE GetType'
    BY <2>a DEF GetGoto
  <2>b. Over(g) \in {"check", "done"} BY DEF Over
  <2>1. CASE GetBegin(g)
    <3>1. GetType' BY <2>1, <2>a, <2>b DEF GetBegin
    <3> QED BY <2>1, <3>1 DEF GetBegin
  <2>2. CASE GetCall(g)
    <3>1. GetType' BY <2>2, <2>a, <2>b DEF GetCall, GetConfig
    <3>2. driver' \in {"up", "broken", "closed", "nil"} /\ drops' \in 0..MaxDrops
      BY <2>2, <1>e DEF GetCall
    <3>3. panicked' \in BOOLEAN BY Zenon, <2>2 DEF GetCall, NilDriver
    <3>4. UNCHANGED <<leaked, waiting, opening, calling, device, running, stopped, environment>>
      BY <2>2 DEF GetCall
    <3> QED BY <3>1, <3>2, <3>3, <3>4
  <2>3. CASE GetClose(g)
    <3>1. GetType' BY <2>3, <2>a, <2>b DEF GetClose
    <3> QED BY <2>3, <1>d, <3>1 DEF GetClose
  <2>4. CASE GetApply(g)
    <3>1. GetType' BY <2>4, <2>b DEF GetApply
    <3>2. running' \subseteq Sets BY <2>4 DEF GetApply, Apply
    <3> QED BY <2>4, <3>1, <3>2 DEF GetApply
  <2> QED BY <1>11, <2>1, <2>2, <2>3, <2>4
<1>12. CASE GetEnd BY <1>12 DEF GetEnd, GetGoto, Gets
<1>13. ASSUME NEW k \in Sets, Operator(k) PROVE TypeOK' BY <1>13 DEF Operator
<1>14. CASE UNCHANGED vars BY <1>14 DEF vars
<1> QED
  BY <1>1, <1>2, <1>3, <1>4, <1>5, <1>6, <1>7, <1>8, <1>9, <1>10, <1>11, <1>12, <1>13, <1>14 DEF Next

\* Every step keeps what is said of the driver: only the steps of reconnect and of the callers that
\* found the transport lost matter.
LEMMA DriverKept == DriverInv /\ SetInv /\ [Next]_vars => DriverInv'
<1> SUFFICES ASSUME DriverInv, SetInv, [Next]_vars PROVE DriverInv'
  OBVIOUS
<1>1. TypeOK' BY TypesKept DEF DriverInv
<1> DEFINE Rest == NoDriverLeaks /\ ClosedMeansReconnecting /\ (opening => ~Connected)
<1> SUFFICES Rest' BY <1>1 DEF DriverInv
<1> USE DEF DriverInv, TypeOK, NoDriverLeaks, ClosedMeansReconnecting, Connected, connection
<1>2. ASSUME UNCHANGED <<driver, leaked, waiting, opening, stopped>> PROVE Rest'
  BY <1>2
\* The transport goes, with or without a call.
<1>3. ASSUME driver = "up", driver' \in {"up", "broken"},
             UNCHANGED <<leaked, waiting, opening, stopped>>
      PROVE  Rest'
  BY <1>3
<1>4. ASSUME HandleTransportError, UNCHANGED stopped PROVE Rest'
  BY <1>4 DEF HandleTransportError, Close
<1>5. CASE Drop BY <1>3, <1>5 DEF Drop
<1>6. CASE Stop BY <1>6 DEF Stop, Close
<1>7. ASSUME NEW c \in Callers, SetBegin(c) PROVE Rest'
  BY <1>2, <1>7 DEF SetBegin
<1>8. ASSUME NEW c \in Callers, SetEdit(c) PROVE Rest'
  BY <1>2, <1>3, <1>8 DEF SetEdit, Answered, AnswerLost, NoAnswer, NilDriver
<1>9. ASSUME NEW c \in Callers, SetDiscard(c) PROVE Rest'
  BY <1>2, <1>9 DEF SetDiscard, Answered, NoAnswer, NilDriver
<1>10. ASSUME NEW c \in Callers, SetCommit(c) PROVE Rest'
  BY <1>2, <1>3, <1>10 DEF SetCommit, Answered, AnswerLost, NoAnswer, NilDriver
<1>11. ASSUME NEW c \in Callers, SetClose(c) PROVE Rest'
  BY <1>4, <1>11 DEF SetClose
<1>12. CASE ReconnectLock BY Zenon, <1>12 DEF ReconnectLock, ReconnectNeeded
<1>13. CASE ReconnectOpen BY <1>13 DEF ReconnectOpen, NewDriver
<1>14. CASE ReconnectFails BY <1>14 DEF ReconnectFails, NewDriver, ReconnectAgain
<1>15. ASSUME NEW g \in Gets, GetBegin(g) \/ GetCall(g) \/ GetClose(g) \/ GetApply(g) PROVE Rest'
  <2>1. CASE GetBegin(g) BY <1>2, <2>1 DEF GetBegin
  <2>2. CASE GetCall(g)
    BY <1>2, <1>3, <2>2 DEF GetCall, Answered, AnswerLost, NoAnswer, NilDriver
  <2>3. CASE GetClose(g) BY <1>4, <2>3 DEF GetClose
  <2>4. CASE GetApply(g) BY <1>2, <2>4 DEF GetApply
  <2> QED BY <1>15, <2>1, <2>2, <2>3, <2>4
<1>16. CASE GetEnd BY <1>2, <1>16 DEF GetEnd
<1>17. ASSUME NEW k \in Sets, Operator(k) PROVE Rest' BY <1>2, <1>17 DEF Operator
<1>18. CASE UNCHANGED vars BY SMTT(20), <1>2, <1>18 DEF vars
<1> QED
  BY <1>5, <1>6, <1>7, <1>8, <1>9, <1>10, <1>11, <1>12, <1>13, <1>14, <1>15, <1>16, <1>17, <1>18
  DEF Next

\* The Set of c goes on or returns.
Moves(c) ==
  /\ set[c].pc # "idle"
  /\ \/ \E p \in {"discard", "commit", "close"} : SetGoto(c, p) /\ set[c].pc # "close"
     \/ \E r \in Results \ {"none"} : Return(c, r) /\ (set[c].pc = "close" => r = "transport")

\* Then the other Sets are where they were, and what was committed or kept before is still.
LEMMA MovesAlone ==
  ASSUME TypeOK, SetInv, NEW c \in Callers, Moves(c)
  PROVE  /\ set[c].id \in Sets /\ set'[c].id = set[c].id
         /\ \A d \in Callers \ {c} : set'[d] = set[d]
         /\ \A k \in Sets \ {set[c].id} : result'[k] = result[k]
         /\ calls' = calls /\ overlap' = overlap
         /\ \A d \in Callers : Numbered(d)'
         /\ \A k \in Sets : KeptInCandidate(k)' => KeptInCandidate(k)
         /\ \A j \in Sets : Carried(j) => Carried(j)'
<1>1. /\ set[c].id \in Sets /\ result[set[c].id] = "none"
      /\ \A d \in Callers \ {c} : set[d].pc # "idle" => set[d].id # set[c].id
  BY Zenon DEF SetInv, Numbered, Moves
<1>2. /\ set'[c].id = set[c].id
      /\ \A d \in Callers \ {c} : set'[d] = set[d]
      /\ calls' = calls /\ overlap' = overlap
  <2>1. PICK p : set' = [set EXCEPT ![c].pc = p] /\ calls' = calls /\ overlap' = overlap
    BY Zenon DEF Moves, SetGoto, Return
  <2>2. set'[c] = [set[c] EXCEPT !.pc = p]
    BY Zenon, <2>1 DEF TypeOK
  <2>3. set[c] \in [pc : {"idle", "edit", "discard", "commit", "close"}, id : 0..MaxSets]
    BY Zenon DEF TypeOK
  <2>4. set'[c].id = set[c].id BY <2>2, <2>3
  <2>5. \A d \in Callers \ {c} : set'[d] = set[d] BY Zenon, <2>1 DEF TypeOK
  <2> QED BY Zenon, <2>1, <2>4, <2>5
<1>3. \A k \in Sets \ {set[c].id} : result'[k] = result[k]
  BY Zenon DEF Moves, SetGoto, Return, TypeOK
<1>4. set'[c].pc # "idle" => result' = result
  <2>1. CASE \E r : Return(c, r)
    <3>1. set'[c] = [set[c] EXCEPT !.pc = "idle"] BY Zenon, <2>1 DEF Return, TypeOK
    <3>2. set[c] \in [pc : {"idle", "edit", "discard", "commit", "close"}, id : 0..MaxSets]
      BY Zenon DEF TypeOK
    <3> QED BY <3>1, <3>2
  <2> QED BY Zenon, <2>1 DEF Moves, SetGoto
<1>5. ASSUME NEW d \in Callers PROVE Numbered(d)'
  <2> SUFFICES ASSUME set'[d].pc # "idle"
               PROVE  /\ set'[d].id \in Sets /\ set'[d].id <= calls' /\ result'[set'[d].id] = "none"
                      /\ \A e \in Callers \ {d} : set'[e].pc # "idle" =>
                           set'[e].id # set'[d].id /\ set'[e].id \in overlap'[set'[d].id]
    BY Zenon DEF Numbered
  <2>1. set[d].pc # "idle" /\ set'[d].id = set[d].id
    BY Zenon, <1>2 DEF Moves
  <2>2. Numbered(d) BY Zenon DEF SetInv
  <2>3. result'[set[d].id] = "none"
    BY Zenon, <1>1, <1>2, <1>3, <1>4, <2>1, <2>2 DEF Numbered
  <2>4. \A e \in Callers : set'[e].pc # "idle" => set[e].pc # "idle" /\ set'[e].id = set[e].id
    BY Zenon, <1>2 DEF Moves
  <2> QED BY Zenon, <1>2, <2>1, <2>2, <2>3, <2>4 DEF Numbered
<1>6. ASSUME NEW k \in Sets, KeptInCandidate(k)' PROVE KeptInCandidate(k)
  BY Zenon, <1>1, <1>2, <1>3, <1>6 DEF KeptInCandidate, TypeOK
<1>7. ASSUME NEW j \in Sets, Carried(j) PROVE Carried(j)'
  <2>1. CASE result[j] \in {"ok", "transport"}
    BY Zenon, <1>1, <1>3, <2>1 DEF Carried
  <2>2. ASSUME NEW d \in Callers, set[d] = [pc |-> "close", id |-> j] PROVE Carried(j)'
    <3>1. CASE d # c
      BY Zenon, <1>2, <2>2, <3>1 DEF Carried
    <3>2. CASE d = c
      <4>1. set[c].pc = "close" /\ set[c].id = j BY <2>2, <3>2
      <4>2. result'[j] = "transport"
        BY Zenon, <4>1 DEF Moves, Return, TypeOK
      <4> QED BY Zenon, <4>2 DEF Carried
    <3> QED BY Zenon, <3>1, <3>2
  <2> QED BY Zenon, <1>7, <2>1, <2>2 DEF Carried
<1> QED BY Zenon, <1>1, <1>2, <1>3, <1>5, <1>6, <1>7

\* What the step may do to the shared candidate and to the device, k being another Set: it reaches
\* the device only from the candidate, by a commit, and leaves the candidate only by a discard.
Shares(c) ==
  \A k \in Sets \ {set[c].id} :
    /\ k \in candidate' => k \in candidate \cup devRunning
    /\ k \in devRunning' => \/ k \in devRunning
                            \/ k \in candidate /\ \E j \in {set[c].id} : Carried(j)'
    /\ k \in candidate /\ k \notin candidate' => result'[set[c].id] = "editError"
    /\ k \in candidate' /\ k \notin devRunning' => k \in candidate /\ k \notin devRunning

\* Then the invariant holds of the others.
LEMMA OthersKept ==
  ASSUME TypeOK, SetInv, NEW c \in Callers, Moves(c), mode = "candidate" => Shares(c),
         UNCHANGED environment, Placed(c)', \A k \in {set[c].id} : Settled(k)'
  PROVE  SetInv'
<1>0. mode' = mode /\ fault' = fault BY Zenon DEF environment
<1> DEFINE i == set[c].id
<1>1. /\ i \in Sets /\ \A d \in Callers \ {c} : set'[d] = set[d]
      /\ \A k \in Sets \ {i} : result'[k] = result[k]
      /\ calls' = calls /\ overlap' = overlap
      /\ \A d \in Callers : Numbered(d)'
      /\ \A k \in Sets : KeptInCandidate(k)' => KeptInCandidate(k)
      /\ \A j \in Sets : Carried(j) => Carried(j)'
  BY Zenon, MovesAlone
<1>2. \A k \in Sets : overlap[k] \subseteq Sets BY Zenon DEF TypeOK
<1>3. ASSUME NEW d \in Callers \ {c} PROVE Placed(d)'
  <2> DEFINE k == set[d].id
  <2>1. Placed(d) /\ set'[d] = set[d] BY Zenon, <1>1 DEF SetInv
  <2>2. set[d].pc # "idle" => k \in Sets \ {i} /\ i \in overlap[k]
    BY Zenon DEF SetInv, Numbered, Moves
  <2>3. set'[d].pc \in {"discard", "commit"} => mode' = "candidate"
    BY Zenon, <1>0, <2>1 DEF Placed
  <2>4. ASSUME set'[d].pc = "commit", fault' # "restart",
               \A j \in overlap'[set'[d].id] : result'[j] # "editError"
        PROVE  set'[d].id \in candidate'
    <3>0. set[d].pc = "commit" /\ set'[d].id = k BY Zenon, <2>1, <2>4
    <3>1. "commit" # "idle" OBVIOUS
    <3>2. k \in Sets \ {i} /\ i \in overlap[k] BY Zenon, <2>2, <3>0, <3>1
    <3>3. KeptInCandidate(k)' BY Zenon, <2>4, <3>0 DEF KeptInCandidate
    <3>4. KeptInCandidate(k) BY Zenon, <1>1, <3>2, <3>3
    <3>5. k \in candidate /\ mode = "candidate" BY Zenon, <1>0, <2>1, <2>4, <3>0, <3>4 DEF Placed
    <3>6. result'[i] # "editError" BY Zenon, <1>1, <3>2, <3>3 DEF KeptInCandidate
    <3> QED BY Zenon, <3>0, <3>2, <3>5, <3>6 DEF Shares
  <2>5. ASSUME mode' = "candidate", set'[d].pc = "edit" PROVE set'[d].id \notin candidate' \cup devRunning'
    <3>1. "edit" # "idle" OBVIOUS
    <3> QED BY Zenon, <1>0, <2>1, <2>2, <2>5, <3>1 DEF Placed, Shares
  <2>6. ASSUME mode' = "candidate", set'[d].pc = "discard", set'[d].id \in devRunning'
        PROVE  \E j \in overlap'[set'[d].id] : Carried(j)'
    <3>1. "discard" # "idle" OBVIOUS
    <3>2. k \in Sets \ {i} /\ i \in overlap[k] BY Zenon, <2>1, <2>2, <2>6, <3>1
    <3>3. CASE k \in devRunning
      BY Zenon, <1>0, <1>1, <1>2, <2>1, <2>6, <3>2, <3>3 DEF Placed
    <3>4. CASE k \notin devRunning
      BY Zenon, <1>0, <1>1, <2>1, <2>6, <3>2, <3>4 DEF Shares
    <3> QED BY Zenon, <3>3, <3>4
  <2> QED BY Zenon, <2>3, <2>4, <2>5, <2>6 DEF Placed, KeptInCandidate
<1>4. ASSUME NEW k \in Sets \ {i} PROVE Settled(k)'
  <2>1. Settled(k) /\ result'[k] = result[k] BY Zenon, <1>1 DEF SetInv
  <2>2. ASSUME mode' = "candidate", result'[k] = "editError", k \in devRunning'
        PROVE  \E j \in overlap'[k] : Carried(j)'
    <3>1. k \in devRunning BY Zenon, <1>0, <2>1, <2>2 DEF Settled, Shares
    <3> QED BY Zenon, <1>0, <1>1, <1>2, <2>1, <2>2, <3>1 DEF Settled
  <2> QED BY Zenon, <1>0, <1>1, <2>1, <2>2 DEF Settled, Shares
<1> QED BY Zenon, <1>1, <1>3, <1>4 DEF SetInv

\* The same with what has to be shown of the Set itself spelled out.
LEMMA SetGoesOn ==
  ASSUME TypeOK, SetInv, NEW c \in Callers, Moves(c), mode = "candidate" => Shares(c),
         UNCHANGED environment, NEW i, i = set[c].id,
         set'[c].pc # "edit",
         set'[c].pc \in {"discard", "commit"} => mode = "candidate",
         set'[c].pc = "commit" => i \in candidate',
         set'[c].pc = "discard" => i \notin devRunning',
         result'[i] # "notConnected",
         mode = "candidate" /\ result'[i] = "editError" =>
           /\ i \in candidate' => i \in devRunning'
           /\ i \in devRunning' => \E j \in overlap[i] : Carried(j)
  PROVE  SetInv'
<1>1. /\ i \in Sets /\ set'[c].id = i /\ calls' = calls /\ overlap' = overlap
      /\ \A j \in Sets : Carried(j) => Carried(j)'
  BY Zenon, MovesAlone
<1>2. mode' = mode BY Zenon DEF environment
<1>3. i <= calls /\ i \in Sets BY Zenon DEF SetInv, Numbered, Moves
<1>4. ~(calls < i) BY <1>3 DEF TypeOK, Sets
<1>5. overlap[i] \subseteq Sets BY Zenon, <1>1 DEF TypeOK
<1>6. Placed(c)' BY Zenon, <1>1, <1>2 DEF Placed
<1>7. \A k \in {i} : Settled(k)' BY Zenon, <1>1, <1>2, <1>4, <1>5 DEF Settled
<1> QED BY Zenon, <1>6, <1>7, OthersKept

\* Where a Set is after SetGoto or Return.
LEMMA GoesTo ==
  ASSUME TypeOK, NEW c \in Callers
  PROVE  /\ \A p : SetGoto(c, p) => /\ set'[c] = [pc |-> p, id |-> set[c].id]
                                    /\ set'[c].pc = p /\ result' = result
         /\ \A r : Return(c, r) => /\ set'[c].pc = "idle"
                                   /\ set[c].id \in Sets => result'[set[c].id] = r
<1>1. /\ set[c] \in [pc : {"idle", "edit", "discard", "commit", "close"}, id : 0..MaxSets]
      /\ set \in [Callers -> [pc : {"idle", "edit", "discard", "commit", "close"}, id : 0..MaxSets]]
  BY Zenon DEF TypeOK
<1>2. ASSUME NEW p, set' = [set EXCEPT ![c].pc = p]
      PROVE  set'[c] = [pc |-> p, id |-> set[c].id] /\ set'[c].pc = p
  <2>1. set'[c] = [set[c] EXCEPT !.pc = p] BY Zenon, <1>1, <1>2
  <2> QED BY <1>1, <2>1
<1>3. ASSUME NEW r, Return(c, r), set[c].id \in Sets PROVE result'[set[c].id] = r
  BY Zenon, <1>3 DEF Return, TypeOK
<1> QED BY Zenon, <1>2, <1>3 DEF SetGoto, Return

\* Every step keeps what is said of the Sets.
LEMMA SetKept == TypeOK /\ SetInv /\ [Next]_vars => SetInv'
<1> SUFFICES ASSUME TypeOK, SetInv, [Next]_vars PROVE SetInv'
  BY Zenon
<1> USE DEF device, environment, calling
<1>1. ASSUME UNCHANGED <<calling, devRunning, environment>>, candidate' = candidate \/ candidate' = devRunning,
             candidate' # candidate => fault = "restart"
      PROVE  SetInv'
  <2>0. /\ calls' = calls /\ set' = set /\ result' = result /\ overlap' = overlap
        /\ devRunning' = devRunning /\ mode' = mode /\ fault' = fault
    BY Zenon, <1>1
  <2>1. ASSUME NEW c \in Callers PROVE Numbered(c)' /\ Placed(c)'
    BY Zenon, <1>1, <2>0 DEF SetInv, Numbered, Placed, KeptInCandidate, Carried
  <2>2. ASSUME NEW k \in Sets PROVE Settled(k)'
    BY Zenon, <1>1, <2>0 DEF SetInv, Settled, Carried
  <2> QED BY Zenon, <2>1, <2>2 DEF SetInv
<1>2. CASE Drop BY Zenon, <1>1, <1>2 DEF Drop
<1>3. CASE Stop BY Zenon, <1>1, <1>3 DEF Stop
<1>4. ASSUME NEW c \in Callers, SetBegin(c) PROVE SetInv'
  <2> DEFINE n == calls + 1
  <2>1. /\ n \in Sets /\ calls' = n /\ calls < n /\ n <= n
        /\ \A k \in Sets : /\ k <= calls => k <= n /\ k # n
                           /\ n < k => calls < k /\ k # n
    BY <1>4, BoundsAssumption DEF SetBegin, TypeOK, Sets
  <2>2. devRunning' = devRunning /\ candidate' = candidate /\ mode' = mode /\ fault' = fault
    BY Zenon, <1>4 DEF SetBegin
  <2>3. Settled(n) /\ result[n] = "none" BY Zenon, <2>1 DEF SetInv, Settled
  <2>4. \A d \in Callers : set[d].pc # "idle" => set[d].id \in Sets \ {n}
    BY Zenon, <2>1 DEF SetInv, Numbered
  <2>5. \A k \in Sets : overlap[k] \subseteq Sets BY Zenon DEF TypeOK
  <2> HIDE DEF n
  <2>6. CASE ~Connected
    <3>1. set' = set /\ overlap' = overlap /\ result' = [result EXCEPT ![n] = "notConnected"]
      BY Zenon, <1>4, <2>6 DEF SetBegin, n
    <3>2. result'[n] = "notConnected" /\ \A k \in Sets \ {n} : result'[k] = result[k]
      BY Zenon, <2>1, <3>1 DEF TypeOK
    <3>3. ASSUME NEW d \in Callers PROVE Numbered(d)'
      BY Zenon, <2>1, <2>4, <3>1, <3>2 DEF SetInv, Numbered
    <3>4. \A j \in Sets : Carried(j) => Carried(j)'
      BY Zenon, <2>3, <3>1, <3>2 DEF Carried
    <3>5. ASSUME NEW d \in Callers PROVE Placed(d)'
      <4>1. "commit" # "idle" /\ "discard" # "idle" OBVIOUS
      <4>2. ASSUME set[d].pc = "commit", \A j \in overlap[set[d].id] : result'[j] # "editError",
                   fault # "restart"
            PROVE  set[d].id \in candidate
        <5>1. \A j \in overlap[set[d].id] : result[j] # "editError"
          BY Zenon, <2>3, <2>4, <2>5, <3>2, <4>1, <4>2
        <5> QED BY Zenon, <4>2, <5>1 DEF SetInv, Placed, KeptInCandidate
      <4>3. ASSUME mode = "candidate", set[d].pc = "discard", set[d].id \in devRunning
            PROVE  \E j \in overlap[set[d].id] : Carried(j)'
        BY Zenon, <2>4, <2>5, <3>4, <4>1, <4>3 DEF SetInv, Placed
      <4> QED BY Zenon, <2>2, <3>1, <4>2, <4>3 DEF SetInv, Placed, KeptInCandidate
    <3>6. ASSUME NEW k \in Sets PROVE Settled(k)'
      <4>1. CASE k = n
        BY Zenon, <2>1, <2>2, <2>3, <3>1, <3>2, <4>1 DEF Settled
      <4>2. CASE k # n
        BY Zenon, <2>1, <2>2, <2>5, <3>1, <3>2, <3>4, <4>2 DEF SetInv, Settled
      <4> QED BY Zenon, <4>1, <4>2
    <3> QED BY Zenon, <3>3, <3>5, <3>6 DEF SetInv
  <2>7. CASE Connected
    <3>1. /\ set' = [set EXCEPT ![c] = [pc |-> "edit", id |-> n]] /\ result' = result
          /\ overlap' = [k \in Sets |-> IF k = n THEN InProgress
                                        ELSE IF k \in InProgress THEN overlap[k] \cup {n}
                                        ELSE overlap[k]]
      BY Zenon, <1>4, <2>7 DEF SetBegin, n
    <3>2. /\ set'[c].pc = "edit" /\ set'[c].id = n
          /\ \A d \in Callers \ {c} : set'[d] = set[d]
      BY <3>1 DEF TypeOK
    <3>3. \A d \in Callers : set[d].pc # "idle" => set[d].id \in InProgress
      BY DEF InProgress
    <3>4. /\ overlap'[n] = InProgress
          /\ \A k \in Sets \ {n} : /\ overlap[k] \subseteq overlap'[k]
                                   /\ k \in InProgress => n \in overlap'[k]
      BY Zenon, <2>1, <3>1
    <3>5. set[c].pc = "idle" BY Zenon, <1>4 DEF SetBegin
    <3>6. ASSUME NEW d \in Callers PROVE Numbered(d)'
      <4>1. CASE d = c
        <5>1. set'[c].id \in Sets /\ set'[c].id <= calls' /\ result'[set'[c].id] = "none"
          BY Zenon, <2>1, <2>3, <3>1, <3>2
        <5>2. ASSUME NEW e \in Callers \ {c}, set'[e].pc # "idle"
              PROVE  set'[e].id # set'[c].id /\ set'[e].id \in overlap'[set'[c].id]
          <6>1. set'[e] = set[e] BY Zenon, <3>2
          <6>2. set[e].pc # "idle" BY Zenon, <5>2, <6>1
          <6>3. set[e].id \in Sets \ {n} /\ set[e].id \in InProgress BY Zenon, <2>4, <3>3, <6>2
          <6> QED BY Zenon, <3>2, <3>4, <6>1, <6>3
        <5> QED BY Zenon, <4>1, <5>1, <5>2 DEF Numbered
      <4>2. CASE d # c
        <5> SUFFICES ASSUME set[d].pc # "idle"
                     PROVE  /\ set[d].id \in Sets /\ set[d].id <= n /\ result[set[d].id] = "none"
                            /\ \A e \in Callers \ {d} : set'[e].pc # "idle" =>
                                 set'[e].id # set[d].id /\ set'[e].id \in overlap'[set[d].id]
          BY Zenon, <2>1, <3>1, <3>2, <4>2 DEF Numbered
        <5>1. /\ set[d].id \in Sets \ {n} /\ set[d].id <= n /\ result[set[d].id] = "none"
              /\ \A e \in Callers \ {d} : set[e].pc # "idle" =>
                   set[e].id # set[d].id /\ set[e].id \in overlap[set[d].id]
          BY Zenon, <2>1, <2>4 DEF SetInv, Numbered
        <5>2. n \in overlap'[set[d].id] /\ overlap[set[d].id] \subseteq overlap'[set[d].id]
          BY Zenon, <3>3, <3>4, <5>1
        <5> QED BY Zenon, <3>2, <5>1, <5>2
      <4> QED BY Zenon, <4>1, <4>2
    <3>7. \A j \in Sets : Carried(j) => Carried(j)'
      <4>1. \A j : set[c] # [pc |-> "close", id |-> j] BY <3>5
      <4> QED BY Zenon, <3>1, <3>2, <4>1 DEF Carried
    <3>8. ASSUME NEW d \in Callers PROVE Placed(d)'
      <4>1. CASE d = c
        <5>1. "edit" # "commit" /\ "edit" # "discard" OBVIOUS
        <5> QED BY Zenon, <2>1, <2>2, <2>3, <3>2, <4>1, <5>1 DEF Placed, Settled
      <4>2. CASE d # c
        <5>1. Placed(d) /\ set'[d] = set[d] BY Zenon, <3>2, <4>2 DEF SetInv
        <5>2. set[d].pc # "idle" => overlap[set[d].id] \subseteq overlap'[set[d].id]
          BY Zenon, <2>4, <3>4
        <5>3. "commit" # "idle" /\ "discard" # "idle" OBVIOUS
        <5>4. ASSUME mode' = "candidate", set'[d].pc = "discard", set'[d].id \in devRunning'
              PROVE  \E j \in overlap'[set'[d].id] : Carried(j)'
          BY Zenon, <2>2, <2>4, <2>5, <3>7, <5>1, <5>2, <5>3, <5>4 DEF Placed
        <5>5. ASSUME set'[d].pc = "commit", fault' # "restart",
                     \A j \in overlap'[set'[d].id] : result'[j] # "editError"
              PROVE  set'[d].id \in candidate'
          <6>1. set[d].pc = "commit" /\ fault # "restart" BY Zenon, <2>2, <5>1, <5>5
          <6>2. KeptInCandidate(set[d].id)
            BY Zenon, <3>1, <5>1, <5>2, <5>3, <5>5, <6>1 DEF KeptInCandidate
          <6> QED BY Zenon, <2>2, <5>1, <6>1, <6>2 DEF Placed
        <5>6. /\ set'[d].pc \in {"discard", "commit"} => mode' = "candidate"
              /\ mode' = "candidate" /\ set'[d].pc = "edit" => set'[d].id \notin candidate' \cup devRunning'
          BY Zenon, <2>2, <5>1 DEF Placed
        <5> QED BY Zenon, <5>4, <5>5, <5>6 DEF Placed, KeptInCandidate
      <4> QED BY Zenon, <4>1, <4>2
    <3>9. ASSUME NEW k \in Sets PROVE Settled(k)'
      <4>1. CASE k = n
        BY Zenon, <2>1, <2>2, <2>3, <3>1, <4>1 DEF Settled
      <4>2. CASE k # n
        BY Zenon, <2>1, <2>2, <2>5, <3>1, <3>4, <3>7, <4>2 DEF SetInv, Settled
      <4> QED BY Zenon, <4>1, <4>2
    <3> QED BY Zenon, <3>6, <3>8, <3>9 DEF SetInv
  <2> QED BY Zenon, <2>6, <2>7
<1>5. ASSUME NEW c \in Callers, SetEdit(c) PROVE SetInv'
  <2> DEFINE i == set[c].id
  <2>0. UNCHANGED environment BY Zenon, <1>5 DEF SetEdit
  <2>1. set[c].pc # "idle" BY <1>5 DEF SetEdit
  <2>2. i \in Sets /\ result[i] = "none" /\ Placed(c) BY Zenon, <2>1 DEF SetInv, Numbered
  <2>3. set[c].pc = "edit" BY Zenon, <1>5 DEF SetEdit
  <2>4. CASE driver = "nil"
    <3>1. UNCHANGED <<calling, device>>
      BY Zenon, <1>5, <2>4 DEF SetEdit, Answered, AnswerLost, NoAnswer
    <3> QED BY Zenon, <1>1, <2>0, <3>1
  <2>5. CASE mode = "candidate" /\ driver # "nil"
    <3>1. \E p \in {"commit", "discard", "close"} : SetGoto(c, p) /\ (p = "commit" => i \in candidate')
      BY Zenon, <1>5, <2>5 DEF SetEdit, EditRefused, Edit, Edited, NilDriver
    <3>2. devRunning' = devRunning /\ (candidate' = candidate \/ candidate' = candidate \cup {i})
      BY Zenon, <1>5, <2>5 DEF SetEdit, Edit, Edited, NilDriver
    <3>3. Moves(c) BY Zenon, <2>1, <2>3, <3>1 DEF Moves
    <3>4. Shares(c) BY Zenon, <3>2 DEF Shares
    <3>5. i \notin devRunning BY Zenon, <2>2, <2>3, <2>5 DEF Placed
    <3>6. PICK p \in {"commit", "discard", "close"} : SetGoto(c, p) /\ (p = "commit" => i \in candidate')
      BY Zenon, <3>1
    <3>7. set'[c].pc = p /\ result'[i] = "none" BY Zenon, <2>2, <3>6, GoesTo
    <3> QED BY Zenon, <2>0, <2>5, <3>2, <3>3, <3>4, <3>5, <3>6, <3>7, SetGoesOn
  <2>6. CASE mode # "candidate" /\ driver # "nil"
    <3>1. SetGoto(c, "close") \/ Return(c, "ok") \/ Return(c, "editError")
      BY Zenon, <1>5, <2>6 DEF SetEdit, EditRefused, NilDriver
    <3>2. Moves(c) BY Zenon, <2>1, <2>3, <3>1 DEF Moves, Results
    <3>3. set'[c].pc \in {"close", "idle"} /\ result'[i] # "notConnected"
      <4>1. CASE SetGoto(c, "close") BY Zenon, <2>2, <4>1, GoesTo
      <4>2. CASE Return(c, "ok")
        <5>1. set'[c].pc = "idle" /\ result'[i] = "ok" BY Zenon, <2>2, <4>2, GoesTo
        <5> QED BY <5>1
      <4>3. CASE Return(c, "editError")
        <5>1. set'[c].pc = "idle" /\ result'[i] = "editError" BY Zenon, <2>2, <4>3, GoesTo
        <5> QED BY <5>1
      <4> QED BY Zenon, <3>1, <4>1, <4>2, <4>3
    <3> QED BY Zenon, <2>0, <2>6, <3>2, <3>3, SetGoesOn
  <2> QED BY Zenon, <2>4, <2>5, <2>6
<1>6. ASSUME NEW c \in Callers, SetDiscard(c) PROVE SetInv'
  <2> DEFINE i == set[c].id
  <2>0. UNCHANGED environment BY Zenon, <1>6 DEF SetDiscard
  <2>1. set[c].pc # "idle" BY <1>6 DEF SetDiscard
  <2>2. i \in Sets /\ result[i] = "none" /\ Placed(c) BY Zenon, <2>1 DEF SetInv, Numbered
  <2>3. set[c].pc = "discard" /\ mode = "candidate" /\ devRunning' = devRunning
    BY Zenon, <1>6, <2>2 DEF SetDiscard, Placed
  <2>4. CASE NilDriver /\ UNCHANGED <<calling, candidate>> BY Zenon, <1>1, <2>0, <2>3, <2>4
  <2>5. CASE candidate' = devRunning /\ Return(c, "editError")
    <3>1. Moves(c) BY Zenon, <2>1, <2>3, <2>5 DEF Moves, Results
    <3>2. set'[c].pc = "idle" /\ result'[i] = "editError" BY Zenon, <2>2, <2>5, GoesTo
    <3>3. Shares(c) BY Zenon, <2>3, <2>5, <3>2 DEF Shares
    <3>4. i \in devRunning => \E j \in overlap[i] : Carried(j) BY Zenon, <2>2, <2>3 DEF Placed
    <3> QED BY Zenon, <2>0, <2>3, <2>5, <3>1, <3>2, <3>3, <3>4, SetGoesOn
  <2>6. CASE UNCHANGED candidate /\ Return(c, "discardError")
    <3>1. Moves(c) BY Zenon, <2>1, <2>3, <2>6 DEF Moves, Results
    <3>2. set'[c].pc = "idle" /\ result'[i] = "discardError" BY Zenon, <2>2, <2>6, GoesTo
    <3>3. Shares(c) BY Zenon, <2>3, <2>6 DEF Shares
    <3> QED BY Zenon, <2>0, <3>1, <3>2, <3>3, SetGoesOn
  <2> QED BY Zenon, <1>6, <2>4, <2>5, <2>6 DEF SetDiscard
<1>7. ASSUME NEW c \in Callers, SetCommit(c) PROVE SetInv'
  <2> DEFINE i == set[c].id
  <2>0. UNCHANGED environment BY Zenon, <1>7 DEF SetCommit
  <2>1. set[c].pc # "idle" BY <1>7 DEF SetCommit
  <2>2. i \in Sets /\ result[i] = "none" /\ Placed(c) BY Zenon, <2>1 DEF SetInv, Numbered
  <2>3. set[c].pc = "commit" /\ candidate' = candidate
    BY Zenon, <1>7 DEF SetCommit
  <2>4. CASE NilDriver /\ UNCHANGED <<calling, devRunning>> BY Zenon, <1>1, <2>0, <2>3, <2>4
  <2>5. ASSUME devRunning' = candidate \/ UNCHANGED devRunning, Moves(c),
               set'[c].pc \in {"idle", "close"}, result'[i] \notin {"notConnected", "editError"},
               devRunning' = candidate => \E j \in {i} : Carried(j)'
        PROVE  SetInv'
    <3>1. Shares(c)
      BY Zenon, <2>3, <2>5 DEF Shares
    <3> QED BY Zenon, <2>0, <2>5, <3>1, SetGoesOn
  <2>6. CASE Return(c, "ok") /\ devRunning' = candidate
    <3>1. Moves(c) BY Zenon, <2>1, <2>3, <2>6 DEF Moves, Results
    <3>2. set'[c].pc = "idle" /\ result'[i] = "ok" BY Zenon, <2>2, <2>6, GoesTo
    <3>3. \E j \in {i} : Carried(j)' BY Zenon, <3>2 DEF Carried
    <3> QED BY Zenon, <2>5, <2>6, <3>1, <3>2, <3>3
  <2>7. CASE Return(c, "commitError") /\ UNCHANGED devRunning
    <3>1. Moves(c) BY Zenon, <2>1, <2>3, <2>7 DEF Moves, Results
    <3>2. set'[c].pc = "idle" /\ result'[i] = "commitError" BY Zenon, <2>2, <2>7, GoesTo
    <3>3. Shares(c) BY Zenon, <2>3, <2>7 DEF Shares
    <3> QED BY Zenon, <2>0, <3>1, <3>2, <3>3, SetGoesOn
  <2>8. CASE SetGoto(c, "close") /\ (devRunning' = candidate \/ UNCHANGED devRunning)
    <3>1. Moves(c) BY Zenon, <2>1, <2>3, <2>8 DEF Moves
    <3>2. set'[c] = [pc |-> "close", id |-> i] /\ set'[c].pc = "close" /\ result'[i] = "none"
      BY Zenon, <2>2, <2>8, GoesTo
    <3>3. \E j \in {i} : Carried(j)' BY Zenon, <3>2 DEF Carried
    <3> QED BY Zenon, <2>5, <2>8, <3>1, <3>2, <3>3
  <2> QED BY Zenon, <1>7, <2>4, <2>6, <2>7, <2>8 DEF SetCommit, Committed
<1>8. ASSUME NEW c \in Callers, SetClose(c) PROVE SetInv'
  <2> DEFINE i == set[c].id
  <2>0. UNCHANGED environment BY Zenon, <1>8 DEF SetClose
  <2>1. set[c].pc # "idle" BY <1>8 DEF SetClose
  <2>2. i \in Sets /\ result[i] = "none" /\ Placed(c) BY Zenon, <2>1 DEF SetInv, Numbered
  <2>3. set[c].pc = "close" /\ UNCHANGED device /\ Return(c, "transport")
    BY Zenon, <1>8 DEF SetClose
  <2>4. Moves(c) BY Zenon, <2>1, <2>3 DEF Moves, Results
  <2>5. set'[c].pc = "idle" /\ result'[i] = "transport" BY Zenon, <2>2, <2>3, GoesTo
  <2>6. Shares(c) BY Zenon, <2>3 DEF Shares
  <2> QED BY Zenon, <2>0, <2>4, <2>5, <2>6, SetGoesOn
<1>9. CASE ReconnectLock \/ ReconnectOpen \/ ReconnectFails \/ GetEnd
  BY Zenon, <1>1, <1>9 DEF ReconnectLock, ReconnectOpen, ReconnectFails, GetEnd
<1>10. ASSUME NEW g \in Gets, GetBegin(g) \/ GetCall(g) \/ GetClose(g) \/ GetApply(g) PROVE SetInv'
  BY Zenon, <1>1, <1>10 DEF GetBegin, GetCall, GetClose, GetApply
<1>11. ASSUME NEW k \in Sets, Operator(k) PROVE SetInv'
  <2>1. /\ set' = set /\ result' = result /\ calls' = calls /\ overlap' = overlap /\ mode' = mode
        /\ fault' = fault /\ devRunning' = devRunning \ {k} /\ candidate' = candidate \ {k}
    BY Zenon, <1>11 DEF Operator
  <2>2. \A c \in Callers : set[c].pc = "idle" BY <1>11 DEF Operator, InProgress
  <2>3. ASSUME NEW c \in Callers PROVE Numbered(c)' /\ Placed(c)'
    BY <2>1, <2>2, <2>3 DEF Numbered, Placed
  <2>4. ASSUME NEW j \in Sets PROVE Settled(j)'
    BY Zenon, <2>1 DEF SetInv, Settled, Carried
  <2> QED BY Zenon, <2>3, <2>4 DEF SetInv
<1>12. CASE UNCHANGED vars BY Zenon, <1>1, <1>12 DEF vars
<1> QED
  BY Zenon, <1>2, <1>3, <1>4, <1>5, <1>6, <1>7, <1>8, <1>9, <1>10, <1>11, <1>12 DEF Next

\* Both together, for every behaviour.
LEMMA Invariance == Spec => [](DriverInv /\ SetInv)
<1>1. DriverInv /\ SetInv /\ [Next]_vars => (DriverInv /\ SetInv)'
  BY DriverKept, SetKept DEF DriverInv
<1> QED BY <1>1, Initially, PTL DEF Spec

\* The reconnect goroutines started by Set and by the syncs replace only closed drivers, and a
\* driver that was closed is being replaced unless the target was stopped (nc.go, reconnect).
THEOREM DriversAreReplaced == Spec => []DriverInv
BY Invariance, PTL

\* What a Set refused reaches the device only by the commit of a Set that overlapped it, never by
\* a later one (setToDevice discards the candidate).
THEOREM RefusedSetsStayOut == Spec => []RefusedStaysOut
<1>1. TypeOK /\ SetInv => RefusedStaysOut
  BY Zenon DEF TypeOK, SetInv, Settled, RefusedStaysOut
<1>2. DriverInv => TypeOK BY Zenon DEF DriverInv
<1> QED BY <1>1, <1>2, Invariance, PTL

\* A Set that returns without an error is on the device (setToDevice returns the result of the
\* edit, or of the commit that follows it), unless one that overlapped it was discarded.
THEOREM SuccessMeansCommitted == Spec => OkMeansCommitted
<1> DEFINE A == \A k \in Sets : result'[k] = "ok" /\ result[k] # "ok" /\ KeptInCandidate(k)
                                  /\ fault # "restart" => k \in devRunning'
<1>1. TypeOK /\ SetInv /\ [Next]_vars => [A]_vars
  <2> SUFFICES ASSUME TypeOK, SetInv, Next, NEW k \in Sets, result'[k] = "ok", result[k] # "ok",
                      KeptInCandidate(k), fault # "restart"
               PROVE  k \in devRunning'
    BY Zenon
  <2>1. ASSUME NEW c \in Callers, NEW r, Return(c, r) PROVE r = "ok" /\ set[c].id = k
    BY Zenon, <2>1 DEF Return, TypeOK
  <2>2. ASSUME NEW c \in Callers, SetEdit(c) PROVE k \in devRunning'
    <3>1. \/ Return(c, "ok") /\ Edit(Edited \cup {set[c].id}) /\ mode # "candidate"
          \/ Return(c, "editError") \/ result' = result
      BY Zenon, <2>2 DEF SetEdit, EditRefused, SetGoto, calling
    <3>2. ~Return(c, "editError") BY <2>1
    <3>3. result' # result BY Zenon
    <3> QED BY Zenon, <2>1, <3>1, <3>2, <3>3 DEF Edit
  <2>3. ASSUME NEW c \in Callers, SetCommit(c) PROVE k \in devRunning'
    <3>1. Placed(c) /\ set[c].pc = "commit" BY Zenon, <2>3 DEF SetInv, SetCommit
    <3>2. (Return(c, "ok") /\ devRunning' = candidate) \/ Return(c, "commitError") \/ result' = result
      BY Zenon, <2>3 DEF SetCommit, Committed, SetGoto, calling
    <3>3. ~Return(c, "commitError") BY <2>1
    <3>4. result' # result BY Zenon
    <3>5. Return(c, "ok") /\ devRunning' = candidate /\ set[c].id = k BY Zenon, <2>1, <3>2, <3>3, <3>4
    <3> QED BY Zenon, <3>1, <3>5 DEF Placed
  <2>4. ASSUME NEW c \in Callers, SetBegin(c) \/ SetDiscard(c) \/ SetClose(c) PROVE FALSE
    <3>1. ASSUME SetBegin(c) PROVE FALSE
      BY Zenon, <3>1 DEF SetBegin, TypeOK
    <3>2. SetDiscard(c) => Return(c, "editError") \/ Return(c, "discardError") \/ result' = result
      BY Zenon DEF SetDiscard, calling
    <3>3. SetClose(c) => Return(c, "transport") BY Zenon DEF SetClose
    <3>4. ~Return(c, "editError") /\ ~Return(c, "discardError") /\ ~Return(c, "transport")
      BY <2>1
    <3>5. result' # result BY Zenon
    <3> QED BY Zenon, <2>4, <3>1, <3>2, <3>3, <3>4, <3>5
  <2>5. CASE UNCHANGED result BY Zenon, <2>5
  <2>6. \/ \E c \in Callers : SetBegin(c) \/ SetEdit(c) \/ SetDiscard(c) \/ SetCommit(c) \/ SetClose(c)
        \/ UNCHANGED result
    BY Zenon DEF Next, Drop, Stop, ReconnectLock, ReconnectOpen, ReconnectFails, GetBegin, GetCall,
           GetClose, GetApply, GetEnd, Operator, calling
  <2> QED BY Zenon, <2>2, <2>3, <2>4, <2>5, <2>6
<1>2. Spec => [](TypeOK /\ SetInv)
  <2>1. DriverInv => TypeOK BY Zenon DEF DriverInv
  <2> QED BY <2>1, Invariance, PTL
<1> QED BY <1>1, <1>2, PTL DEF Spec, OkMeansCommitted
====
