-------------------------- MODULE StreamSyncProofs --------------------------
(***************************************************************************)
(* Proofs about StreamSync, for any number of notifications, leafs,        *)
(* workers and SyncResponses and any size of updChan: the goroutines       *)
(* together implement RunningFeed, commits overlap only because of         *)
(* SyncResponses, and, when one SyncResponse means one commit, running     *)
(* follows the device.                                                     *)
(*                                                                         *)
(* The refinement rests on PlaceInv: a notification is in one place at a   *)
(* time, on its way from respChan to the tree a commit works on.           *)
(***************************************************************************)
EXTENDS StreamSync, FiniteSetTheorems, TLAPS

-----------------------------------------------------------------------------
(* Sequences *)

\* No number above 0 occurs twice.
Once(s) == \A i, j \in DOMAIN s : s[i] = s[j] /\ s[i] > 0 => i = j

LEMMA AppendRange ==
  ASSUME NEW X \in SUBSET Int, NEW s \in Seq(X), NEW x \in X
  PROVE  /\ Append(s, x) \in Seq(X)
         /\ Range(Append(s, x)) = Range(s) \cup {x}
         /\ Once(s) /\ (x > 0 => x \notin Range(s)) => Once(Append(s, x))
<1> DEFINE t == Append(s, x)
<1>1. /\ t \in Seq(X) /\ Len(s) \in Nat /\ DOMAIN s = 1..Len(s) /\ DOMAIN t = 1..(Len(s) + 1)
      /\ t[Len(s) + 1] = x /\ \A i \in 1..Len(s) : t[i] = s[i]
  OBVIOUS
<1> HIDE DEF t
<1>2. 1..(Len(s) + 1) = 1..Len(s) \cup {Len(s) + 1} BY <1>1
<1>3. Range(t) = Range(s) \cup {x} BY <1>1, <1>2 DEF Range
<1>4. ASSUME Once(s), x > 0 => x \notin Range(s), NEW i \in DOMAIN t, NEW j \in DOMAIN t,
             t[i] = t[j], t[i] > 0
      PROVE  i = j
  <2>1. i \in DOMAIN s \/ i = Len(s) + 1 BY Zenon, <1>1, <1>2
  <2>2. j \in DOMAIN s \/ j = Len(s) + 1 BY Zenon, <1>1, <1>2
  <2>3. CASE i \in DOMAIN s /\ j \in DOMAIN s BY Zenon, <1>1, <1>4, <2>3 DEF Once
  <2>4. CASE i \in DOMAIN s /\ j = Len(s) + 1 BY Zenon, <1>1, <1>4, <2>4 DEF Range
  <2>5. CASE j \in DOMAIN s /\ i = Len(s) + 1 BY Zenon, <1>1, <1>4, <2>5 DEF Range
  <2> QED BY Zenon, <2>1, <2>2, <2>3, <2>4, <2>5
<1>5. Once(s) /\ (x > 0 => x \notin Range(s)) => Once(t) BY Zenon, <1>4 DEF Once
<1> QED BY Zenon, <1>1, <1>3, <1>5 DEF t

LEMMA TailRange ==
  ASSUME NEW X \in SUBSET Int, NEW s \in Seq(X), s # <<>>
  PROVE  /\ Head(s) \in X /\ Tail(s) \in Seq(X)
         /\ Range(s) = Range(Tail(s)) \cup {Head(s)}
         /\ Once(s) => Once(Tail(s)) /\ (Head(s) > 0 => Head(s) \notin Range(Tail(s)))
<1> DEFINE t == Tail(s)
<1>1. /\ Len(s) \in Nat /\ Len(s) > 0 /\ DOMAIN s = 1..Len(s) /\ Head(s) = s[1]
      /\ t \in Seq(X) /\ DOMAIN t = 1..(Len(s) - 1) /\ \A i \in 1..(Len(s) - 1) : t[i] = s[i + 1]
  OBVIOUS
<1> HIDE DEF t
<1>2. \A i \in 2..Len(s) : i - 1 \in DOMAIN t /\ t[i - 1] = s[i] BY <1>1
<1>3. 1..Len(s) = {1} \cup 2..Len(s) BY <1>1
<1>4. Range(s) = Range(t) \cup {s[1]}
  <2>1. ASSUME NEW i \in DOMAIN t PROVE t[i] \in Range(s)
    <3>1. i + 1 \in DOMAIN s /\ t[i] = s[i + 1] BY <1>1
    <3> QED BY Zenon, <3>1 DEF Range
  <2>2. ASSUME NEW i \in DOMAIN s PROVE s[i] \in Range(t) \cup {s[1]}
    BY Zenon, <1>1, <1>2, <1>3 DEF Range
  <2>3. s[1] \in Range(s) BY <1>1 DEF Range
  <2> QED BY Zenon, <2>1, <2>2, <2>3 DEF Range
<1>5. ASSUME Once(s) PROVE Once(t) /\ (s[1] > 0 => s[1] \notin Range(t))
  <2>1. ASSUME NEW i \in DOMAIN t, NEW j \in DOMAIN t, t[i] = t[j], t[i] > 0 PROVE i = j
    <3>1. i + 1 \in DOMAIN s /\ j + 1 \in DOMAIN s /\ t[i] = s[i + 1] /\ t[j] = s[j + 1] BY <1>1
    <3>2. i + 1 = j + 1 BY Zenon, <1>5, <2>1, <3>1 DEF Once
    <3> QED BY <1>1, <3>2
  <2>2. ASSUME s[1] > 0, NEW i \in DOMAIN t PROVE t[i] # s[1]
    <3>1. i + 1 \in DOMAIN s /\ t[i] = s[i + 1] /\ 1 \in DOMAIN s /\ i + 1 # 1 BY <1>1
    <3> QED BY Zenon, <1>5, <2>2, <3>1 DEF Once
  <2> QED BY Zenon, <2>1, <2>2 DEF Once, Range
<1>6. s[1] \in X BY <1>1
<1> QED BY Zenon, <1>1, <1>4, <1>5, <1>6 DEF t

-----------------------------------------------------------------------------
(* Types *)

LEMMA EmptyTreeType == EmptyTree \in Trees /\ EmptyTree.from = {}
BY BoundsAssumption DEF EmptyTree, Trees

LEMMA TreeTypes ==
  ASSUME TypeOK, NEW n \in Notes, n \in DOMAIN note
  PROVE  AddToTree(tree, n) \in Trees /\ AddToTree(tree, n).from = tree.from \cup {n}
<1>0. note[n] \in NoteType BY DEF TypeOK
<1>1. note[n].leaf \in Leafs BY Zenon, <1>0 DEF NoteType
<1>2. tree.upd \in [Leafs -> 0..MaxNotes] /\ tree.del \in SUBSET Leafs /\ tree.from \in SUBSET Notes
  BY Zenon DEF TypeOK, Trees
<1>3. [tree.upd EXCEPT ![note[n].leaf] = n] \in [Leafs -> 0..MaxNotes]
  <2>1. n \in 0..MaxNotes BY BoundsAssumption DEF Notes
  <2> QED BY Zenon, <1>2, <2>1
<1> QED BY Zenon, <1>1, <1>2, <1>3 DEF AddToTree, Trees

LEMMA HandOverTypes ==
  ASSUME TypeOK, HandOver
  PROVE  /\ commit' \in [Slots -> Commits] /\ tree' \in Trees /\ lost' \subseteq Notes
         /\ loop' \in {"start", "run", "done"} /\ syncRunning' \in BOOLEAN
<1> USE DEF TypeOK
<1>1. tree.from \subseteq Notes BY Zenon DEF Trees
<1>2. ASSUME NEW c \in Slots, commit' = [commit EXCEPT ![c] = [pc |-> "apply", tree |-> tree]]
      PROVE  commit' \in [Slots -> Commits]
  BY Zenon, <1>2 DEF Commits
<1>3. commit' \in [Slots -> Commits] BY Zenon, <1>2 DEF HandOver
<1> QED BY Zenon, <1>1, <1>3, EmptyTreeType DEF HandOver

\* The notifications on their way to gnmiSubscribe.
Reported == {n \in Range(resp) : n > 0}

From(c) == commit[c].tree.from

\* Every notification is in one place.
PlaceInv ==
  /\ Once(resp) /\ Once(queue) /\ Once(updChan)
  /\ Reported \subseteq DOMAIN note /\ Pending \subseteq DOMAIN note
  /\ Reported \cap Pending = {}
  /\ Range(queue) \cap (sending \cup Range(updChan) \cup tree.from \cup CommitNotes) = {}
  /\ sending \cap (Range(updChan) \cup tree.from \cup CommitNotes) = {}
  /\ Range(updChan) \cap (tree.from \cup CommitNotes) = {}
  /\ tree.from \cap CommitNotes = {}
  /\ \A c, d \in Slots : c # d => From(c) \cap From(d) = {}
  /\ \A c \in Slots : commit[c].pc # "apply" => From(c) = {}

\* What Append and Tail do to the responses, to the queue and to the channel of the loop.
LEMMA RespChannel ==
  ASSUME TypeOK
  PROVE  /\ \A n \in -1..MaxNotes :
              /\ Append(resp, n) \in Seq(-1..MaxNotes)
              /\ Range(Append(resp, n)) = Range(resp) \cup {n}
              /\ Once(resp) /\ (n > 0 => n \notin Range(resp)) => Once(Append(resp, n))
         /\ resp # <<>> =>
              /\ Head(resp) \in -1..MaxNotes /\ Tail(resp) \in Seq(-1..MaxNotes)
              /\ Range(resp) = Range(Tail(resp)) \cup {Head(resp)}
              /\ Once(resp) => /\ Once(Tail(resp))
                               /\ Head(resp) > 0 => Head(resp) \notin Range(Tail(resp))
<1> DEFINE I == -1..MaxNotes
<1>1. I \in SUBSET Int BY BoundsAssumption
<1>2. resp \in Seq(I) BY Zenon DEF TypeOK
<1> HIDE DEF I
<1>3. ASSUME NEW n \in I
      PROVE  /\ Append(resp, n) \in Seq(I) /\ Range(Append(resp, n)) = Range(resp) \cup {n}
             /\ Once(resp) /\ (n > 0 => n \notin Range(resp)) => Once(Append(resp, n))
  BY Zenon, <1>1, <1>2, AppendRange
<1>4. ASSUME resp # <<>>
      PROVE  /\ Head(resp) \in I /\ Tail(resp) \in Seq(I)
             /\ Range(resp) = Range(Tail(resp)) \cup {Head(resp)}
             /\ Once(resp) => /\ Once(Tail(resp))
                              /\ Head(resp) > 0 => Head(resp) \notin Range(Tail(resp))
  BY Zenon, <1>1, <1>2, <1>4, TailRange
<1> QED BY Zenon, <1>3, <1>4 DEF I

LEMMA QueueChannel ==
  ASSUME TypeOK
  PROVE  /\ \A n \in Notes :
              /\ Append(queue, n) \in Seq(Notes)
              /\ Range(Append(queue, n)) = Range(queue) \cup {n}
              /\ Once(queue) /\ (n > 0 => n \notin Range(queue)) => Once(Append(queue, n))
         /\ queue # <<>> =>
              /\ Head(queue) \in Notes /\ Tail(queue) \in Seq(Notes)
              /\ Range(queue) = Range(Tail(queue)) \cup {Head(queue)}
              /\ Once(queue) => /\ Once(Tail(queue))
                                /\ Head(queue) > 0 => Head(queue) \notin Range(Tail(queue))
<1> DEFINE I == Notes
<1>1. I \in SUBSET Int BY BoundsAssumption DEF Notes
<1>2. queue \in Seq(I) BY Zenon DEF TypeOK
<1> HIDE DEF I
<1>3. ASSUME NEW n \in I
      PROVE  /\ Append(queue, n) \in Seq(I) /\ Range(Append(queue, n)) = Range(queue) \cup {n}
             /\ Once(queue) /\ (n > 0 => n \notin Range(queue)) => Once(Append(queue, n))
  BY Zenon, <1>1, <1>2, AppendRange
<1>4. ASSUME queue # <<>>
      PROVE  /\ Head(queue) \in I /\ Tail(queue) \in Seq(I)
             /\ Range(queue) = Range(Tail(queue)) \cup {Head(queue)}
             /\ Once(queue) => /\ Once(Tail(queue))
                               /\ Head(queue) > 0 => Head(queue) \notin Range(Tail(queue))
  BY Zenon, <1>1, <1>2, <1>4, TailRange
<1> QED BY Zenon, <1>3, <1>4 DEF I

LEMMA UpdChannel ==
  ASSUME TypeOK
  PROVE  /\ \A n \in Notes :
              /\ Append(updChan, n) \in Seq(Notes)
              /\ Range(Append(updChan, n)) = Range(updChan) \cup {n}
              /\ Once(updChan) /\ (n > 0 => n \notin Range(updChan)) => Once(Append(updChan, n))
         /\ updChan # <<>> =>
              /\ Head(updChan) \in Notes /\ Tail(updChan) \in Seq(Notes)
              /\ Range(updChan) = Range(Tail(updChan)) \cup {Head(updChan)}
              /\ Once(updChan) => /\ Once(Tail(updChan))
                                  /\ Head(updChan) > 0 => Head(updChan) \notin Range(Tail(updChan))
<1> DEFINE I == Notes
<1>1. I \in SUBSET Int BY BoundsAssumption DEF Notes
<1>2. updChan \in Seq(I) BY Zenon DEF TypeOK
<1> HIDE DEF I
<1>3. ASSUME NEW n \in I
      PROVE  /\ Append(updChan, n) \in Seq(I) /\ Range(Append(updChan, n)) = Range(updChan) \cup {n}
             /\ Once(updChan) /\ (n > 0 => n \notin Range(updChan)) => Once(Append(updChan, n))
  BY Zenon, <1>1, <1>2, AppendRange
<1>4. ASSUME updChan # <<>>
      PROVE  /\ Head(updChan) \in I /\ Tail(updChan) \in Seq(I)
             /\ Range(updChan) = Range(Tail(updChan)) \cup {Head(updChan)}
             /\ Once(updChan) => /\ Once(Tail(updChan))
                                 /\ Head(updChan) > 0 => Head(updChan) \notin Range(Tail(updChan))
  BY Zenon, <1>1, <1>2, <1>4, TailRange
<1> QED BY Zenon, <1>3, <1>4 DEF I

LEMMA Initially == Init => TypeOK /\ PlaceInv
<1> SUFFICES ASSUME Init PROVE TypeOK /\ PlaceInv
  BY Zenon
<1> USE BoundsAssumption DEF Init
<1>1. commit \in [Slots -> Commits] /\ \A c \in Slots : commit[c] = NoCommit
  BY Zenon, EmptyTreeType DEF NoCommit, Commits
<1>2. running \in [Leafs -> 0..MaxNotes] OBVIOUS
<1>3. syncs \in 0..MaxSyncs /\ handled \in Nat OBVIOUS
<1>0. note \in Seq(NoteType) /\ resp \in Seq(-1..MaxNotes) /\ queue \in Seq(Notes)
      /\ updChan \in Seq(Notes)
  OBVIOUS
<1>4. TypeOK BY Zenon, <1>0, <1>1, <1>2, <1>3, EmptyTreeType DEF TypeOK
<1>5. CommitNotes = {} BY Zenon, <1>1, EmptyTreeType DEF CommitNotes, NoCommit
<1>6. Range(resp) = {} /\ Range(queue) = {} /\ Range(updChan) = {} BY DEF Range
<1>7. Once(resp) /\ Once(queue) /\ Once(updChan) BY DEF Once
<1>8. \A c \in Slots : From(c) = {} BY Zenon, <1>1, EmptyTreeType DEF From, NoCommit
<1> QED BY Zenon, <1>4, <1>5, <1>6, <1>7, <1>8, EmptyTreeType DEF PlaceInv, Pending, Reported

LEMMA TypesKept == TypeOK /\ PlaceInv /\ [Next]_vars => TypeOK'
<1> SUFFICES ASSUME TypeOK, PlaceInv, [Next]_vars PROVE TypeOK'
  BY Zenon
<1> USE DEF TypeOK, sourceVars, environment, subVars, poolVars, loopVars
<1>1. ASSUME NEW l \in Leafs, NEW op \in {"update", "delete", "unknown"}, DeviceChange(l, op)
      PROVE  TypeOK'
  <2>1. note' \in Seq(NoteType) /\ Len(note') = Len(note) + 1
    BY <1>1 DEF DeviceChange, NoteType
  <2>2. Len(note') \in -1..MaxNotes BY <1>1, <2>1, BoundsAssumption DEF DeviceChange
  <2>3. resp' \in Seq(-1..MaxNotes) BY Zenon, <1>1, <2>2, RespChannel DEF DeviceChange
  <2> QED BY Zenon, <1>1, <2>1, <2>3 DEF DeviceChange
<1>2. CASE DeviceSync
  <2>1. resp' \in Seq(-1..MaxNotes)
    BY <1>2, RespChannel, BoundsAssumption DEF DeviceSync, SyncResponse
  <2>2. syncs' \in 0..MaxSyncs BY <1>2, BoundsAssumption DEF DeviceSync
  <2> QED BY Zenon, <1>2, <2>1, <2>2 DEF DeviceSync
<1>3. CASE DeviceError
  <2>1. resp' \in Seq(-1..MaxNotes) BY <1>3, BoundsAssumption DEF DeviceError, ErrorResponse
  <2> QED BY Zenon, <1>3, <2>1 DEF DeviceError
<1>4. CASE Cancel BY Zenon, <1>4 DEF Cancel
<1>5. CASE SubscribeRecv
  <2>1. resp' \in Seq(-1..MaxNotes) /\ Head(resp) \in -1..MaxNotes
    BY Zenon, <1>5, RespChannel DEF SubscribeRecv
  <2>2. Head(resp) > 0 => Head(resp) \in Notes BY <2>1, BoundsAssumption DEF Notes
  <2>3. queue' \in Seq(Notes) /\ lost' \subseteq Notes
    BY Zenon, <1>5, <2>2, QueueChannel DEF SubscribeRecv, Submit, SyncResponse, ErrorResponse
  <2>4. signal' \in BOOLEAN BY Zenon, <1>5 DEF SubscribeRecv
  <2> QED BY Zenon, <1>5, <2>1, <2>3, <2>4 DEF SubscribeRecv
<1>6. CASE SubscribeEnd BY Zenon, <1>6 DEF SubscribeEnd
<1>7. CASE TaskStart
  <2>1. queue' \in Seq(Notes) /\ Head(queue) \in Notes BY Zenon, <1>7, QueueChannel DEF TaskStart
  <2> QED BY Zenon, <1>7, <2>1 DEF TaskStart
<1>8. ASSUME NEW n \in Notes, TaskSend(n) \/ TaskGiveUp(n) PROVE TypeOK'
  <2>1. updChan' \in Seq(Notes) BY Zenon, <1>8, UpdChannel DEF TaskSend, TaskGiveUp
  <2> QED BY Zenon, <1>8, <2>1 DEF TaskSend, TaskGiveUp
<1>9. CASE LoopStart \/ LoopCancelled BY Zenon, <1>9 DEF LoopStart, LoopCancelled
<1>10. CASE LoopRecv
  <2>1. updChan' \in Seq(Notes) /\ Head(updChan) \in Notes /\ Head(updChan) \in Range(updChan)
    BY Zenon, <1>10, UpdChannel DEF LoopRecv
  <2>2. Head(updChan) \in DOMAIN note BY Zenon, <2>1 DEF PlaceInv, Pending
  <2>3. tree' \in Trees BY Zenon, <1>10, <2>1, <2>2, TreeTypes DEF LoopRecv
  <2> QED BY Zenon, <1>10, <2>1, <2>3 DEF LoopRecv
<1>11. CASE LoopSync
  <2>1. ticker' \in BOOLEAN /\ handled' \in Nat BY <1>11 DEF LoopSync
  <2>2. HandOver /\ signal' = FALSE
        /\ UNCHANGED <<sourceVars, subVars, workers, queue, sending, updChan, running, environment>>
    BY Zenon, <1>11 DEF LoopSync
  <2> QED BY Zenon, <2>1, <2>2, HandOverTypes
<1>12. CASE LoopTick BY Zenon, <1>12, HandOverTypes DEF LoopTick
<1>13. ASSUME NEW c \in Slots, CommitApply(c) \/ CommitFail(c) \/ CommitReturn(c) PROVE TypeOK'
  <2>1. commit[c].tree \in Trees BY Zenon DEF Commits
  <2>2. commit' \in [Slots -> Commits]
    <3>1. NoCommit \in Commits /\ [pc |-> "revert", tree |-> EmptyTree] \in Commits
      BY Zenon, EmptyTreeType DEF NoCommit, Commits
    <3> QED BY Zenon, <1>13, <3>1 DEF CommitApply, CommitFail, CommitReturn
  <2>3. lost' \subseteq Notes
    BY Zenon, <1>13, <2>1 DEF CommitApply, CommitFail, CommitReturn, Trees
  <2>4. running' \in [Leafs -> 0..MaxNotes]
    <3>1. CASE CommitApply(c)
      BY Zenon, <2>1, <3>1, BoundsAssumption DEF CommitApply, Applied, Trees
    <3>2. CASE CommitFail(c)
      <4>1. PICK U \in SUBSET Leafs :
              running' = Applied([commit[c].tree EXCEPT
                                    !.upd = [l \in Leafs |-> IF l \in U THEN @[l] ELSE 0]])
        BY Zenon, <3>2 DEF CommitFail
      <4> QED BY <2>1, <4>1, BoundsAssumption DEF Applied, Trees
    <3>3. CASE CommitReturn(c) BY Zenon, <3>3 DEF CommitReturn
    <3> QED BY Zenon, <1>13, <3>1, <3>2, <3>3
  <2>5. syncRunning' \in BOOLEAN BY Zenon, <1>13 DEF CommitApply, CommitFail, CommitReturn
  <2> QED
    BY Zenon, <1>13, <2>2, <2>3, <2>4, <2>5 DEF CommitApply, CommitFail, CommitReturn
<1>14. CASE UNCHANGED vars BY Zenon, <1>14 DEF vars
<1> QED
  BY Zenon, <1>1, <1>2, <1>3, <1>4, <1>5, <1>6, <1>7, <1>8, <1>9, <1>10, <1>11, <1>12, <1>13, <1>14
  DEF Next

-----------------------------------------------------------------------------
(* Every notification is in one place. *)

\* The tree is handed from the loop to a commit, or dropped.
LEMMA HandOverPlaces ==
  ASSUME TypeOK, PlaceInv, HandOver
  PROVE  /\ tree'.from = {}
         /\ CommitNotes' = CommitNotes \cup tree.from \/ CommitNotes' = CommitNotes
         /\ \A c, d \in Slots : c # d => From(c)' \cap From(d)' = {}
         /\ \A c \in Slots : commit'[c].pc # "apply" => From(c)' = {}
<1>1. tree'.from = {} BY Zenon, EmptyTreeType DEF HandOver
<1>2. CASE UNCHANGED commit BY Zenon, <1>1, <1>2 DEF CommitNotes, From, PlaceInv
<1>3. ASSUME NEW c \in Slots \ InFlight,
             commit' = [commit EXCEPT ![c] = [pc |-> "apply", tree |-> tree]]
      PROVE  /\ CommitNotes' = CommitNotes \cup tree.from
             /\ \A d, e \in Slots : d # e => From(d)' \cap From(e)' = {}
             /\ \A d \in Slots : commit'[d].pc # "apply" => From(d)' = {}
  <2>1. /\ commit'[c].pc = "apply" /\ From(c)' = tree.from
        /\ \A d \in Slots \ {c} : commit'[d] = commit[d] /\ From(d)' = From(d)
    BY Zenon, <1>3 DEF TypeOK, From
  <2>2. From(c) = {} BY Zenon DEF InFlight, PlaceInv
  <2>3. \A d \in Slots : From(d) \subseteq CommitNotes BY Zenon DEF CommitNotes, From
  <2>4. CommitNotes' = CommitNotes \cup tree.from
    <3>1. CommitNotes = UNION {From(d) : d \in Slots} BY Zenon DEF CommitNotes, From
    <3>2. CommitNotes' = UNION {From(d)' : d \in Slots} BY Zenon DEF CommitNotes, From
    <3> QED BY Zenon, <2>1, <2>2, <3>1, <3>2
  <2>5. tree.from \cap CommitNotes = {} BY Zenon DEF PlaceInv
  <2>6. ASSUME NEW d \in Slots, NEW e \in Slots, d # e PROVE From(d)' \cap From(e)' = {}
    BY <2>1, <2>3, <2>5, <2>6 DEF PlaceInv
  <2>7. ASSUME NEW d \in Slots, commit'[d].pc # "apply" PROVE From(d)' = {}
    BY Zenon, <2>1, <2>7 DEF PlaceInv
  <2> QED BY Zenon, <2>4, <2>6, <2>7
<1> QED BY Zenon, <1>1, <1>2, <1>3 DEF HandOver

\* A commit is done with its tree.
LEMMA CommitPlaces ==
  ASSUME TypeOK, PlaceInv, NEW c \in Slots, NEW pc \in {"revert", "none"},
         commit' = [commit EXCEPT ![c] = [pc |-> pc, tree |-> EmptyTree]]
  PROVE  /\ CommitNotes' = CommitNotes \ From(c)
         /\ \A d, e \in Slots : d # e => From(d)' \cap From(e)' = {}
         /\ \A d \in Slots : commit'[d].pc # "apply" => From(d)' = {}
<1>1. /\ From(c)' = {} /\ \A d \in Slots \ {c} : commit'[d] = commit[d] /\ From(d)' = From(d)
  BY Zenon, EmptyTreeType DEF TypeOK, From
<1>2. CommitNotes = UNION {From(d) : d \in Slots} BY Zenon DEF CommitNotes, From
<1>3. CommitNotes' = UNION {From(d)' : d \in Slots} BY Zenon DEF CommitNotes, From
<1>4. \A d, e \in Slots : d # e => From(d) \cap From(e) = {} BY Zenon DEF PlaceInv
<1>5. CommitNotes' = CommitNotes \ From(c) BY <1>1, <1>2, <1>3, <1>4
<1>6. \A d, e \in Slots : d # e => From(d)' \cap From(e)' = {} BY Zenon, <1>1, <1>4
<1>7. ASSUME NEW d \in Slots, commit'[d].pc # "apply" PROVE From(d)' = {}
  BY Zenon, <1>1, <1>7 DEF PlaceInv
<1> QED BY Zenon, <1>5, <1>6, <1>7

\* The steps that leave the commits alone.
LEMMA SameCommits ==
  ASSUME PlaceInv, UNCHANGED commit
  PROVE  /\ CommitNotes' = CommitNotes
         /\ \A d, e \in Slots : d # e => From(d)' \cap From(e)' = {}
         /\ \A d \in Slots : commit'[d].pc # "apply" => From(d)' = {}
BY Zenon DEF PlaceInv, CommitNotes, From

LEMMA PlacesKept == TypeOK /\ PlaceInv /\ [Next]_vars => PlaceInv'
<1> SUFFICES ASSUME TypeOK, PlaceInv, [Next]_vars PROVE PlaceInv'
  BY Zenon
<1> USE DEF sourceVars, environment, subVars, poolVars, loopVars
<1>b. /\ note \in Seq(NoteType) /\ resp \in Seq(-1..MaxNotes)
      /\ queue \in Seq(Notes) /\ updChan \in Seq(Notes)
  BY Zenon DEF TypeOK
<1>c. Once(resp) /\ Once(queue) /\ Once(updChan) BY Zenon DEF PlaceInv
<1>1. ASSUME NEW l \in Leafs, NEW op \in {"update", "delete", "unknown"}, DeviceChange(l, op)
      PROVE  PlaceInv'
  <2>1. UNCHANGED <<queue, sending, updChan, tree, commit>> BY Zenon, <1>1 DEF DeviceChange
  <2>2. /\ DOMAIN note' = DOMAIN note \cup {Len(note) + 1} /\ Len(note) + 1 \notin DOMAIN note
        /\ Len(note') = Len(note) + 1
    <3>1. note' \in Seq(NoteType) /\ Len(note') = Len(note) + 1 /\ Len(note) \in Nat
          /\ DOMAIN note' = 1..Len(note') /\ DOMAIN note = 1..Len(note)
      BY <1>1, <1>b DEF DeviceChange, NoteType
    <3> QED BY <3>1
  <2>3. Len(note) + 1 \in -1..MaxNotes /\ Len(note) + 1 > 0
    BY <1>1, <1>b, BoundsAssumption DEF DeviceChange
  <2>4. resp' = Append(resp, Len(note) + 1) BY Zenon, <1>1, <2>2 DEF DeviceChange
  <2>5. Len(note) + 1 \notin Range(resp) BY Zenon, <2>2, <2>3 DEF PlaceInv, Reported
  <2>6. Once(resp') /\ Reported' = Reported \cup {Len(note) + 1}
    <3>1. Once(resp') /\ Range(resp') = Range(resp) \cup {Len(note) + 1}
      BY Zenon, RespChannel, <1>c, <2>3, <2>4, <2>5
    <3> QED BY Zenon, <2>3, <3>1 DEF Reported
  <2>7. Pending' = Pending BY Zenon, <2>1, SameCommits DEF Pending
  <2>8. Len(note) + 1 \notin Pending BY Zenon, <2>2 DEF PlaceInv
  <2> QED BY Zenon, <2>1, <2>2, <2>6, <2>7, <2>8, SameCommits DEF PlaceInv
<1>2. CASE DeviceSync \/ DeviceError
  <2>1. UNCHANGED <<note, queue, sending, updChan, tree, commit>> BY Zenon, <1>2 DEF DeviceSync, DeviceError
  <2>2. Once(resp') /\ Reported' = Reported
    <3>1. CASE DeviceSync
      <4>1. resp' = Append(resp, 0) /\ 0 \in -1..MaxNotes
        BY <3>1, BoundsAssumption DEF DeviceSync, SyncResponse
      <4>2. 0 \notin Notes /\ ~(0 > 0) BY DEF Notes
      <4>3. Once(resp') /\ Range(resp') = Range(resp) \cup {0} BY Zenon, RespChannel, <1>c, <4>1, <4>2
      <4> QED BY Zenon, <4>2, <4>3 DEF Reported
    <3>2. CASE DeviceError
      <4>1. resp = <<>> /\ resp' = <<-1>> BY Zenon, <3>2 DEF DeviceError, ErrorResponse
      <4>2. Range(resp) = {} /\ Range(resp') = {-1} BY <4>1 DEF Range
      <4> QED BY <4>1, <4>2 DEF Once, Reported
    <3> QED BY Zenon, <1>2, <3>1, <3>2
  <2>3. Pending' = Pending BY Zenon, <2>1, SameCommits DEF Pending
  <2> QED BY Zenon, <2>1, <2>2, <2>3, SameCommits DEF PlaceInv
<1>3. CASE SubscribeRecv
  <2>1. UNCHANGED <<note, sending, updChan, tree, commit>> BY Zenon, <1>3 DEF SubscribeRecv
  <2> DEFINE n == Head(resp)
  <2>2. /\ n \in -1..MaxNotes /\ Once(resp')
        /\ Range(resp) = Range(resp') \cup {n} /\ (n > 0 => n \notin Range(resp'))
    <3>1. resp # <<>> /\ resp' = Tail(resp) BY Zenon, <1>3 DEF SubscribeRecv
    <3> QED BY Zenon, <1>c, <3>1, RespChannel
  <2>3. CASE n > 0
    <3>1. n \in Notes BY <2>2, <2>3, BoundsAssumption DEF Notes
    <3>2. Reported' = Reported \ {n} /\ n \in Reported BY Zenon, <2>2, <2>3 DEF Reported
    <3>3. n \in DOMAIN note /\ n \notin Pending BY Zenon, <3>2 DEF PlaceInv
    <3>4. n \notin Range(queue) \cup sending \cup Range(updChan) \cup tree.from \cup CommitNotes
      BY Zenon, <3>3 DEF Pending
    <3>5. Once(queue') /\ (Range(queue') = Range(queue) \cup {n} \/ queue' = queue)
      BY ZenonT(30), <1>3, QueueChannel, <2>3, <3>1, <3>4
      DEF SubscribeRecv, Submit, SyncResponse, ErrorResponse, PlaceInv
    <3> HIDE DEF n
    <3>6. Pending' = Pending \cup {n} \/ Pending' = Pending BY Zenon, <2>1, <3>5, SameCommits DEF Pending
    <3> QED BY <2>1, <2>2, <3>2, <3>3, <3>4, <3>5, <3>6, SameCommits DEF PlaceInv
  <2>4. CASE ~(n > 0)
    <3>1. UNCHANGED queue BY Zenon, <1>3, <2>4 DEF SubscribeRecv
    <3>2. Reported' = Reported BY Zenon, <2>2, <2>4 DEF Reported
    <3>3. Pending' = Pending BY Zenon, <2>1, <3>1, SameCommits DEF Pending
    <3> QED BY Zenon, <2>1, <2>2, <3>1, <3>2, <3>3, SameCommits DEF PlaceInv
  <2> QED BY Zenon, <2>3, <2>4
<1>4. CASE TaskStart
  <2>1. UNCHANGED <<note, resp, updChan, tree, commit>> /\ sending' = sending \cup {Head(queue)}
    BY Zenon, <1>4 DEF TaskStart
  <2>2. /\ Once(queue') /\ Range(queue) = Range(queue') \cup {Head(queue)}
        /\ Head(queue) \in Notes /\ (Head(queue) > 0 => Head(queue) \notin Range(queue'))
    <3>1. queue # <<>> /\ queue' = Tail(queue) BY Zenon, <1>4 DEF TaskStart
    <3> QED BY Zenon, <1>c, <3>1, QueueChannel
  <2>3. Head(queue) \notin Range(queue') BY <2>2, BoundsAssumption DEF Notes
  <2>4. Pending' = Pending /\ Reported' = Reported BY Zenon, <2>1, <2>2, SameCommits DEF Pending, Reported
  <2> QED BY <2>1, <2>2, <2>3, <2>4, SameCommits DEF PlaceInv
<1>5. ASSUME NEW n \in Notes, TaskSend(n) \/ TaskGiveUp(n) PROVE PlaceInv'
  <2>1. UNCHANGED <<note, resp, queue, tree, commit>> /\ sending' = sending \ {n} /\ n \in sending
    BY Zenon, <1>5 DEF TaskSend, TaskGiveUp
  <2>2. n \notin Range(updChan) BY Zenon, <2>1 DEF PlaceInv
  <2>3. Once(updChan') /\ (Range(updChan') = Range(updChan) \cup {n} \/ updChan' = updChan)
    BY ZenonT(30), <1>5, UpdChannel, <2>2 DEF TaskSend, TaskGiveUp, PlaceInv
  <2>4. Pending' \subseteq Pending /\ Reported' = Reported
    BY Zenon, <2>1, <2>3, SameCommits DEF Pending, Reported
  <2> QED BY <2>1, <2>3, <2>4, SameCommits DEF PlaceInv
<1>6. CASE LoopRecv
  <2> DEFINE n == Head(updChan)
  <2>1. UNCHANGED <<note, resp, queue, sending, commit>> BY Zenon, <1>6 DEF LoopRecv
  <2>2. /\ Once(updChan') /\ Range(updChan) = Range(updChan') \cup {n}
        /\ n \in Notes /\ (n > 0 => n \notin Range(updChan'))
    <3>1. updChan # <<>> /\ updChan' = Tail(updChan) BY Zenon, <1>6 DEF LoopRecv
    <3> QED BY Zenon, <1>c, <3>1, UpdChannel
  <2>3. n \notin Range(updChan') BY <2>2, BoundsAssumption DEF Notes
  <2>4. n \in DOMAIN note BY Zenon, <2>2 DEF PlaceInv, Pending
  <2>5. tree'.from = tree.from \cup {n} BY Zenon, <1>6, <2>2, <2>4, TreeTypes DEF LoopRecv
  <2> HIDE DEF n
  <2>6. Pending' = Pending /\ Reported' = Reported
    BY Zenon, <2>1, <2>2, <2>5, SameCommits DEF Pending, Reported
  <2> QED BY Zenon, <2>1, <2>2, <2>3, <2>5, <2>6, SameCommits DEF PlaceInv
<1>7. CASE LoopSync \/ LoopTick
  <2>1. HandOver /\ UNCHANGED <<note, resp, queue, sending, updChan>> BY Zenon, <1>7 DEF LoopSync, LoopTick
  <2>2. Pending' \subseteq Pending /\ Reported' = Reported
    BY Zenon, <2>1, HandOverPlaces DEF Pending, Reported
  <2> QED BY Zenon, <2>1, <2>2, HandOverPlaces DEF PlaceInv
<1>8. ASSUME NEW c \in Slots, CommitApply(c) \/ CommitFail(c) \/ CommitReturn(c) PROVE PlaceInv'
  <2>1. UNCHANGED <<note, resp, queue, sending, updChan, tree>>
    BY Zenon, <1>8 DEF CommitApply, CommitFail, CommitReturn
  <2>2. PICK pc \in {"revert", "none"} :
          commit' = [commit EXCEPT ![c] = [pc |-> pc, tree |-> EmptyTree]]
    BY Zenon, <1>8 DEF CommitApply, CommitFail, CommitReturn, NoCommit
  <2>3. CommitNotes' = CommitNotes \ From(c) BY Zenon, <2>2, CommitPlaces
  <2>4. Pending' \subseteq Pending /\ Reported' = Reported BY Zenon, <2>1, <2>3 DEF Pending, Reported
  <2> QED BY Zenon, <2>1, <2>2, <2>3, <2>4, CommitPlaces DEF PlaceInv
<1>9. CASE UNCHANGED <<note, resp, queue, sending, updChan, tree, commit>>
  <2>1. Pending' = Pending /\ Reported' = Reported BY Zenon, <1>9, SameCommits DEF Pending, Reported
  <2> QED BY Zenon, <1>9, <2>1, SameCommits DEF PlaceInv
<1>10. Cancel \/ SubscribeEnd \/ LoopStart \/ LoopCancelled \/ UNCHANGED vars
         => UNCHANGED <<note, resp, queue, sending, updChan, tree, commit>>
  BY Zenon DEF Cancel, SubscribeEnd, LoopStart, LoopCancelled, vars
<1> QED BY Zenon, <1>1, <1>2, <1>3, <1>4, <1>5, <1>6, <1>7, <1>8, <1>9, <1>10 DEF Next

-----------------------------------------------------------------------------
(* The refinement *)

\* What a tree says of a leaf comes from its notifications.
Built(notes, t) ==
  \A l \in Leafs :
    /\ t.upd[l] # 0 =>
         t.upd[l] \in t.from /\ notes[t.upd[l]].leaf = l /\ notes[t.upd[l]].op = "update"
    /\ l \in t.del => \E n \in t.from : notes[n].leaf = l /\ notes[n].op = "delete"

BuiltInv == Built(note, tree) /\ \A c \in Slots : Built(note, commit[c].tree)

LEMMA EmptyBuilt == ASSUME NEW notes PROVE Built(notes, EmptyTree)
BY Zenon DEF Built, EmptyTree

\* Notifications do not change.
LEMMA StaysBuilt ==
  ASSUME NEW t, Built(note, t), t.from \subseteq DOMAIN note,
         \A n \in DOMAIN note : note'[n] = note[n]
  PROVE  Built(note', t)
BY DEF Built

LEMMA BuiltKept == TypeOK /\ PlaceInv /\ BuiltInv /\ [Next]_vars => BuiltInv'
<1> SUFFICES ASSUME TypeOK, PlaceInv, BuiltInv, [Next]_vars PROVE BuiltInv'
  BY Zenon
<1> USE DEF sourceVars, environment, subVars, poolVars, loopVars
<1>0. Built(note, tree) /\ \A c \in Slots : Built(note, commit[c].tree) BY Zenon DEF BuiltInv
<1>1. ASSUME NEW l \in Leafs, NEW op \in {"update", "delete", "unknown"}, DeviceChange(l, op)
      PROVE  BuiltInv'
  <2>1. \A n \in DOMAIN note : note'[n] = note[n] BY <1>1 DEF DeviceChange, TypeOK
  <2>2. UNCHANGED <<tree, commit>> BY Zenon, <1>1 DEF DeviceChange
  <2>3. tree.from \subseteq DOMAIN note /\ CommitNotes \subseteq DOMAIN note
    BY Zenon DEF PlaceInv, Pending
  <2>4. Built(note', tree) BY Zenon, <1>0, <2>1, <2>3, StaysBuilt
  <2>5. ASSUME NEW c \in Slots PROVE Built(note', commit[c].tree)
    <3>1. commit[c].tree.from \subseteq DOMAIN note BY Zenon, <2>3 DEF CommitNotes
    <3> QED BY Zenon, <1>0, <2>1, <3>1, StaysBuilt
  <2> QED BY Zenon, <2>2, <2>4, <2>5 DEF BuiltInv
<1>2. CASE LoopRecv
  <2>1. PICK n : UNCHANGED <<note, commit>> /\ tree' = AddToTree(tree, n) BY Zenon, <1>2 DEF LoopRecv
  <2>2. tree.upd \in [Leafs -> 0..MaxNotes] BY Zenon DEF TypeOK, Trees
  <2> DEFINE t == AddToTree(tree, n)
  <2>a. /\ t.upd = IF note[n].op = "update" THEN [tree.upd EXCEPT ![note[n].leaf] = n] ELSE tree.upd
        /\ t.del = IF note[n].op = "delete" THEN tree.del \cup {note[n].leaf} ELSE tree.del
        /\ t.from = tree.from \cup {n}
    BY Zenon DEF AddToTree
  <2> HIDE DEF t
  <2>3. ASSUME NEW l \in Leafs, t.upd[l] # 0
        PROVE  t.upd[l] \in t.from /\ note[t.upd[l]].leaf = l /\ note[t.upd[l]].op = "update"
    <3>1. t.upd[l] = tree.upd[l] \/ (t.upd[l] = n /\ note[n].leaf = l /\ note[n].op = "update")
      BY Zenon, <2>2, <2>a
    <3>2. tree.upd[l] # 0 =>
            /\ tree.upd[l] \in tree.from
            /\ note[tree.upd[l]].leaf = l /\ note[tree.upd[l]].op = "update"
      BY Zenon, <1>0 DEF Built
    <3> QED BY Zenon, <2>a, <2>3, <3>1, <3>2
  <2>4. ASSUME NEW l \in Leafs, l \in t.del
        PROVE  \E m \in t.from : note[m].leaf = l /\ note[m].op = "delete"
    <3>1. l \in tree.del \/ (note[n].leaf = l /\ note[n].op = "delete") BY Zenon, <2>4, <2>a
    <3>2. l \in tree.del => \E m \in tree.from : note[m].leaf = l /\ note[m].op = "delete"
      BY Zenon, <1>0 DEF Built
    <3> QED BY Zenon, <2>a, <3>1, <3>2
  <2>5. Built(note, t) BY Zenon, <2>3, <2>4 DEF Built
  <2> QED BY Zenon, <1>0, <2>1, <2>5 DEF BuiltInv, t
<1>3. CASE LoopSync \/ LoopTick
  <2>1. HandOver /\ UNCHANGED note BY Zenon, <1>3 DEF LoopSync, LoopTick
  <2>2. Built(note, tree') BY Zenon, <2>1, EmptyBuilt DEF HandOver
  <2>3. ASSUME NEW c \in Slots PROVE Built(note, commit'[c].tree)
    <3>1. ASSUME NEW d \in Slots, commit' = [commit EXCEPT ![d] = [pc |-> "apply", tree |-> tree]]
          PROVE  commit'[c].tree = tree \/ commit'[c].tree = commit[c].tree
      BY Zenon, <3>1 DEF TypeOK
    <3>2. commit'[c].tree = tree \/ commit'[c].tree = commit[c].tree
      BY Zenon, <2>1, <3>1 DEF HandOver
    <3> QED BY Zenon, <1>0, <3>2
  <2> QED BY Zenon, <2>1, <2>2, <2>3 DEF BuiltInv
<1>4. ASSUME NEW c \in Slots, CommitApply(c) \/ CommitFail(c) \/ CommitReturn(c) PROVE BuiltInv'
  <2>1. UNCHANGED <<note, tree>> BY Zenon, <1>4 DEF CommitApply, CommitFail, CommitReturn
  <2>2. PICK pc \in {"revert", "none"} :
          commit' = [commit EXCEPT ![c] = [pc |-> pc, tree |-> EmptyTree]]
    BY Zenon, <1>4 DEF CommitApply, CommitFail, CommitReturn, NoCommit
  <2>3. ASSUME NEW d \in Slots PROVE Built(note, commit'[d].tree)
    <3>1. commit'[d].tree = EmptyTree \/ commit'[d].tree = commit[d].tree BY Zenon, <2>2 DEF TypeOK
    <3> QED BY Zenon, <1>0, <3>1, EmptyBuilt
  <2> QED BY Zenon, <1>0, <2>1, <2>3 DEF BuiltInv
<1>5. CASE UNCHANGED <<note, tree, commit>> BY Zenon, <1>5 DEF BuiltInv
<1>6. \/ UNCHANGED <<note, tree, commit>> \/ LoopRecv \/ LoopSync \/ LoopTick
      \/ \E l \in Leafs, op \in {"update", "delete", "unknown"} : DeviceChange(l, op)
      \/ \E c \in Slots : CommitApply(c) \/ CommitFail(c) \/ CommitReturn(c)
  BY Zenon DEF Next, vars, DeviceSync, DeviceError, Cancel, SubscribeRecv, SubscribeEnd,
         TaskStart, TaskSend, TaskGiveUp, LoopStart, LoopCancelled
<1> QED BY Zenon, <1>1, <1>2, <1>3, <1>4, <1>5, <1>6

\* What ApplyToRunning does to a leaf, one of the notifications of the tree brings.
LEMMA AppliedBrings ==
  ASSUME TypeOK, NEW t \in Trees, Built(note, t), NEW U \in SUBSET Leafs,
         \/ running' = Applied(t)
         \/ running' = Applied([t EXCEPT !.upd = [l \in Leafs |-> IF l \in U THEN @[l] ELSE 0]]),
         NEW l \in Leafs
  PROVE  running'[l] = running[l] \/ \E n \in t.from : Feed!Brings(n, l, running'[l])
<1>1. \/ running'[l] = running[l]
      \/ running'[l] = t.upd[l] /\ t.upd[l] # 0
      \/ running'[l] = 0 /\ l \in t.del
  BY Zenon DEF Applied, Trees
<1> QED BY <1>1 DEF Built, Feed!Brings

\* Notifications leave the places before running: they are settled.
LEMMA ShrinkSettles ==
  ASSUME TypeOK, TypeOK', PlaceInv, UNCHANGED note, Reported' = Reported, Pending' \subseteq Pending,
         \A l \in Leafs : running'[l] = running[l]
                          \/ \E n \in Pending \ Pending' : Feed!Brings(n, l, running'[l])
  PROVE  Feed!Settle
<1> DEFINE S == Pending \ Pending'
<1>1. S \subseteq DOMAIN note /\ S \cap Range(resp) = {}
  <2>1. S \subseteq DOMAIN note BY Zenon DEF PlaceInv
  <2>2. \A n \in DOMAIN note : n > 0 BY SMTT(20) DEF TypeOK
  <2> QED BY Zenon, <2>1, <2>2 DEF PlaceInv, Reported
<1>2. Settled' = Settled \cup S
  <2>1. \A n \in DOMAIN note : n > 0 BY SMTT(20) DEF TypeOK
  <2>2. \A n \in DOMAIN note : n \in Range(resp)' <=> n \in Range(resp) BY Zenon, <2>1 DEF Reported
  <2> QED BY Zenon, <1>1, <2>2 DEF Settled
<1>3. Pending' = Pending \ S BY Zenon
<1>4. DOMAIN running' = Leafs BY Zenon DEF TypeOK
<1> QED BY Zenon, <1>2, <1>3, <1>4 DEF Feed!Settle

LEMMA StepRefines ==
  TypeOK /\ TypeOK' /\ PlaceInv /\ BuiltInv /\ [Next]_vars => [Feed!Next]_(Feed!vars)
<1> SUFFICES ASSUME TypeOK, TypeOK', PlaceInv, BuiltInv, [Next]_vars
             PROVE  Feed!Next \/ UNCHANGED Feed!vars
  BY Zenon
<1> USE DEF sourceVars, environment, subVars, poolVars, loopVars
<1>b. /\ note \in Seq(NoteType) /\ resp \in Seq(-1..MaxNotes)
      /\ queue \in Seq(Notes) /\ updChan \in Seq(Notes)
  BY Zenon DEF TypeOK
<1>c. \A n \in DOMAIN note : n \in Nat /\ n > 0 BY <1>b
<1>d. ASSUME UNCHANGED <<note, running>>, Reported' = Reported, Pending' \subseteq Pending
      PROVE  Feed!Next
  BY Zenon, <1>d, ShrinkSettles DEF Feed!Next
<1>1. ASSUME NEW l \in Leafs, NEW op \in {"update", "delete", "unknown"}, DeviceChange(l, op)
      PROVE  Feed!Next
  <2>1. note' = Append(note, [leaf |-> l, op |-> op])
        /\ UNCHANGED <<queue, sending, updChan, tree, commit, running>>
    BY Zenon, <1>1 DEF DeviceChange
  <2>2. Pending' = Pending BY Zenon, <2>1, SameCommits DEF Pending
  <2>3. /\ Len(note') = Len(note) + 1 /\ Len(note) \in Nat
        /\ DOMAIN note = 1..Len(note) /\ DOMAIN note' = 1..(Len(note) + 1)
    BY <1>b, <2>1
  <2>4. Range(resp') = Range(resp) \cup {Len(note) + 1}
    <3>1. Len(note) + 1 \in -1..MaxNotes BY <1>1, <2>3, BoundsAssumption DEF DeviceChange
    <3>2. resp' = Append(resp, Len(note) + 1) BY Zenon, <1>1, <2>3 DEF DeviceChange
    <3> QED BY Zenon, RespChannel, <3>1, <3>2
  <2>5. Settled' = Settled
    <3>1. DOMAIN note' = DOMAIN note \cup {Len(note) + 1} /\ Len(note) + 1 \notin DOMAIN note BY <2>3
    <3> QED BY Zenon, <2>2, <2>4, <3>1 DEF Settled
  <2> QED BY Zenon, <2>1, <2>2, <2>5 DEF Feed!Next, Feed!Tell
<1>2. CASE DeviceSync \/ DeviceError
  <2>1. UNCHANGED <<note, queue, sending, updChan, tree, commit, running>>
    BY Zenon, <1>2 DEF DeviceSync, DeviceError
  <2>2. Pending' = Pending BY Zenon, <2>1, SameCommits DEF Pending
  <2>3. Reported' = Reported
    <3>1. CASE DeviceSync
      <4>1. resp' = Append(resp, 0) /\ 0 \in -1..MaxNotes
        BY <3>1, BoundsAssumption DEF DeviceSync, SyncResponse
      <4>2. Range(resp') = Range(resp) \cup {0} BY Zenon, RespChannel, <4>1
      <4> QED BY <4>2 DEF Reported
    <3>2. CASE DeviceError
      <4>1. resp = <<>> /\ resp' = <<-1>> BY Zenon, <3>2 DEF DeviceError, ErrorResponse
      <4>2. Range(resp) = {} /\ Range(resp') = {-1} BY <4>1 DEF Range
      <4> QED BY <4>2 DEF Reported
    <3> QED BY Zenon, <1>2, <3>1, <3>2
  <2> QED BY Zenon, <1>d, <2>1, <2>2, <2>3
<1>3. CASE SubscribeRecv
  <2>1. UNCHANGED <<note, sending, updChan, tree, commit, running>> BY Zenon, <1>3 DEF SubscribeRecv
  <2> DEFINE n == Head(resp)
  <2>2. /\ n \in -1..MaxNotes
        /\ Range(resp) = Range(resp') \cup {n} /\ (n > 0 => n \notin Range(resp'))
    <3>1. resp # <<>> /\ resp' = Tail(resp) /\ Once(resp) BY Zenon, <1>3 DEF SubscribeRecv, PlaceInv
    <3> QED BY Zenon, <3>1, RespChannel
  <2>3. CASE n > 0
    <3>1. n \in Notes /\ n \in Reported BY SMTT(20), <2>2, <2>3, BoundsAssumption DEF Notes, Reported
    <3>2. n \in DOMAIN note /\ n \notin Pending /\ n \notin Settled
      BY Zenon, <2>2, <3>1 DEF PlaceInv, Settled
    <3>3. Range(queue') = Range(queue) \cup {n} \/ queue' = queue
      BY Zenon, <1>3, QueueChannel, <2>3, <3>1
      DEF SubscribeRecv, Submit, SyncResponse, ErrorResponse
    <3> HIDE DEF n
    <3>4. CASE Range(queue') = Range(queue) \cup {n}
      <4>1. Pending' = Pending \cup {n} BY Zenon, <2>1, <3>4, SameCommits DEF Pending
      <4>2. Settled' = Settled BY Zenon, <2>1, <2>2, <4>1 DEF Settled
      <4> QED BY Zenon, <2>1, <3>2, <4>1, <4>2 DEF Feed!Next, Feed!Take, Feed!Untaken
    <3>5. CASE queue' = queue
      <4>1. Pending' = Pending BY Zenon, <2>1, <3>5, SameCommits DEF Pending
      <4>2. Settled' = Settled \cup {n} BY Zenon, <2>1, <2>2, <2>3, <3>2, <4>1 DEF Settled
      <4> QED BY Zenon, <2>1, <3>2, <4>1, <4>2 DEF Feed!Next, Feed!Refuse, Feed!Untaken
    <3> QED BY Zenon, <3>3, <3>4, <3>5
  <2>4. CASE ~(n > 0)
    <3>1. UNCHANGED queue BY Zenon, <1>3, <2>4 DEF SubscribeRecv
    <3>2. Reported' = Reported BY Zenon, <2>2, <2>4 DEF Reported
    <3>3. Pending' = Pending BY Zenon, <2>1, <3>1, SameCommits DEF Pending
    <3> QED BY Zenon, <1>d, <2>1, <3>2, <3>3
  <2> QED BY Zenon, <2>3, <2>4
<1>4. CASE TaskStart
  <2>1. UNCHANGED <<note, resp, updChan, tree, commit, running>> /\ sending' = sending \cup {Head(queue)}
    BY Zenon, <1>4 DEF TaskStart
  <2>2. Range(queue) = Range(queue') \cup {Head(queue)} BY Zenon, <1>4, QueueChannel DEF TaskStart
  <2>3. Pending' = Pending /\ Reported' = Reported BY Zenon, <2>1, <2>2, SameCommits DEF Pending, Reported
  <2> QED BY Zenon, <1>d, <2>1, <2>3
<1>5. ASSUME NEW n \in Notes, TaskSend(n) \/ TaskGiveUp(n) PROVE Feed!Next
  <2>1. UNCHANGED <<note, resp, queue, tree, commit, running>> /\ sending' = sending \ {n} /\ n \in sending
    BY Zenon, <1>5 DEF TaskSend, TaskGiveUp
  <2>2. Range(Append(updChan, n)) = Range(updChan) \cup {n} BY Zenon, UpdChannel
  <2>3. Range(updChan') = Range(updChan) \cup {n} \/ updChan' = updChan
    BY Zenon, <1>5, <2>2 DEF TaskSend, TaskGiveUp
  <2>4. Pending' \subseteq Pending /\ Reported' = Reported
    BY Zenon, <2>1, <2>3, SameCommits DEF Pending, Reported
  <2> QED BY Zenon, <1>d, <2>1, <2>4
<1>6. CASE LoopRecv
  <2> DEFINE n == Head(updChan)
  <2>1. UNCHANGED <<note, resp, queue, sending, commit, running>> BY Zenon, <1>6 DEF LoopRecv
  <2>2. Range(updChan) = Range(updChan') \cup {n} /\ n \in Notes
    BY Zenon, <1>6, UpdChannel DEF LoopRecv
  <2>3. n \in DOMAIN note BY Zenon, <2>2 DEF PlaceInv, Pending
  <2>4. tree'.from = tree.from \cup {n} BY Zenon, <1>6, <2>2, <2>3, TreeTypes DEF LoopRecv
  <2> HIDE DEF n
  <2>5. Pending' = Pending /\ Reported' = Reported
    BY Zenon, <2>1, <2>2, <2>4, SameCommits DEF Pending, Reported
  <2> QED BY Zenon, <1>d, <2>1, <2>5
<1>7. CASE LoopSync \/ LoopTick
  <2>1. HandOver /\ UNCHANGED <<note, resp, queue, sending, updChan, running>>
    BY Zenon, <1>7 DEF LoopSync, LoopTick
  <2>2. Pending' \subseteq Pending /\ Reported' = Reported
    BY Zenon, <2>1, HandOverPlaces DEF Pending, Reported
  <2> QED BY Zenon, <1>d, <2>1, <2>2
<1>8. ASSUME NEW c \in Slots, CommitApply(c) \/ CommitFail(c) \/ CommitReturn(c) PROVE Feed!Next
  <2>1. UNCHANGED <<note, resp, queue, sending, updChan, tree>>
    BY Zenon, <1>8 DEF CommitApply, CommitFail, CommitReturn
  <2>2. PICK pc \in {"revert", "none"} :
          commit' = [commit EXCEPT ![c] = [pc |-> pc, tree |-> EmptyTree]]
    BY Zenon, <1>8 DEF CommitApply, CommitFail, CommitReturn, NoCommit
  <2>3. CommitNotes' = CommitNotes \ From(c) BY Zenon, <2>2, CommitPlaces
  <2>4. Pending' \subseteq Pending /\ Reported' = Reported BY Zenon, <2>1, <2>3 DEF Pending, Reported
  <2>5. From(c) \subseteq Pending \ Pending'
    <3>1. From(c) \subseteq CommitNotes BY Zenon DEF From, CommitNotes
    <3> QED BY Zenon, <2>1, <2>3, <3>1 DEF PlaceInv, Pending
  <2>6. CASE CommitReturn(c)
    <3>1. UNCHANGED running BY Zenon, <2>6 DEF CommitReturn
    <3> QED BY Zenon, <1>d, <2>1, <2>4, <3>1
  <2>7. CASE CommitApply(c) \/ CommitFail(c)
    <3> DEFINE t == commit[c].tree
    <3>1. t \in Trees /\ Built(note, t) BY Zenon DEF TypeOK, Commits, BuiltInv
    <3>2. PICK U \in SUBSET Leafs :
            \/ running' = Applied(t)
            \/ running' = Applied([t EXCEPT !.upd = [l \in Leafs |-> IF l \in U THEN @[l] ELSE 0]])
      BY Zenon, <2>7 DEF CommitApply, CommitFail
    <3> HIDE DEF t
    <3>3. ASSUME NEW l \in Leafs
          PROVE  running'[l] = running[l] \/ \E n \in t.from : Feed!Brings(n, l, running'[l])
      BY Zenon, <3>1, <3>2, AppliedBrings
    <3>4. t.from \subseteq Pending \ Pending' BY Zenon, <2>5 DEF From, t
    <3> QED BY Zenon, <2>1, <2>4, <3>3, <3>4, ShrinkSettles DEF Feed!Next
  <2> QED BY Zenon, <1>8, <2>6, <2>7
<1>9. CASE Cancel \/ SubscribeEnd \/ LoopStart \/ LoopCancelled \/ UNCHANGED vars
  <2>1. UNCHANGED <<note, resp, queue, sending, updChan, tree, commit, running>>
    BY Zenon, <1>9 DEF Cancel, SubscribeEnd, LoopStart, LoopCancelled, vars
  <2>2. Pending' = Pending /\ Reported' = Reported BY Zenon, <2>1, SameCommits DEF Pending, Reported
  <2> QED BY Zenon, <1>d, <2>1, <2>2
<1> QED BY Zenon, <1>1, <1>2, <1>3, <1>4, <1>5, <1>6, <1>7, <1>8, <1>9 DEF Next

\* The subscription, the tasks, the loop and the commits together do to running what RunningFeed
\* allows: every notification is taken at most once and used at most once, and running changes only
\* to what the notifications of a committed tree bring (gnmiSubscribe, notificationProcessorTask,
\* buildTreeSyncWithDatastore, syncToRunning).
THEOREM FeedRefinement == Spec => FeedsRunning
<1>1. Init => Feed!Init /\ BuiltInv
  <2> SUFFICES ASSUME Init PROVE Feed!Init /\ BuiltInv
    BY Zenon
  <2>1. \A c \in Slots : commit[c].tree = EmptyTree BY Zenon DEF Init, NoCommit
  <2>2. CommitNotes = {} BY Zenon, <2>1, EmptyTreeType DEF CommitNotes
  <2>3. Pending = {} BY <2>2, EmptyTreeType DEF Init, Pending, Range
  <2>4. DOMAIN note = {} BY DEF Init
  <2> QED BY Zenon, <2>1, <2>3, <2>4, EmptyBuilt DEF Init, Feed!Init, Settled, BuiltInv
<1>2. TypeOK /\ PlaceInv /\ BuiltInv /\ [Next]_vars => (TypeOK /\ PlaceInv /\ BuiltInv)'
  BY Zenon, TypesKept, PlacesKept, BuiltKept
<1>3. TypeOK /\ PlaceInv /\ BuiltInv /\ [Next]_vars => [Feed!Next]_(Feed!vars)
  BY Zenon, TypesKept, StepRefines
<1> QED BY <1>1, <1>2, <1>3, Initially, PTL DEF Spec, FeedsRunning, Feed!Spec

-----------------------------------------------------------------------------
(* The order of the notifications *)

\* Numbers above 0 come in their order.
Rising(s) == \A i, j \in DOMAIN s : i < j /\ s[i] > 0 /\ s[j] > 0 => s[i] < s[j]

LEMMA RisingAppend ==
  ASSUME NEW X \in SUBSET Int, NEW s \in Seq(X), NEW x \in X, Rising(s),
         \A y \in Range(s) : y > 0 /\ x > 0 => y < x
  PROVE  Rising(Append(s, x))
<1> DEFINE t == Append(s, x)
<1>1. /\ Len(s) \in Nat /\ DOMAIN s = 1..Len(s) /\ DOMAIN t = 1..(Len(s) + 1)
      /\ t[Len(s) + 1] = x /\ \A i \in 1..Len(s) : t[i] = s[i]
  OBVIOUS
<1> HIDE DEF t
<1>2. ASSUME NEW i \in DOMAIN t, NEW j \in DOMAIN t, i < j, t[i] > 0, t[j] > 0 PROVE t[i] < t[j]
  <2>1. i \in DOMAIN s /\ t[i] = s[i] BY <1>1, <1>2
  <2>2. CASE j \in DOMAIN s BY Zenon, <1>1, <1>2, <2>1, <2>2 DEF Rising
  <2>3. CASE j = Len(s) + 1
    <3>1. s[i] \in Range(s) BY Zenon, <2>1 DEF Range
    <3> QED BY Zenon, <1>1, <1>2, <2>1, <2>3, <3>1
  <2> QED BY <1>1, <2>2, <2>3
<1>3. Rising(t) BY Zenon, <1>2 DEF Rising
<1> QED BY Zenon, <1>3 DEF t

LEMMA RisingTail ==
  ASSUME NEW X \in SUBSET Int, NEW s \in Seq(X), s # <<>>, Rising(s)
  PROVE  /\ Rising(Tail(s))
         /\ \A y \in Range(Tail(s)) : Head(s) > 0 /\ y > 0 => Head(s) < y
<1> DEFINE t == Tail(s)
<1>1. /\ Len(s) \in Nat /\ Len(s) > 0 /\ DOMAIN s = 1..Len(s) /\ Head(s) = s[1]
      /\ DOMAIN t = 1..(Len(s) - 1) /\ \A i \in 1..(Len(s) - 1) : t[i] = s[i + 1]
  OBVIOUS
<1> HIDE DEF t
<1>2. ASSUME NEW i \in DOMAIN t
      PROVE  i \in Nat /\ i > 0 /\ i + 1 \in DOMAIN s /\ 1 \in DOMAIN s /\ t[i] = s[i + 1]
  BY <1>1
<1>3. ASSUME NEW i \in DOMAIN t, NEW j \in DOMAIN t, i < j, t[i] > 0, t[j] > 0 PROVE t[i] < t[j]
  <2>1. i + 1 < j + 1 BY <1>2, <1>3
  <2> QED BY Zenon, <1>2, <1>3, <2>1 DEF Rising
<1>4. ASSUME NEW y \in Range(t), s[1] > 0, y > 0 PROVE s[1] < y
  <2>1. PICK i \in DOMAIN t : y = t[i] BY Zenon DEF Range
  <2>2. 1 < i + 1 BY <1>2
  <2> QED BY Zenon, <1>2, <1>4, <2>1, <2>2 DEF Rising
<1>5. Rising(t) BY Zenon, <1>3 DEF Rising
<1> QED BY Zenon, <1>1, <1>4, <1>5 DEF t

\* Whoever follows a notification of U is in U.
Ahead(D, U) == \A n \in U, m \in D : n < m => m \in U

LEMMA AheadApart ==
  ASSUME NEW D \in SUBSET Nat, NEW U \in SUBSET D, Ahead(D, U), NEW n \in U, NEW m \in D \ U
  PROVE  m < n
<1>1. ~(n < m) BY Zenon DEF Ahead
<1>2. m # n BY Zenon
<1> QED BY <1>1, <1>2

LEMMA AheadFirst ==
  ASSUME NEW D \in SUBSET Nat, NEW U \in SUBSET D, Ahead(D, U), NEW h \in U, \A u \in U : h <= u
  PROVE  Ahead(D, U \ {h})
<1>1. ASSUME NEW n \in U \ {h}, NEW m \in D, n < m PROVE m \in U \ {h}
  <2>1. m \in U BY Zenon, <1>1 DEF Ahead
  <2>2. h <= n /\ h \in Nat /\ n \in Nat /\ m \in Nat BY Zenon
  <2>3. m # h BY <1>1, <2>2
  <2> QED BY Zenon, <2>1, <2>3
<1> QED BY Zenon, <1>1 DEF Ahead

LEMMA AheadNew ==
  ASSUME NEW D \in SUBSET Nat, NEW U \in SUBSET D, Ahead(D, U), NEW k \in Nat, \A d \in D : d < k
  PROVE  Ahead(D \cup {k}, U \cup {k})
<1>1. ASSUME NEW n \in U \cup {k}, NEW m \in D \cup {k}, n < m PROVE m \in U \cup {k}
  <2>1. CASE m = k BY Zenon, <2>1
  <2>2. CASE m \in D /\ n = k BY <1>1, <2>2
  <2>3. CASE m \in D /\ n \in U BY Zenon, <1>1, <2>3 DEF Ahead
  <2> QED BY Zenon, <2>1, <2>2, <2>3
<1> QED BY Zenon, <1>1 DEF Ahead

\* The notifications that have not left the queue, the tasks, the channel, the loop and the commits.
NotStarted == Reported \cup Range(queue)
NotSent == NotStarted \cup sending
NotTaken == NotSent \cup Range(updChan)
NotHandedOver == NotTaken \cup tree.from
NotSettled == NotHandedOver \cup CommitNotes

\* Nothing overtakes anything.
Ordered ==
  /\ Rising(resp) /\ Rising(queue) /\ Rising(updChan)
  /\ \A m, n \in sending : m = n
  /\ Ahead(DOMAIN note, Reported) /\ Ahead(DOMAIN note, NotStarted) /\ Ahead(DOMAIN note, NotSent)
  /\ Ahead(DOMAIN note, NotTaken) /\ Ahead(DOMAIN note, NotHandedOver)
  /\ Ahead(DOMAIN note, NotSettled)

\* With one worker and one SyncResponse nothing is overtaken, unless something was given up.
OrderInv == workers = 1 /\ handled <= 1 /\ lost = {} => Ordered

\* The notifications are numbers, and the places lie within each other.
LEMMA Places ==
  ASSUME TypeOK, PlaceInv
  PROVE  /\ DOMAIN note \in SUBSET Nat /\ \A n \in DOMAIN note : n > 0
         /\ Reported \in SUBSET DOMAIN note /\ NotStarted \in SUBSET DOMAIN note
         /\ NotSent \in SUBSET DOMAIN note /\ NotTaken \in SUBSET DOMAIN note
         /\ NotHandedOver \in SUBSET DOMAIN note /\ NotSettled \in SUBSET DOMAIN note
<1>1. DOMAIN note \in SUBSET Nat /\ \A n \in DOMAIN note : n > 0 BY DEF TypeOK
<1>2. Reported \subseteq DOMAIN note /\ Pending \subseteq DOMAIN note BY Zenon DEF PlaceInv
<1> QED BY Zenon, <1>1, <1>2 DEF Pending, NotStarted, NotSent, NotTaken, NotHandedOver, NotSettled

\* The steps that leave every place alone.
LEMMA OrderedSame ==
  ASSUME Ordered, UNCHANGED <<note, resp, queue, sending, updChan, tree>>, CommitNotes' = CommitNotes
  PROVE  Ordered'
<1>1. /\ Reported' = Reported /\ NotStarted' = NotStarted /\ NotSent' = NotSent
      /\ NotTaken' = NotTaken /\ NotHandedOver' = NotHandedOver /\ NotSettled' = NotSettled
  BY Zenon DEF Reported, NotStarted, NotSent, NotTaken, NotHandedOver, NotSettled
<1> QED BY Zenon, <1>1 DEF Ordered

\* Unless the tree is dropped, what it holds is with a commit.
LEMMA HandedOver ==
  ASSUME TypeOK, PlaceInv, HandOver
  PROVE  \/ \E c \in Slots \ InFlight :
              /\ commit' = [commit EXCEPT ![c] = [pc |-> "apply", tree |-> tree]]
              /\ CommitNotes' = CommitNotes \cup tree.from
         \/ UNCHANGED commit /\ tree.from \subseteq lost'
<1>1. ASSUME NEW c \in Slots \ InFlight,
             commit' = [commit EXCEPT ![c] = [pc |-> "apply", tree |-> tree]]
      PROVE  CommitNotes' = CommitNotes \cup tree.from
  <2>1. From(c)' = tree.from /\ \A d \in Slots \ {c} : From(d)' = From(d)
    BY Zenon, <1>1 DEF TypeOK, From
  <2>2. From(c) = {} BY Zenon DEF InFlight, PlaceInv
  <2>3. CommitNotes = UNION {From(d) : d \in Slots} BY Zenon DEF CommitNotes, From
  <2>4. CommitNotes' = UNION {From(d)' : d \in Slots} BY Zenon DEF CommitNotes, From
  <2> QED BY Zenon, <2>1, <2>2, <2>3, <2>4
<1> QED BY Zenon, <1>1 DEF HandOver

LEMMA OrderedKept ==
  ASSUME TypeOK, PlaceInv, Ordered, [Next]_vars, lost' = {},
         TaskStart => sending = {},
         LoopSync \/ LoopTick => InFlight = {},
         \A c, d \in InFlight : c = d
  PROVE  Ordered'
<1> USE DEF sourceVars, environment, subVars, poolVars, loopVars
<1> DEFINE D == DOMAIN note
<1>a. /\ note \in Seq(NoteType) /\ resp \in Seq(-1..MaxNotes)
      /\ queue \in Seq(Notes) /\ updChan \in Seq(Notes)
      /\ Notes \in SUBSET Int /\ -1..MaxNotes \in SUBSET Int
  BY BoundsAssumption DEF TypeOK, Notes
<1>b. /\ D \in SUBSET Nat /\ \A n \in D : n > 0
      /\ Reported \in SUBSET D /\ NotStarted \in SUBSET D /\ NotSent \in SUBSET D
      /\ NotTaken \in SUBSET D /\ NotHandedOver \in SUBSET D /\ NotSettled \in SUBSET D
  BY Zenon, Places
<1>c. Rising(resp) /\ Rising(queue) /\ Rising(updChan) BY Zenon DEF Ordered
<1>d. /\ Ahead(D, Reported) /\ Ahead(D, NotStarted) /\ Ahead(D, NotSent)
      /\ Ahead(D, NotTaken) /\ Ahead(D, NotHandedOver) /\ Ahead(D, NotSettled)
  BY Zenon DEF Ordered
<1>e. \A m, n \in sending : m = n BY Zenon DEF Ordered
<1> HIDE DEF D
<1>1. ASSUME NEW l \in Leafs, NEW op \in {"update", "delete", "unknown"}, DeviceChange(l, op)
      PROVE  Ordered'
  <2>1. UNCHANGED <<queue, sending, updChan, tree, commit>> BY Zenon, <1>1 DEF DeviceChange
  <2> DEFINE k == Len(note) + 1
  <2>2. k \in Nat /\ k > 0 /\ DOMAIN note' = D \cup {k} /\ \A n \in D : n < k
    <3>1. Len(note') = k /\ Len(note) \in Nat /\ DOMAIN note' = 1..k /\ D = 1..Len(note)
      BY <1>1, <1>a DEF DeviceChange, NoteType, D
    <3> QED BY <3>1
  <2>3. k \in -1..MaxNotes /\ resp' = Append(resp, k)
    <3>1. Len(note') = k BY <1>1, <1>a DEF DeviceChange, NoteType
    <3> QED BY <1>1, <1>a, <2>2, <3>1, BoundsAssumption DEF DeviceChange
  <2> HIDE DEF k
  <2>4. Range(resp') = Range(resp) \cup {k} BY Zenon, <2>3, RespChannel
  <2>5. Reported' = Reported \cup {k} BY Zenon, <2>2, <2>4 DEF Reported
  <2>6. Rising(resp')
    <3>1. ASSUME NEW y \in Range(resp), y > 0 PROVE y < k
      <4>1. y \in Reported BY Zenon, <3>1 DEF Reported
      <4> QED BY Zenon, <1>b, <2>2, <4>1
    <3> QED BY Zenon, <1>a, <1>c, <2>3, <3>1, RisingAppend
  <2>7. /\ NotStarted' = NotStarted \cup {k} /\ NotSent' = NotSent \cup {k}
        /\ NotTaken' = NotTaken \cup {k} /\ NotHandedOver' = NotHandedOver \cup {k}
        /\ NotSettled' = NotSettled \cup {k}
    <3>1. CommitNotes' = CommitNotes BY Zenon, <2>1, SameCommits
    <3> QED BY Zenon, <2>1, <2>5, <3>1 DEF NotStarted, NotSent, NotTaken, NotHandedOver, NotSettled
  <2>8. ASSUME NEW U \in SUBSET D, Ahead(D, U) PROVE Ahead(DOMAIN note', U \cup {k})
    BY Zenon, <1>b, <2>2, <2>8, AheadNew
  <2> QED BY Zenon, <1>b, <1>c, <1>d, <1>e, <2>1, <2>5, <2>6, <2>7, <2>8 DEF Ordered
<1>2. CASE DeviceSync \/ DeviceError
  <2>1. UNCHANGED <<note, queue, sending, updChan, tree, commit>> BY Zenon, <1>2 DEF DeviceSync, DeviceError
  <2>2. Rising(resp') /\ Reported' = Reported
    <3>1. CASE DeviceSync
      <4>1. resp' = Append(resp, 0) /\ 0 \in -1..MaxNotes /\ ~(0 > 0)
        BY <3>1, BoundsAssumption DEF DeviceSync, SyncResponse
      <4>2. Range(resp') = Range(resp) \cup {0} BY Zenon, RespChannel, <4>1
      <4>3. Rising(resp') BY Zenon, <1>a, <1>c, <4>1, RisingAppend
      <4> QED BY Zenon, <4>1, <4>2, <4>3 DEF Reported
    <3>2. CASE DeviceError
      <4>1. resp = <<>> /\ resp' = <<-1>> BY Zenon, <3>2 DEF DeviceError, ErrorResponse
      <4>2. Range(resp) = {} /\ Range(resp') = {-1} BY <4>1 DEF Range
      <4> QED BY <4>1, <4>2 DEF Rising, Reported
    <3> QED BY Zenon, <1>2, <3>1, <3>2
  <2>3. /\ NotStarted' = NotStarted /\ NotSent' = NotSent /\ NotTaken' = NotTaken
        /\ NotHandedOver' = NotHandedOver /\ NotSettled' = NotSettled
    BY Zenon, <2>1, <2>2, SameCommits DEF NotStarted, NotSent, NotTaken, NotHandedOver, NotSettled
  <2> QED BY Zenon, <1>c, <1>d, <1>e, <2>1, <2>2, <2>3 DEF Ordered, D
<1>3. CASE SubscribeRecv
  <2>1. UNCHANGED <<note, sending, updChan, tree, commit>> BY Zenon, <1>3 DEF SubscribeRecv
  <2> DEFINE n == Head(resp)
  <2>2. /\ n \in -1..MaxNotes /\ Range(resp) = Range(resp') \cup {n}
        /\ n > 0 => n \notin Range(resp')
    <3>1. resp # <<>> /\ resp' = Tail(resp) /\ Once(resp) BY Zenon, <1>3 DEF SubscribeRecv, PlaceInv
    <3> QED BY Zenon, <3>1, RespChannel
  <2>3. Rising(resp') /\ \A y \in Range(resp') : n > 0 /\ y > 0 => n < y
    BY Zenon, <1>3, <1>a, <1>c, RisingTail DEF SubscribeRecv
  <2>4. CASE n > 0
    <3>1. n \in Notes /\ n \in Reported /\ Reported' = Reported \ {n}
      BY <2>2, <2>4, BoundsAssumption DEF Notes, Reported
    <3>2. queue' = Append(queue, n)
      BY <1>3, <2>4 DEF SubscribeRecv, Submit, SyncResponse, ErrorResponse
    <3> HIDE DEF n
    <3>3. Ahead(D, Reported')
      <4>1. ASSUME NEW u \in Reported PROVE n <= u
        <5>1. u = n \/ n < u BY Zenon, <2>2, <2>3, <2>4 DEF Reported
        <5> QED BY <1>b, <3>1, <5>1
      <4> QED BY Zenon, <1>b, <1>d, <3>1, <4>1, AheadFirst
    <3>4. Rising(queue')
      <4>1. ASSUME NEW y \in Range(queue) PROVE y < n
        <5>1. y \in D \ Reported BY Zenon, <1>b DEF PlaceInv, Pending, NotStarted
        <5> QED BY Zenon, <1>b, <1>d, <3>1, <5>1, AheadApart
      <4> QED BY Zenon, <1>a, <1>c, <3>1, <3>2, <4>1, RisingAppend
    <3>5. Range(queue') = Range(queue) \cup {n} BY Zenon, <3>1, <3>2, QueueChannel
    <3>6. NotStarted' = NotStarted BY Zenon, <3>1, <3>5 DEF NotStarted
    <3>7. /\ NotSent' = NotSent /\ NotTaken' = NotTaken
          /\ NotHandedOver' = NotHandedOver /\ NotSettled' = NotSettled
      BY Zenon, <2>1, <3>6, SameCommits DEF NotSent, NotTaken, NotHandedOver, NotSettled
    <3> QED BY Zenon, <1>c, <1>d, <1>e, <2>1, <2>3, <3>3, <3>4, <3>6, <3>7 DEF Ordered, D
  <2>5. CASE ~(n > 0)
    <3>1. UNCHANGED queue BY Zenon, <1>3, <2>5 DEF SubscribeRecv
    <3>2. Reported' = Reported BY Zenon, <2>2, <2>5 DEF Reported
    <3>3. /\ NotStarted' = NotStarted /\ NotSent' = NotSent /\ NotTaken' = NotTaken
          /\ NotHandedOver' = NotHandedOver /\ NotSettled' = NotSettled
      BY Zenon, <2>1, <3>1, <3>2, SameCommits DEF NotStarted, NotSent, NotTaken, NotHandedOver, NotSettled
    <3> QED BY Zenon, <1>c, <1>d, <1>e, <2>1, <2>3, <3>1, <3>2, <3>3 DEF Ordered, D
  <2> QED BY Zenon, <2>4, <2>5
<1>4. CASE TaskStart
  <2> DEFINE h == Head(queue)
  <2>1. UNCHANGED <<note, resp, updChan, tree, commit>> /\ sending = {} /\ sending' = {h}
    BY Zenon, <1>4 DEF TaskStart
  <2>2. /\ Range(queue) = Range(queue') \cup {h} /\ h \in Notes /\ h > 0 /\ h \notin Range(queue')
    <3>1. queue # <<>> /\ queue' = Tail(queue) /\ Once(queue) BY Zenon, <1>4 DEF TaskStart, PlaceInv
    <3>2. /\ Range(queue) = Range(queue') \cup {h} /\ h \in Notes
          /\ h > 0 => h \notin Range(queue')
      BY Zenon, <3>1, QueueChannel
    <3> QED BY <3>2, BoundsAssumption DEF Notes
  <2>3. Rising(queue') /\ \A y \in Range(queue') : h > 0 /\ y > 0 => h < y
    BY Zenon, <1>4, <1>a, <1>c, RisingTail DEF TaskStart
  <2> HIDE DEF h
  <2>4. Reported' = Reported BY Zenon, <2>1 DEF Reported
  <2>5. h \in D \ Reported /\ h \in NotStarted BY Zenon, <1>b, <2>2 DEF PlaceInv, Pending, NotStarted
  <2>6. NotStarted' = NotStarted \ {h} BY Zenon, <2>2, <2>4, <2>5 DEF NotStarted
  <2>7. Ahead(D, NotStarted')
    <3>1. ASSUME NEW u \in NotStarted PROVE h <= u
      <4>1. u \in D /\ u > 0 BY Zenon, <1>b
      <4>2. u \in Reported => h < u BY Zenon, <1>b, <1>d, <2>5, AheadApart
      <4>3. u \in Range(queue) => u = h \/ h < u BY Zenon, <2>2, <2>3, <4>1
      <4> QED BY <1>b, <2>5, <4>1, <4>2, <4>3 DEF NotStarted
    <3> QED BY Zenon, <1>b, <1>d, <2>5, <2>6, <3>1, AheadFirst
  <2>8. NotSent' = NotSent BY Zenon, <2>1, <2>5, <2>6 DEF NotSent
  <2>9. NotTaken' = NotTaken /\ NotHandedOver' = NotHandedOver /\ NotSettled' = NotSettled
    BY Zenon, <2>1, <2>8, SameCommits DEF NotTaken, NotHandedOver, NotSettled
  <2> QED BY Zenon, <1>c, <1>d, <2>1, <2>3, <2>4, <2>7, <2>8, <2>9 DEF Ordered, D
<1>5. ASSUME NEW n \in Notes, TaskSend(n) PROVE Ordered'
  <2>1. /\ UNCHANGED <<note, resp, queue, tree, commit>> /\ n \in sending
        /\ sending' = sending \ {n} /\ updChan' = Append(updChan, n)
    BY Zenon, <1>5 DEF TaskSend
  <2>2. sending' = {} BY Zenon, <1>e, <2>1
  <2>3. Range(updChan') = Range(updChan) \cup {n} BY Zenon, <2>1, UpdChannel
  <2>4. Rising(updChan')
    <3>1. ASSUME NEW y \in Range(updChan) PROVE y < n
      <4>1. y \in D \ NotSent BY Zenon, <1>b DEF PlaceInv, Pending, NotStarted, NotSent, NotTaken
      <4>2. n \in NotSent BY Zenon, <2>1 DEF NotSent
      <4> QED BY Zenon, <1>b, <1>d, <4>1, <4>2, AheadApart
    <3> QED BY Zenon, <1>a, <1>c, <2>1, <3>1, RisingAppend
  <2>5. Reported' = Reported BY Zenon, <2>1 DEF Reported
  <2>6. NotStarted' = NotStarted BY Zenon, <2>1, <2>5 DEF NotStarted
  <2>7. NotSent' = NotStarted BY Zenon, <2>2, <2>6 DEF NotSent
  <2>8. NotTaken' = NotTaken
    <3>1. sending = {n} BY Zenon, <1>e, <2>1
    <3> QED BY Zenon, <2>3, <2>7, <3>1 DEF NotTaken, NotSent
  <2>9. NotHandedOver' = NotHandedOver /\ NotSettled' = NotSettled
    BY Zenon, <2>1, <2>8, SameCommits DEF NotHandedOver, NotSettled
  <2> QED BY Zenon, <1>c, <1>d, <2>1, <2>2, <2>4, <2>5, <2>6, <2>7, <2>8, <2>9 DEF Ordered, D
<1>6. ASSUME NEW n \in Notes, TaskGiveUp(n) PROVE Ordered'
  <2>1. n \in lost' BY Zenon, <1>6 DEF TaskGiveUp
  <2> QED BY Zenon, <2>1
<1>7. CASE LoopRecv
  <2> DEFINE h == Head(updChan)
  <2>1. UNCHANGED <<note, resp, queue, sending, commit>> BY Zenon, <1>7 DEF LoopRecv
  <2>2. Range(updChan) = Range(updChan') \cup {h} /\ h \in Notes /\ h > 0 /\ h \notin Range(updChan')
    <3>1. updChan # <<>> /\ updChan' = Tail(updChan) /\ Once(updChan) BY Zenon, <1>7 DEF LoopRecv, PlaceInv
    <3>2. /\ Range(updChan) = Range(updChan') \cup {h} /\ h \in Notes
          /\ h > 0 => h \notin Range(updChan')
      BY Zenon, <3>1, UpdChannel
    <3> QED BY <3>2, BoundsAssumption DEF Notes
  <2>3. Rising(updChan') /\ \A y \in Range(updChan') : h > 0 /\ y > 0 => h < y
    BY Zenon, <1>7, <1>a, <1>c, RisingTail DEF LoopRecv
  <2>4. h \in D \ NotSent /\ h \in NotTaken
    BY Zenon, <1>b, <2>2 DEF PlaceInv, Pending, NotStarted, NotSent, NotTaken
  <2>5. tree'.from = tree.from \cup {h}
    <3>1. h \in DOMAIN note BY Zenon, <2>4 DEF D
    <3> QED BY Zenon, <1>7, <2>2, <3>1, TreeTypes DEF LoopRecv
  <2> HIDE DEF h
  <2>6. Reported' = Reported /\ NotStarted' = NotStarted /\ NotSent' = NotSent
    BY Zenon, <2>1 DEF Reported, NotStarted, NotSent
  <2>7. NotTaken' = NotTaken \ {h} BY Zenon, <2>2, <2>4, <2>6 DEF NotTaken
  <2>8. Ahead(D, NotTaken')
    <3>1. ASSUME NEW u \in NotTaken PROVE h <= u
      <4>1. u \in D /\ u > 0 BY Zenon, <1>b
      <4>2. u \in NotSent => h < u BY Zenon, <1>b, <1>d, <2>4, AheadApart
      <4>3. u \in Range(updChan) => u = h \/ h < u BY Zenon, <2>2, <2>3, <4>1
      <4> QED BY <1>b, <2>4, <4>1, <4>2, <4>3 DEF NotTaken
    <3> QED BY Zenon, <1>b, <1>d, <2>4, <2>7, <3>1, AheadFirst
  <2>9. NotHandedOver' = NotHandedOver BY Zenon, <2>4, <2>5, <2>7 DEF NotHandedOver
  <2>10. NotSettled' = NotSettled BY Zenon, <2>1, <2>9, SameCommits DEF NotSettled
  <2> QED BY Zenon, <1>c, <1>d, <1>e, <2>1, <2>3, <2>6, <2>8, <2>9, <2>10 DEF Ordered, D
<1>8. CASE LoopSync \/ LoopTick
  <2>1. HandOver /\ UNCHANGED <<note, resp, queue, sending, updChan>> /\ InFlight = {}
    BY Zenon, <1>8 DEF LoopSync, LoopTick
  <2>2. CommitNotes = {}
    <3>1. \A c \in Slots : From(c) = {} BY Zenon, <2>1 DEF InFlight, PlaceInv
    <3> QED BY Zenon, <3>1 DEF CommitNotes, From
  <2>3. tree'.from = {} BY Zenon, <2>1, HandOverPlaces
  <2>4. CommitNotes' = tree.from
    <3>1. \/ CommitNotes' = CommitNotes \cup tree.from
          \/ UNCHANGED commit /\ tree.from = {}
      BY Zenon, <2>1, HandedOver
    <3> QED BY Zenon, <2>1, <2>2, <3>1, SameCommits
  <2>5. /\ Reported' = Reported /\ NotStarted' = NotStarted /\ NotSent' = NotSent
        /\ NotTaken' = NotTaken
    BY Zenon, <2>1 DEF Reported, NotStarted, NotSent, NotTaken
  <2>6. NotHandedOver' = NotTaken BY Zenon, <2>3, <2>5 DEF NotHandedOver
  <2>7. NotSettled' = NotHandedOver BY Zenon, <2>4, <2>6 DEF NotSettled, NotHandedOver
  <2> QED BY Zenon, <1>c, <1>d, <1>e, <2>1, <2>5, <2>6, <2>7 DEF Ordered, D
<1>9. ASSUME NEW c \in Slots, CommitApply(c) \/ CommitFail(c) \/ CommitReturn(c) PROVE Ordered'
  <2>1. UNCHANGED <<note, resp, queue, sending, updChan, tree>>
    BY Zenon, <1>9 DEF CommitApply, CommitFail, CommitReturn
  <2>2. PICK pc \in {"revert", "none"} :
          commit' = [commit EXCEPT ![c] = [pc |-> pc, tree |-> EmptyTree]]
    BY Zenon, <1>9 DEF CommitApply, CommitFail, CommitReturn, NoCommit
  <2>3. CommitNotes' = CommitNotes \ From(c) BY Zenon, <2>2, CommitPlaces
  <2>4. CommitNotes = From(c) \/ From(c) = {}
    <3>1. CASE c \in InFlight
      <4>1. \A d \in Slots : d # c => From(d) = {} BY Zenon, <3>1 DEF InFlight, PlaceInv
      <4> QED BY Zenon, <4>1 DEF CommitNotes, From
    <3>2. CASE c \notin InFlight BY Zenon, <3>2 DEF InFlight, PlaceInv
    <3> QED BY Zenon, <3>1, <3>2
  <2>5. CASE From(c) = {} BY Zenon, <2>1, <2>3, <2>5, OrderedSame
  <2>6. CASE CommitNotes = From(c)
    <3>1. /\ Reported' = Reported /\ NotStarted' = NotStarted /\ NotSent' = NotSent
          /\ NotTaken' = NotTaken /\ NotHandedOver' = NotHandedOver
      BY Zenon, <2>1 DEF Reported, NotStarted, NotSent, NotTaken, NotHandedOver
    <3>2. NotSettled' = NotHandedOver BY Zenon, <2>3, <2>6, <3>1 DEF NotSettled
    <3> QED BY Zenon, <1>c, <1>d, <1>e, <2>1, <3>1, <3>2 DEF Ordered, D
  <2> QED BY Zenon, <2>4, <2>5, <2>6
<1>10. CASE Cancel \/ SubscribeEnd \/ LoopStart \/ LoopCancelled \/ UNCHANGED vars
  <2>1. UNCHANGED <<note, resp, queue, sending, updChan, tree, commit>>
    BY Zenon, <1>10 DEF Cancel, SubscribeEnd, LoopStart, LoopCancelled, vars
  <2> QED BY Zenon, <2>1, SameCommits, OrderedSame
<1> QED BY Zenon, <1>1, <1>2, <1>3, <1>4, <1>5, <1>6, <1>7, <1>8, <1>9, <1>10 DEF Next

-----------------------------------------------------------------------------
(* Running follows the device *)

\* Notification n is what running ought to have for leaf l in the end.
Decides(l, n) ==
  /\ n \in NotesOf(l) /\ note[n].op = "update"
  /\ \/ NotesOf(l) = {n}
     \/ workers = 1 /\ handled <= 1 /\ \A m \in NotesOf(l) : m <= n

\* Wherever it has got to, it is what counts there.
Follows ==
  \A l \in Leafs, n \in DOMAIN note : Decides(l, n) =>
    /\ n \in tree.from => tree.upd[l] = n
    /\ \A c \in Slots : n \in From(c) => commit[c].tree.upd[l] = n
    /\ n \notin NotSettled => running[l] = n

FollowInv == lost = {} => Follows

\* Running has updates of the leaf; and a leaf that was notified of has a last notification.
SourceInv ==
  \A l \in Leafs :
    /\ running[l] # 0 => running[l] \in NotesOf(l) /\ note[running[l]].op = "update"
    /\ NotesOf(l) # {} => \E n \in NotesOf(l) : \A m \in NotesOf(l) : m <= n

\* What decides after a step decided before it, if it was there.
LEMMA DecidedBefore ==
  ASSUME TypeOK, [Next]_vars, NEW l \in Leafs, NEW n \in DOMAIN note, Decides(l, n)'
  PROVE  Decides(l, n)
<1> USE DEF sourceVars, environment, subVars, poolVars, loopVars
<1>1. workers' = workers /\ handled \in Nat /\ (handled' = handled \/ handled' = handled + 1)
  BY Zenon DEF TypeOK, Next, vars, DeviceChange, DeviceSync, DeviceError, Cancel, SubscribeRecv,
     SubscribeEnd, TaskStart, TaskSend, TaskGiveUp, LoopStart, LoopCancelled, LoopRecv, LoopSync,
     LoopTick, CommitApply, CommitFail, CommitReturn
<1>2. DOMAIN note \subseteq DOMAIN note' /\ \A m \in DOMAIN note : note'[m] = note[m]
  <2>1. CASE UNCHANGED note BY Zenon, <2>1
  <2>2. ASSUME NEW k \in Leafs, NEW op \in {"update", "delete", "unknown"}, DeviceChange(k, op)
        PROVE  DOMAIN note \subseteq DOMAIN note' /\ \A m \in DOMAIN note : note'[m] = note[m]
    BY <2>2 DEF DeviceChange, TypeOK
  <2>3. \/ UNCHANGED note
        \/ \E k \in Leafs, op \in {"update", "delete", "unknown"} : DeviceChange(k, op)
    BY Zenon DEF Next, vars, DeviceSync, DeviceError, Cancel, SubscribeRecv,
       SubscribeEnd, TaskStart, TaskSend, TaskGiveUp, LoopStart, LoopCancelled, LoopRecv, LoopSync,
       LoopTick, CommitApply, CommitFail, CommitReturn
  <2> QED BY Zenon, <2>1, <2>2, <2>3
<1>3. NotesOf(l) \subseteq NotesOf(l)' /\ n \in NotesOf(l) /\ note[n].op = "update"
  BY Zenon, <1>2 DEF NotesOf, Decides
<1>4. handled' <= 1 => handled <= 1 BY <1>1
<1> QED BY Zenon, <1>1, <1>3, <1>4 DEF Decides

\* Another notification of the leaf is not behind the one that decides.
LEMMA NoneLater ==
  ASSUME NEW l \in Leafs, NEW n \in DOMAIN note, Decides(l, n), DOMAIN note \in SUBSET Nat,
         NEW U \in SUBSET DOMAIN note, workers = 1 /\ handled <= 1 => Ahead(DOMAIN note, U),
         n \notin U, NEW m \in U
  PROVE  note[m].leaf # l
<1> SUFFICES ASSUME note[m].leaf = l PROVE FALSE
  BY Zenon
<1>1. m \in NotesOf(l) /\ m # n BY Zenon DEF NotesOf
<1>2. workers = 1 /\ handled <= 1 /\ m <= n BY Zenon, <1>1 DEF Decides
<1>3. n < m BY Zenon, <1>2, AheadApart
<1> QED BY <1>2, <1>3

\* The steps that leave alone what the loop and the commits hold.
LEMMA FollowsSame ==
  ASSUME TypeOK, Follows, [Next]_vars,
         UNCHANGED <<note, tree, commit, running>>, NotSettled' = NotSettled
  PROVE  Follows'
<1> SUFFICES ASSUME NEW l \in Leafs, NEW n \in DOMAIN note', Decides(l, n)'
             PROVE  /\ n \in tree'.from => tree'.upd[l] = n
                    /\ \A c \in Slots : n \in From(c)' => commit'[c].tree.upd[l] = n
                    /\ n \notin NotSettled' => running'[l] = n
  BY Zenon DEF Follows
<1>1. n \in DOMAIN note /\ Decides(l, n) BY Zenon, DecidedBefore
<1>2. /\ n \in tree.from => tree.upd[l] = n
      /\ \A c \in Slots : n \in From(c) => commit[c].tree.upd[l] = n
      /\ n \notin NotSettled => running[l] = n
  BY Zenon, <1>1 DEF Follows
<1>3. \A c \in Slots : From(c)' = From(c) BY Zenon DEF From
<1> QED BY Zenon, <1>2, <1>3

\* The steps that leave alone what the commits and running hold.
LEMMA FollowsNow ==
  ASSUME UNCHANGED <<commit, running>>,
         \A l \in Leafs, n \in DOMAIN note' : Decides(l, n)' =>
           /\ n \in tree'.from => tree'.upd[l] = n
           /\ \A c \in Slots : n \in From(c) => commit[c].tree.upd[l] = n
           /\ n \notin NotSettled' => running[l] = n
  PROVE  Follows'
<1>1. \A c \in Slots : From(c)' = From(c) BY Zenon DEF From
<1>2. commit' = commit /\ running' = running BY Zenon
<1> SUFFICES ASSUME NEW l \in Leafs, NEW n \in DOMAIN note', Decides(l, n)'
             PROVE  /\ n \in tree'.from => tree'.upd[l] = n
                    /\ \A c \in Slots : n \in From(c)' => commit'[c].tree.upd[l] = n
                    /\ n \notin NotSettled' => running'[l] = n
  BY Zenon DEF Follows
<1>3. /\ n \in tree'.from => tree'.upd[l] = n
      /\ \A c \in Slots : n \in From(c) => commit[c].tree.upd[l] = n
      /\ n \notin NotSettled' => running[l] = n
  BY Zenon
<1> QED BY <1>1, <1>2, <1>3

LEMMA FollowsKept ==
  ASSUME TypeOK, PlaceInv, BuiltInv, Follows, workers = 1 /\ handled <= 1 => Ordered,
         [Next]_vars, lost' = {}
  PROVE  Follows'
<1> USE DEF sourceVars, environment, subVars, poolVars, loopVars
<1>a. /\ DOMAIN note \in SUBSET Nat /\ \A n \in DOMAIN note : n > 0
      /\ Reported \in SUBSET DOMAIN note /\ NotTaken \in SUBSET DOMAIN note
      /\ NotSettled \in SUBSET DOMAIN note
  BY Zenon, Places
<1>b. workers = 1 /\ handled <= 1 => Ahead(DOMAIN note, NotTaken) /\ Ahead(DOMAIN note, NotSettled)
  BY Zenon DEF Ordered
<1>c. ASSUME NEW l \in Leafs, NEW n \in DOMAIN note, Decides(l, n)'
      PROVE  /\ Decides(l, n)
             /\ n \in tree.from => tree.upd[l] = n
             /\ \A c \in Slots : n \in From(c) => commit[c].tree.upd[l] = n
             /\ n \notin NotSettled => running[l] = n
  BY Zenon, <1>c, DecidedBefore DEF Follows
<1>d. tree.from \subseteq NotSettled /\ \A c \in Slots : From(c) \subseteq NotSettled
  BY Zenon DEF NotSettled, NotHandedOver, CommitNotes, From
<1>1. ASSUME NEW k \in Leafs, NEW op \in {"update", "delete", "unknown"}, DeviceChange(k, op)
      PROVE  Follows'
  <2>1. UNCHANGED <<queue, sending, updChan, tree, commit, running>> BY Zenon, <1>1 DEF DeviceChange
  <2> DEFINE new == Len(note) + 1
  <2>2. DOMAIN note' = DOMAIN note \cup {new} /\ new \notin DOMAIN note /\ new > 0
    <3>1. note \in Seq(NoteType) BY Zenon DEF TypeOK
    <3>2. Len(note') = new /\ Len(note) \in Nat /\ DOMAIN note' = 1..new /\ DOMAIN note = 1..Len(note)
      BY <1>1, <3>1 DEF DeviceChange, NoteType
    <3> QED BY <3>2
  <2>3. new \in -1..MaxNotes /\ resp' = Append(resp, new)
    <3>1. note \in Seq(NoteType) BY Zenon DEF TypeOK
    <3>2. Len(note') = new /\ Len(note) \in Nat BY <1>1, <3>1 DEF DeviceChange, NoteType
    <3> QED BY <1>1, <3>2, BoundsAssumption DEF DeviceChange
  <2> HIDE DEF new
  <2>4. Range(resp') = Range(resp) \cup {new} BY Zenon, <2>3, RespChannel
  <2>5. Reported' = Reported \cup {new} BY Zenon, <2>2, <2>4 DEF Reported
  <2>6. NotSettled' = NotSettled \cup {new}
    <3>1. CommitNotes' = CommitNotes BY Zenon, <2>1, SameCommits
    <3> QED BY Zenon, <2>1, <2>5, <3>1 DEF NotStarted, NotSent, NotTaken, NotHandedOver, NotSettled
  <2>7. new \notin tree.from /\ \A c \in Slots : new \notin From(c) BY Zenon, <1>a, <1>d, <2>2
  <2>8. ASSUME NEW l \in Leafs, NEW n \in DOMAIN note', Decides(l, n)'
        PROVE  /\ n \in tree'.from => tree'.upd[l] = n
               /\ \A c \in Slots : n \in From(c) => commit[c].tree.upd[l] = n
               /\ n \notin NotSettled' => running[l] = n
    <3>1. CASE n = new BY Zenon, <2>1, <2>6, <2>7, <3>1
    <3>2. CASE n \in DOMAIN note BY Zenon, <1>c, <2>1, <2>6, <2>8, <3>2
    <3> QED BY Zenon, <2>2, <3>1, <3>2
  <2> QED BY Zenon, <2>1, <2>8, FollowsNow
<1>2. CASE LoopRecv
  <2> DEFINE h == Head(updChan)
  <2>1. UNCHANGED <<note, resp, queue, sending, commit, running>> /\ tree' = AddToTree(tree, h)
    BY Zenon, <1>2 DEF LoopRecv
  <2>2. Range(updChan) = Range(updChan') \cup {h} BY Zenon, <1>2, UpdChannel DEF LoopRecv
  <2> HIDE DEF h
  <2>3. h \in NotTaken /\ h \in DOMAIN note BY Zenon, <1>a, <2>2 DEF NotTaken
  <2>4. tree.upd \in [Leafs -> 0..MaxNotes] BY Zenon DEF TypeOK, Trees
  <2>5. /\ tree'.upd = IF note[h].op = "update" THEN [tree.upd EXCEPT ![note[h].leaf] = h]
                       ELSE tree.upd
        /\ tree'.from = tree.from \cup {h}
    BY Zenon, <2>1 DEF AddToTree
  <2>6. NotSettled' = NotSettled
    <3>1. Reported' = Reported /\ CommitNotes' = CommitNotes BY Zenon, <2>1, SameCommits DEF Reported
    <3> QED BY Zenon, <2>1, <2>2, <2>5, <3>1 DEF NotStarted, NotSent, NotTaken, NotHandedOver, NotSettled
  <2>7. ASSUME NEW l \in Leafs, NEW n \in DOMAIN note, Decides(l, n)', n \in tree'.from
        PROVE  tree'.upd[l] = n
    <3>1. CASE n = h
      <4>1. note[h].leaf = l /\ note[h].op = "update" BY Zenon, <1>c, <2>7, <3>1 DEF Decides, NotesOf
      <4> QED BY Zenon, <2>4, <2>5, <3>1, <4>1
    <3>2. CASE n # h
      <4>1. n \in tree.from /\ tree.upd[l] = n BY Zenon, <1>c, <2>5, <2>7, <3>2
      <4>2. n \notin NotTaken
        BY Zenon, <4>1, <1>a DEF PlaceInv, Pending, NotStarted, NotSent, NotTaken
      <4>3. Decides(l, n) BY Zenon, <1>c, <2>7
      <4>4. note[h].leaf # l BY Zenon, <1>a, <1>b, <2>3, <4>2, <4>3, NoneLater
      <4> QED BY Zenon, <2>4, <2>5, <4>1, <4>4
    <3> QED BY Zenon, <3>1, <3>2
  <2>8. ASSUME NEW l \in Leafs, NEW n \in DOMAIN note', Decides(l, n)'
        PROVE  /\ n \in tree'.from => tree'.upd[l] = n
               /\ \A c \in Slots : n \in From(c) => commit[c].tree.upd[l] = n
               /\ n \notin NotSettled' => running[l] = n
    <3>1. n \in DOMAIN note BY Zenon, <2>1
    <3> QED BY Zenon, <1>c, <2>6, <2>7, <2>8, <3>1
  <2> QED BY Zenon, <2>1, <2>8, FollowsNow
<1>3. CASE LoopSync \/ LoopTick
  <2>1. HandOver /\ UNCHANGED <<note, resp, queue, sending, updChan, running>>
    BY Zenon, <1>3 DEF LoopSync, LoopTick
  <2>2. tree'.from = {} BY Zenon, <2>1, HandOverPlaces
  <2>3. ASSUME NEW c \in Slots PROVE commit'[c].tree = tree \/ commit'[c].tree = commit[c].tree
    <3>1. ASSUME NEW d \in Slots, commit' = [commit EXCEPT ![d] = [pc |-> "apply", tree |-> tree]]
          PROVE  commit'[c].tree = tree \/ commit'[c].tree = commit[c].tree
      BY Zenon, <3>1 DEF TypeOK
    <3> QED BY Zenon, <2>1, <3>1 DEF HandOver
  <2>4. NotSettled' = NotSettled
    <3>1. \/ CommitNotes' = CommitNotes \cup tree.from
          \/ CommitNotes' = CommitNotes /\ tree.from = {}
      BY Zenon, <2>1, HandedOver, SameCommits
    <3>2. NotTaken' = NotTaken BY Zenon, <2>1 DEF Reported, NotStarted, NotSent, NotTaken
    <3> QED BY Zenon, <2>2, <3>1, <3>2 DEF NotHandedOver, NotSettled
  <2>5. ASSUME NEW l \in Leafs, NEW n \in DOMAIN note, Decides(l, n)'
        PROVE  /\ n \in tree'.from => tree'.upd[l] = n
               /\ \A c \in Slots : n \in commit'[c].tree.from => commit'[c].tree.upd[l] = n
               /\ n \notin NotSettled => running[l] = n
    <3>1. /\ n \in tree.from => tree.upd[l] = n
          /\ \A c \in Slots : n \in commit[c].tree.from => commit[c].tree.upd[l] = n
          /\ n \notin NotSettled => running[l] = n
      BY Zenon, <1>c, <2>5 DEF From
    <3>2. ASSUME NEW c \in Slots, n \in commit'[c].tree.from PROVE commit'[c].tree.upd[l] = n
      <4>1. CASE commit'[c].tree = tree BY Zenon, <3>1, <3>2, <4>1
      <4>2. CASE commit'[c].tree = commit[c].tree BY Zenon, <3>1, <3>2, <4>2
      <4> QED BY Zenon, <2>3, <4>1, <4>2
    <3> QED BY Zenon, <2>2, <3>1, <3>2
  <2> QED BY Zenon, <2>1, <2>4, <2>5 DEF Follows, From
<1>4. ASSUME NEW c \in Slots, CommitApply(c) \/ CommitFail(c) \/ CommitReturn(c) PROVE Follows'
  <2>1. UNCHANGED <<note, resp, queue, sending, updChan, tree>>
    BY Zenon, <1>4 DEF CommitApply, CommitFail, CommitReturn
  <2>2. PICK pc \in {"revert", "none"} :
          commit' = [commit EXCEPT ![c] = [pc |-> pc, tree |-> EmptyTree]]
    BY Zenon, <1>4 DEF CommitApply, CommitFail, CommitReturn, NoCommit
  <2>3. CommitNotes' = CommitNotes \ From(c) BY Zenon, <2>2, CommitPlaces
  <2>4. NotSettled' = NotSettled \ From(c)
    <3>1. NotHandedOver' = NotHandedOver
      BY Zenon, <2>1 DEF Reported, NotStarted, NotSent, NotTaken, NotHandedOver
    <3>2. From(c) \subseteq CommitNotes BY Zenon DEF From, CommitNotes
    <3>3. NotHandedOver \cap CommitNotes = {}
      BY Zenon DEF PlaceInv, Pending, NotStarted, NotSent, NotTaken, NotHandedOver
    <3> QED BY Zenon, <2>3, <3>1, <3>2, <3>3 DEF NotSettled
  <2>5. \A d \in Slots : From(d)' = {} \/ commit'[d] = commit[d] BY Zenon, <2>2, EmptyTreeType DEF TypeOK, From
  <2>6. ASSUME NEW l \in Leafs, NEW n \in DOMAIN note, Decides(l, n), n \in From(c) => commit[c].tree.upd[l] = n,
               n \notin NotSettled => running[l] = n, n \notin NotSettled'
        PROVE  running'[l] = n
    <3> DEFINE t == commit[c].tree
    <3>1. t \in Trees /\ Built(note, t) /\ t.from \subseteq NotSettled
      BY Zenon, <1>d DEF TypeOK, Commits, BuiltInv, From
    <3>2. CASE CommitReturn(c)
      <4>1. From(c) = {} /\ UNCHANGED running BY Zenon, <3>2 DEF CommitReturn, PlaceInv
      <4> QED BY Zenon, <2>4, <2>6, <4>1
    <3>3. CASE CommitFail(c)
      <4>1. From(c) = {} BY Zenon, <3>3 DEF CommitFail, From
      <4>2. PICK U \in SUBSET Leafs :
              running' = Applied([t EXCEPT !.upd = [k \in Leafs |-> IF k \in U THEN @[k] ELSE 0]])
        BY Zenon, <3>3 DEF CommitFail
      <4>3. t.from = {} BY Zenon, <4>1 DEF From
      <4> HIDE DEF t
      <4>4. running'[l] = running[l] \/ \E m \in t.from : Feed!Brings(m, l, running'[l])
        BY Zenon, <3>1, <4>2, AppliedBrings
      <4> QED BY Zenon, <2>4, <2>6, <4>1, <4>3, <4>4
    <3>4. CASE CommitApply(c)
      <4>1. running' = Applied(t) BY Zenon, <3>4 DEF CommitApply
      <4>2. CASE n \in From(c)
        <5>1. t.upd[l] = n /\ n # 0 BY <1>a, <2>6, <4>2
        <5> HIDE DEF t
        <5> QED BY Zenon, <4>1, <5>1 DEF Applied
      <4>3. CASE n \notin From(c)
        <5>1. n \notin NotSettled /\ running[l] = n BY Zenon, <2>4, <2>6, <4>3
        <5> HIDE DEF t
        <5>2. running'[l] = running[l] \/ \E m \in t.from : Feed!Brings(m, l, running'[l])
          BY Zenon, <3>1, <4>1, AppliedBrings
        <5>3. ASSUME NEW m \in t.from PROVE note[m].leaf # l
          BY Zenon, <1>a, <1>b, <2>6, <3>1, <5>1, NoneLater
        <5> QED BY Zenon, <5>1, <5>2, <5>3 DEF Feed!Brings
      <4> QED BY Zenon, <4>2, <4>3
    <3> QED BY Zenon, <1>4, <3>2, <3>3, <3>4
  <2>7. ASSUME NEW l \in Leafs, NEW n \in DOMAIN note, Decides(l, n)'
        PROVE  /\ n \in tree.from => tree.upd[l] = n
               /\ \A d \in Slots : n \in From(d)' => commit'[d].tree.upd[l] = n
               /\ n \notin NotSettled' => running'[l] = n
    <3>1. ASSUME NEW d \in Slots, n \in From(d)' PROVE commit'[d].tree.upd[l] = n
      <4>1. commit'[d] = commit[d] /\ n \in From(d) BY Zenon, <2>5, <3>1 DEF From
      <4> QED BY Zenon, <1>c, <2>7, <4>1
    <3> QED BY Zenon, <1>c, <2>6, <2>7, <3>1
  <2> QED BY Zenon, <2>1, <2>7 DEF Follows
<1>5. CASE SubscribeRecv
  <2>1. UNCHANGED <<note, sending, updChan, tree, commit, running>> BY Zenon, <1>5 DEF SubscribeRecv
  <2> DEFINE n == Head(resp)
  <2>2. n \in -1..MaxNotes /\ Range(resp) = Range(resp') \cup {n} BY Zenon, <1>5, RespChannel DEF SubscribeRecv
  <2>3. NotStarted' = NotStarted
    <3>1. CASE n > 0
      <4>1. queue' = Append(queue, n)
        BY <1>5, <3>1 DEF SubscribeRecv, Submit, SyncResponse, ErrorResponse
      <4>2. n \in Notes BY <2>2, <3>1, BoundsAssumption DEF Notes
      <4>3. Range(queue') = Range(queue) \cup {n} BY Zenon, <4>1, <4>2, QueueChannel
      <4> HIDE DEF n
      <4> QED BY Zenon, <2>2, <3>1, <4>3 DEF Reported, NotStarted
    <3>2. CASE ~(n > 0)
      <4>1. UNCHANGED queue BY Zenon, <1>5, <3>2 DEF SubscribeRecv
      <4> QED BY Zenon, <2>2, <3>2, <4>1 DEF Reported, NotStarted
    <3> QED BY Zenon, <3>1, <3>2
  <2>4. NotSettled' = NotSettled
    BY Zenon, <2>1, <2>3, SameCommits DEF NotSent, NotTaken, NotHandedOver, NotSettled
  <2> QED BY Zenon, <2>1, <2>4, FollowsSame
<1>6. CASE DeviceSync \/ DeviceError
  <2>1. UNCHANGED <<note, queue, sending, updChan, tree, commit, running>>
    BY Zenon, <1>6 DEF DeviceSync, DeviceError
  <2>2. Reported' = Reported
    <3>1. CASE DeviceSync
      <4>1. resp' = Append(resp, 0) /\ 0 \in -1..MaxNotes
        BY <3>1, BoundsAssumption DEF DeviceSync, SyncResponse
      <4>2. Range(resp') = Range(resp) \cup {0} BY Zenon, RespChannel, <4>1
      <4> QED BY <4>2 DEF Reported
    <3>2. CASE DeviceError
      <4>1. resp = <<>> /\ resp' = <<-1>> BY Zenon, <3>2 DEF DeviceError, ErrorResponse
      <4>2. Range(resp) = {} /\ Range(resp') = {-1} BY <4>1 DEF Range
      <4> QED BY <4>2 DEF Reported
    <3> QED BY Zenon, <1>6, <3>1, <3>2
  <2>3. NotSettled' = NotSettled
    BY Zenon, <2>1, <2>2, SameCommits DEF NotStarted, NotSent, NotTaken, NotHandedOver, NotSettled
  <2> QED BY Zenon, <2>1, <2>3, FollowsSame
<1>7. CASE TaskStart
  <2>1. UNCHANGED <<note, resp, updChan, tree, commit, running>> /\ sending' = sending \cup {Head(queue)}
    BY Zenon, <1>7 DEF TaskStart
  <2>2. Range(queue) = Range(queue') \cup {Head(queue)} BY Zenon, <1>7, QueueChannel DEF TaskStart
  <2>3. NotSent' = NotSent BY Zenon, <2>1, <2>2 DEF Reported, NotStarted, NotSent
  <2>4. NotSettled' = NotSettled BY Zenon, <2>1, <2>3, SameCommits DEF NotTaken, NotHandedOver, NotSettled
  <2> QED BY Zenon, <2>1, <2>4, FollowsSame
<1>8. ASSUME NEW n \in Notes, TaskSend(n) \/ TaskGiveUp(n) PROVE Follows'
  <2>1. UNCHANGED <<note, resp, queue, tree, commit, running>> /\ n \in sending /\ TaskSend(n)
        /\ sending' = sending \ {n} /\ updChan' = Append(updChan, n)
    BY Zenon, <1>8 DEF TaskSend, TaskGiveUp
  <2>2. Range(updChan') = Range(updChan) \cup {n} BY Zenon, <2>1, UpdChannel
  <2>3. NotTaken' = NotTaken BY Zenon, <2>1, <2>2 DEF Reported, NotStarted, NotSent, NotTaken
  <2>4. NotSettled' = NotSettled BY Zenon, <2>1, <2>3, SameCommits DEF NotHandedOver, NotSettled
  <2> QED BY Zenon, <2>1, <2>4, FollowsSame
<1>9. CASE Cancel \/ SubscribeEnd \/ LoopStart \/ LoopCancelled \/ UNCHANGED vars
  <2>1. UNCHANGED <<note, resp, queue, sending, updChan, tree, commit, running>>
    BY Zenon, <1>9 DEF Cancel, SubscribeEnd, LoopStart, LoopCancelled, vars
  <2>2. NotSettled' = NotSettled
    BY Zenon, <2>1, SameCommits DEF Reported, NotStarted, NotSent, NotTaken, NotHandedOver, NotSettled
  <2> QED BY Zenon, <2>1, <2>2, FollowsSame
<1> QED BY Zenon, <1>1, <1>2, <1>3, <1>4, <1>5, <1>6, <1>7, <1>8, <1>9 DEF Next

LEMMA SourceKept == TypeOK /\ PlaceInv /\ BuiltInv /\ SourceInv /\ [Next]_vars => SourceInv'
<1> SUFFICES ASSUME TypeOK, PlaceInv, BuiltInv, SourceInv, [Next]_vars PROVE SourceInv'
  BY Zenon
<1> USE DEF sourceVars, environment, subVars, poolVars, loopVars
<1>1. CASE UNCHANGED <<note, running>> BY <1>1 DEF SourceInv, NotesOf
<1>2. ASSUME NEW k \in Leafs, NEW op \in {"update", "delete", "unknown"}, DeviceChange(k, op)
      PROVE  SourceInv'
  <2>1. UNCHANGED running BY Zenon, <1>2 DEF DeviceChange
  <2> DEFINE new == Len(note) + 1
  <2>2. /\ new \in Nat /\ DOMAIN note' = DOMAIN note \cup {new} /\ \A n \in DOMAIN note : n \in Nat /\ n < new
        /\ \A n \in DOMAIN note : note'[n] = note[n]
    <3>1. note \in Seq(NoteType) BY Zenon DEF TypeOK
    <3>2. /\ Len(note') = new /\ Len(note) \in Nat /\ DOMAIN note' = 1..new /\ DOMAIN note = 1..Len(note)
          /\ \A n \in DOMAIN note : note'[n] = note[n]
      BY <1>2, <3>1 DEF DeviceChange, NoteType
    <3> QED BY <3>2
  <2> HIDE DEF new
  <2>3. ASSUME NEW l \in Leafs
        PROVE  /\ running'[l] # 0 => running'[l] \in NotesOf(l)' /\ note'[running'[l]].op = "update"
               /\ NotesOf(l)' # {} => \E n \in NotesOf(l)' : \A m \in NotesOf(l)' : m <= n
    <3>1. NotesOf(l) \subseteq NotesOf(l)' BY Zenon, <2>2 DEF NotesOf
    <3>2. running[l] # 0 => running'[l] \in NotesOf(l)' /\ note'[running[l]].op = "update"
      BY Zenon, <2>1, <2>2, <3>1 DEF SourceInv, NotesOf
    <3>3. CASE new \in NotesOf(l)'
      <4>1. \A m \in NotesOf(l)' : m <= new BY <2>2 DEF NotesOf
      <4> QED BY Zenon, <2>1, <3>2, <3>3, <4>1
    <3>4. CASE new \notin NotesOf(l)'
      <4>1. NotesOf(l)' = NotesOf(l) BY Zenon, <2>2, <3>4 DEF NotesOf
      <4> QED BY Zenon, <2>1, <3>2, <4>1 DEF SourceInv
    <3> QED BY Zenon, <3>3, <3>4
  <2> QED BY Zenon, <2>3 DEF SourceInv
<1>3. ASSUME NEW c \in Slots, CommitApply(c) \/ CommitFail(c) PROVE SourceInv'
  <2> DEFINE t == commit[c].tree
  <2>1. UNCHANGED note BY Zenon, <1>3 DEF CommitApply, CommitFail
  <2>2. t \in Trees /\ Built(note, t) BY Zenon DEF TypeOK, Commits, BuiltInv
  <2>3. t.from \subseteq DOMAIN note
    <3>1. t.from \subseteq CommitNotes BY Zenon DEF CommitNotes
    <3> QED BY Zenon, <3>1 DEF PlaceInv, Pending
  <2>4. PICK U \in SUBSET Leafs :
          \/ running' = Applied(t)
          \/ running' = Applied([t EXCEPT !.upd = [l \in Leafs |-> IF l \in U THEN @[l] ELSE 0]])
    BY Zenon, <1>3 DEF CommitApply, CommitFail
  <2> HIDE DEF t
  <2>5. ASSUME NEW l \in Leafs, running'[l] # 0
        PROVE  running'[l] \in NotesOf(l) /\ note[running'[l]].op = "update"
    <3>1. running'[l] = running[l] \/ \E n \in t.from : Feed!Brings(n, l, running'[l])
      BY Zenon, <2>2, <2>4, AppliedBrings
    <3> QED BY Zenon, <2>3, <2>5, <3>1 DEF SourceInv, NotesOf, Feed!Brings
  <2>6. \A l \in Leafs : NotesOf(l)' = NotesOf(l) BY Zenon, <2>1 DEF NotesOf
  <2> QED BY Zenon, <2>1, <2>5, <2>6 DEF SourceInv
<1>4. \/ UNCHANGED <<note, running>>
      \/ \E k \in Leafs, op \in {"update", "delete", "unknown"} : DeviceChange(k, op)
      \/ \E c \in Slots : CommitApply(c) \/ CommitFail(c)
  BY Zenon DEF Next, vars, DeviceSync, DeviceError, Cancel, SubscribeRecv, SubscribeEnd, TaskStart,
     TaskSend, TaskGiveUp, LoopStart, LoopCancelled, LoopRecv, LoopSync, LoopTick, CommitReturn
<1> QED BY Zenon, <1>1, <1>2, <1>3, <1>4

\* Once nothing is on its way the invariants give the property.
LEMMA SettledFollows ==
  ASSUME TypeOK, FollowInv, SourceInv
  PROVE  RunningFollowsDevice
<1> SUFFICES ASSUME ~Settling, NEW l \in Leafs, NotesOf(l) # {}
             PROVE  LET n == Latest(l) IN
                    /\ NotesOf(l) = {n} => running[l] = IF note[n].op = "update" THEN n ELSE 0
                    /\ workers = 1 /\ handled <= 1 /\ note[n].op = "update" => running[l] = n
  BY Zenon DEF RunningFollowsDevice
<1> DEFINE n == Latest(l)
<1>1. n \in NotesOf(l) /\ \A m \in NotesOf(l) : m <= n BY Zenon DEF Latest, SourceInv
<1> HIDE DEF n
<1>2. n \in DOMAIN note /\ note[n].leaf = l BY Zenon, <1>1 DEF NotesOf
<1>3. NotSettled = {} /\ Follows
  <2>1. lost = {} /\ Pending = {} /\ Reported = {} BY DEF Settling, Reported, Range
  <2> QED BY Zenon, <2>1 DEF FollowInv, Pending, NotStarted, NotSent, NotTaken, NotHandedOver, NotSettled
<1>4. Decides(l, n) => running[l] = n BY Zenon, <1>2, <1>3 DEF Follows
<1>5. ASSUME NotesOf(l) = {n}, note[n].op # "update" PROVE running[l] = 0 BY Zenon, <1>5 DEF SourceInv
<1>6. NotesOf(l) = {n} => running[l] = IF note[n].op = "update" THEN n ELSE 0
  BY Zenon, <1>1, <1>4, <1>5 DEF Decides
<1>7. workers = 1 /\ handled <= 1 /\ note[n].op = "update" => running[l] = n
  BY Zenon, <1>1, <1>4 DEF Decides
<1> QED BY Zenon, <1>6, <1>7 DEF n

-----------------------------------------------------------------------------
(* Commits overlap only because of SyncResponses *)

\* A commit that a tick starts finds fewer in flight than there were signals.
TickInv ==
  /\ CommitsPerSync
  /\ ~syncRunning /\ handled > 0 => Cardinality(InFlight) < handled
  /\ ticker => handled > 0

LEMMA SlotsFinite ==
  ASSUME NEW S \in SUBSET Slots
  PROVE  IsFiniteSet(S) /\ Cardinality(S) \in Nat
<1>1. IsFiniteSet(Slots)
  <2>1. 1 \in Int /\ MaxSyncs + 1 \in Int BY BoundsAssumption
  <2> QED BY Zenon, <2>1, FS_Interval DEF Slots
<1>2. IsFiniteSet(S) BY Zenon, <1>1, FS_Subset
<1> QED BY Zenon, <1>2, FS_CardinalityType

LEMMA InFlightFinite ==
  /\ IsFiniteSet(InFlight) /\ Cardinality(InFlight) \in Nat
  /\ IsFiniteSet(InFlight') /\ Cardinality(InFlight') \in Nat
<1>1. InFlight \in SUBSET Slots /\ InFlight' \in SUBSET Slots BY Zenon DEF InFlight
<1> QED BY Zenon, <1>1, SlotsFinite

\* HandOver adds at most one commit.
LEMMA HandOverCount ==
  ASSUME TypeOK, HandOver
  PROVE  /\ Cardinality(InFlight') <= Cardinality(InFlight) + 1
         /\ ~syncRunning' => Cardinality(InFlight') = Cardinality(InFlight) /\ ~syncRunning
<1>1. CASE UNCHANGED <<commit, syncRunning>>
  <2>1. InFlight' = InFlight BY Zenon, <1>1 DEF InFlight
  <2> QED BY <1>1, <2>1, InFlightFinite
<1>2. ASSUME NEW c \in Slots \ InFlight, syncRunning' = TRUE,
             commit' = [commit EXCEPT ![c] = [pc |-> "apply", tree |-> tree]]
      PROVE  Cardinality(InFlight') <= Cardinality(InFlight) + 1
  <2>1. InFlight' = InFlight \cup {c} BY Zenon, <1>2 DEF InFlight, TypeOK
  <2>2. Cardinality(InFlight') = Cardinality(InFlight) + 1 BY Zenon, <2>1, InFlightFinite, FS_AddElement
  <2> QED BY <2>2, InFlightFinite
<1> QED BY Zenon, <1>1, <1>2 DEF HandOver

LEMMA TickKept == TypeOK /\ PlaceInv /\ TickInv /\ [Next]_vars => TickInv'
<1> SUFFICES ASSUME TypeOK, PlaceInv, TickInv, [Next]_vars PROVE TickInv'
  BY Zenon
<1> USE InFlightFinite DEF TickInv, CommitsPerSync, sourceVars, environment, subVars, poolVars, loopVars
<1>0. handled \in Nat BY Zenon DEF TypeOK
<1>1. CASE UNCHANGED <<commit, syncRunning, handled, ticker>>
  <2>1. InFlight' = InFlight BY Zenon, <1>1 DEF InFlight
  <2> QED BY Zenon, <1>1, <2>1
<1>2. CASE LoopSync
  <2>1. HandOver /\ handled' = handled + 1 BY Zenon, <1>2 DEF LoopSync
  <2> QED BY <1>0, <2>1, HandOverCount
<1>3. CASE LoopTick
  <2>1. HandOver /\ ~syncRunning /\ ticker /\ UNCHANGED <<handled, ticker>> BY Zenon, <1>3 DEF LoopTick
  <2> QED BY <1>0, <2>1, HandOverCount
<1>4. ASSUME NEW c \in Slots, CommitApply(c) \/ CommitFail(c) PROVE TickInv'
  <2>1. /\ commit[c].pc = "apply" /\ UNCHANGED <<syncRunning, handled, ticker>>
        /\ commit' = [commit EXCEPT ![c] = [pc |-> "revert", tree |-> EmptyTree]]
    BY Zenon, <1>4 DEF CommitApply, CommitFail
  <2>2. \A d \in Slots : (commit'[d].pc # "none") = (commit[d].pc # "none") BY Zenon, <2>1 DEF TypeOK
  <2>3. InFlight' = InFlight BY Zenon, <2>2 DEF InFlight
  <2> QED BY Zenon, <2>1, <2>3
<1>5. ASSUME NEW c \in Slots, CommitReturn(c) PROVE TickInv'
  <2>1. InFlight' = InFlight \ {c} /\ c \in InFlight
    BY Zenon, <1>5 DEF CommitReturn, InFlight, TypeOK, NoCommit
  <2>2. Cardinality(InFlight') = Cardinality(InFlight) - 1 BY Zenon, <2>1, FS_RemoveElement
  <2> QED BY <1>0, <1>5, <2>2 DEF CommitReturn
<1>6. \/ UNCHANGED <<commit, syncRunning, handled, ticker>> \/ LoopSync \/ LoopTick
      \/ \E c \in Slots : CommitApply(c) \/ CommitFail(c) \/ CommitReturn(c)
  BY Zenon DEF Next, vars, DeviceChange, DeviceSync, DeviceError, Cancel, SubscribeRecv, SubscribeEnd,
         TaskStart, TaskSend, TaskGiveUp, LoopStart, LoopCancelled, LoopRecv
<1> QED BY Zenon, <1>1, <1>2, <1>3, <1>4, <1>5, <1>6

\* Commits overlap only because of SyncResponses, however ticks, signals and returns of syncToRunning
\* interleave: fewer are in flight when a tick starts one than there were signals.
THEOREM CommitsAreBounded == Spec => []CommitInv
<1>1. Init => TickInv
  <2> SUFFICES ASSUME Init PROVE TickInv
    BY Zenon
  <2>1. InFlight = {} BY Zenon DEF Init, InFlight, NoCommit
  <2> QED BY <2>1, FS_EmptySet DEF Init, TickInv, CommitsPerSync
<1>2. TypeOK /\ PlaceInv /\ TickInv /\ [Next]_vars => (TypeOK /\ PlaceInv /\ TickInv)'
  BY Zenon, TypesKept, PlacesKept, TickKept
<1>3. TypeOK /\ TickInv => CommitInv BY Zenon DEF TickInv, CommitInv
<1> QED BY <1>1, <1>2, <1>3, Initially, PTL DEF Spec

-----------------------------------------------------------------------------
(* The order of the notifications is kept *)

LEMMA AtMostOne ==
  ASSUME NEW S, IsFiniteSet(S), Cardinality(S) <= 1
  PROVE  \A x, y \in S : x = y
<1> SUFFICES ASSUME NEW x \in S, NEW y \in S, x # y PROVE FALSE
  BY Zenon
<1>1. /\ IsFiniteSet(S \ {x}) /\ Cardinality(S \ {x}) = Cardinality(S) - 1
  BY Zenon, FS_RemoveElement
<1>2. Cardinality((S \ {x}) \ {y}) = Cardinality(S \ {x}) - 1 BY Zenon, <1>1, FS_RemoveElement
<1>3. IsFiniteSet((S \ {x}) \ {y}) BY Zenon, <1>1, FS_RemoveElement
<1>4. Cardinality(S) \in Nat /\ Cardinality((S \ {x}) \ {y}) \in Nat BY Zenon, <1>3, FS_CardinalityType
<1> QED BY <1>1, <1>2, <1>4

LEMMA OrderKept ==
  TypeOK /\ PlaceInv /\ TickInv /\ OrderInv /\ [Next]_vars => OrderInv'
<1> SUFFICES ASSUME TypeOK, PlaceInv, TickInv, OrderInv, [Next]_vars,
                    workers' = 1, handled' <= 1, lost' = {}
             PROVE  Ordered'
  BY Zenon DEF OrderInv
<1> USE DEF sourceVars, environment, subVars, poolVars, loopVars
<1>1. /\ workers' = workers /\ lost \subseteq lost' /\ handled \in Nat
      /\ handled' = handled \/ (handled' = handled + 1 /\ LoopSync)
  BY Zenon DEF TypeOK, Next, vars, DeviceChange, DeviceSync, DeviceError, Cancel, SubscribeRecv,
     SubscribeEnd, TaskStart, TaskSend, TaskGiveUp, LoopStart, LoopCancelled, LoopRecv, LoopSync,
     LoopTick, CommitApply, CommitFail, CommitReturn, Submit, HandOver
<1>2. handled <= 1 BY <1>1
<1>3. Ordered BY Zenon, <1>1, <1>2 DEF OrderInv
<1>4. TaskStart => sending = {}
  <2> SUFFICES ASSUME TaskStart PROVE sending = {}
    BY Zenon
  <2>1. IsFiniteSet(Notes)
    <3>1. 1 \in Int /\ MaxNotes \in Int BY BoundsAssumption
    <3> QED BY Zenon, <3>1, FS_Interval DEF Notes
  <2>2. IsFiniteSet(sending) BY Zenon, <2>1, FS_Subset DEF TypeOK
  <2>3. Cardinality(sending) < 1 /\ Cardinality(sending) \in Nat
    BY Zenon, <1>1, <2>2, FS_CardinalityType DEF TaskStart
  <2>4. Cardinality(sending) = 0 BY <2>3
  <2> QED BY Zenon, <2>2, <2>4, FS_EmptySet
<1>5. LoopSync \/ LoopTick => InFlight = {}
  <2> SUFFICES ASSUME LoopSync \/ LoopTick PROVE InFlight = {}
    BY Zenon
  <2>1. CASE LoopSync
    <3>1. handled' = handled + 1 BY Zenon, <2>1 DEF LoopSync
    <3>2. Cardinality(InFlight) = 0 BY <1>1, <3>1, InFlightFinite DEF TickInv, CommitsPerSync
    <3> QED BY Zenon, <3>2, InFlightFinite, FS_EmptySet
  <2>2. CASE LoopTick
    <3>1. ticker /\ ~syncRunning BY Zenon, <2>2 DEF LoopTick
    <3>2. Cardinality(InFlight) = 0 BY <1>1, <1>2, <3>1, InFlightFinite DEF TickInv
    <3> QED BY Zenon, <3>2, InFlightFinite, FS_EmptySet
  <2> QED BY Zenon, <2>1, <2>2
<1>6. \A c, d \in InFlight : c = d
  <2>1. Cardinality(InFlight) <= 1 BY <1>1, <1>2, InFlightFinite DEF TickInv, CommitsPerSync
  <2> QED BY Zenon, <2>1, InFlightFinite, AtMostOne
<1> QED BY Zenon, <1>3, <1>4, <1>5, <1>6, OrderedKept

LEMMA FollowKept ==
  TypeOK /\ PlaceInv /\ BuiltInv /\ OrderInv /\ FollowInv /\ [Next]_vars => FollowInv'
<1> SUFFICES ASSUME TypeOK, PlaceInv, BuiltInv, OrderInv, FollowInv, [Next]_vars, lost' = {}
             PROVE  Follows'
  BY Zenon DEF FollowInv
<1>1. lost = {}
  BY Zenon DEF Next, vars, DeviceChange, DeviceSync, DeviceError, Cancel, SubscribeRecv,
     SubscribeEnd, TaskStart, TaskSend, TaskGiveUp, LoopStart, LoopCancelled, LoopRecv, LoopSync,
     LoopTick, CommitApply, CommitFail, CommitReturn, Submit, HandOver, sourceVars, environment,
     subVars, poolVars, loopVars
<1> QED BY Zenon, <1>1, FollowsKept DEF FollowInv, OrderInv

\* Once nothing is on its way and nothing was given up, running has what the device reported last,
\* for the leafs of which the order of tasks and commits cannot matter: those that changed once, and,
\* with one worker and one SyncResponse, those whose last change was an update.  However many
\* notifications are in the queue, the channel, the tree and a commit, none overtakes another
\* (buildTreeSyncWithDatastore, syncToRunning).
THEOREM RunningIsCurrent == Spec => []RunningFollowsDevice
<1> DEFINE I == TypeOK /\ PlaceInv /\ BuiltInv /\ TickInv /\ OrderInv /\ FollowInv /\ SourceInv
<1>1. Init => I
  <2> SUFFICES ASSUME Init PROVE I
    BY Zenon
  <2>1. TypeOK /\ PlaceInv BY Zenon, Initially
  <2>2. BuiltInv
    <3>1. \A c \in Slots : commit[c].tree = EmptyTree BY Zenon DEF Init, NoCommit
    <3> QED BY Zenon, <3>1, EmptyBuilt DEF Init, BuiltInv
  <2>3. TickInv
    <3>1. InFlight = {} BY Zenon DEF Init, InFlight, NoCommit
    <3> QED BY <3>1, FS_EmptySet DEF Init, TickInv, CommitsPerSync
  <2>4. DOMAIN note = {} /\ note = <<>> BY DEF Init
  <2>5. OrderInv
    <3>1. Rising(<<>>) BY DEF Rising
    <3> QED BY Zenon, <2>4, <3>1 DEF Init, OrderInv, Ordered, Ahead
  <2>6. FollowInv BY Zenon, <2>4 DEF FollowInv, Follows
  <2>7. SourceInv BY Zenon, <2>4 DEF SourceInv, NotesOf, Init
  <2> QED BY Zenon, <2>1, <2>2, <2>3, <2>5, <2>6, <2>7
<1>2. I /\ [Next]_vars => I'
  BY Zenon, TypesKept, PlacesKept, BuiltKept, TickKept, OrderKept, FollowKept, SourceKept
<1>3. I => RunningFollowsDevice BY Zenon, SettledFollows
<1> HIDE DEF I
<1> QED BY <1>1, <1>2, <1>3, PTL DEF Spec
=============================================================================
