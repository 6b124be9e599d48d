-------------------------- MODULE WorkerCountProofs -------------------------
(***************************************************************************)
(* What the counters of WorkerPool count, and the theorems that follow.    *)
(***************************************************************************)
EXTENDS WorkerPoolProofs, FiniteSetTheorems

-----------------------------------------------------------------------------
(* What is counted *)

\* The tasks of group g in the queue q, the workers that hold one, those that submit a child.
Queued(q, g) == {i \in DOMAIN q : GroupOf[q[i]] = g}
Held(g) == {w \in Workers : pc[w] \in Counted /\ GroupOf[task[w]] = g}
Begun(g) == {w \in Workers : pc[w] \in ChildLabels /\ GroupOf[task[w]] = g}
Own(g) == IF pc[g] \in OwnerCounted THEN 1 ELSE 0

\* The counter of a group counts what is queued, held and being submitted.
CountInv ==
  \A g \in Groups :
    vinflight[g] = Cardinality(Queued(queue, g)) + Cardinality(Held(g)) + Cardinality(Begun(g)) + Own(g)

Putting == {p \in Submitters : pc[p] = "put"}
Busy == {w \in Workers : pc[w] \in TaskLabels}

\* The counter of the pool counts what is put, queued and held.
InflightInv == inflight = Cardinality(Putting) + Len(queue) + Cardinality(Busy)

-----------------------------------------------------------------------------
(* Counting *)

LEMMA NoneCounted == Cardinality({}) = 0
BY Zenon, FS_EmptySet

LEMMA QueuedFinite ==
  ASSUME NEW q \in Seq(Tasks), NEW g
  PROVE  IsFiniteSet(Queued(q, g)) /\ Cardinality(Queued(q, g)) \in Nat
<1>1. IsFiniteSet(1..Len(q)) BY FS_Interval
<1>2. Queued(q, g) \in SUBSET (1..Len(q)) BY DEF Queued
<1>3. IsFiniteSet(Queued(q, g)) BY Zenon, <1>1, <1>2, FS_Subset
<1> QED BY Zenon, <1>3, FS_CardinalityType

LEMMA QueuedAppend ==
  ASSUME NEW q \in Seq(Tasks), NEW t \in Tasks, NEW g
  PROVE  Cardinality(Queued(Append(q, t), g)) =
           Cardinality(Queued(q, g)) + (IF GroupOf[t] = g THEN 1 ELSE 0)
<1> DEFINE n == Len(q) + 1
<1>1. n \notin Queued(q, g) BY DEF Queued
<1>2. DOMAIN Append(q, t) = DOMAIN q \cup {n} OBVIOUS
<1>3. \A i \in DOMAIN q : Append(q, t)[i] = q[i] OBVIOUS
<1>4. Append(q, t)[n] = t OBVIOUS
<1>5. CASE GroupOf[t] = g
  <2>1. Queued(Append(q, t), g) = Queued(q, g) \cup {n} BY Zenon, <1>2, <1>3, <1>4, <1>5 DEF Queued
  <2> QED BY ZenonT(30), <1>1, <1>5, <2>1, QueuedFinite, FS_AddElement
<1>6. CASE GroupOf[t] # g
  <2>1. Queued(Append(q, t), g) = Queued(q, g) BY Zenon, <1>2, <1>3, <1>4, <1>6 DEF Queued
  <2> QED BY <1>6, <2>1, QueuedFinite
<1> QED BY Zenon, <1>5, <1>6

LEMMA QueuedTail ==
  ASSUME NEW q \in Seq(Tasks), q # <<>>, NEW g
  PROVE  Cardinality(Queued(q, g)) =
           Cardinality(Queued(Tail(q), g)) + (IF GroupOf[Head(q)] = g THEN 1 ELSE 0)
<1> DEFINE S == Queued(q, g) \ {1}
           T == Queued(Tail(q), g)
           f == [i \in S |-> i - 1]
<1>1. Tail(q) \in Seq(Tasks) /\ DOMAIN Tail(q) = 1..(Len(q) - 1) /\ DOMAIN q = 1..Len(q) /\ Len(q) \in Nat
      /\ Len(q) > 0
  OBVIOUS
<1>2. \A i \in 1..(Len(q) - 1) : Tail(q)[i] = q[i + 1] OBVIOUS
<1>3. \A i \in S : i \in Int /\ i - 1 \in T
  <2> SUFFICES ASSUME NEW i \in S PROVE i \in Int /\ i - 1 \in T
    BY Zenon
  <2>1. i \in 2..Len(q) /\ GroupOf[q[i]] = g BY <1>1 DEF Queued
  <2>2. i - 1 \in 1..(Len(q) - 1) /\ (i - 1) + 1 = i BY <1>1, <2>1
  <2> QED BY <1>1, <1>2, <2>1, <2>2 DEF Queued
<1>4. \A j \in T : j \in Int /\ j + 1 \in S
  <2> SUFFICES ASSUME NEW j \in T PROVE j \in Int /\ j + 1 \in S
    BY Zenon
  <2>1. j \in 1..(Len(q) - 1) /\ GroupOf[Tail(q)[j]] = g BY Zenon, <1>1 DEF Queued
  <2>2. j + 1 \in 1..Len(q) /\ j + 1 # 1 BY <1>1, <2>1
  <2> QED BY <1>1, <1>2, <2>1, <2>2 DEF Queued
<1> HIDE DEF S, T
<1>5. f \in Bijection(S, T)
  <2>1. f \in [S -> T] BY Zenon, <1>3
  <2>2. \A i, j \in S : f[i] = f[j] => i = j BY <1>3
  <2>3. \A j \in T : \E i \in S : f[i] = j
    <3> SUFFICES ASSUME NEW j \in T PROVE \E i \in S : f[i] = j
      BY Zenon
    <3>1. j + 1 \in S /\ f[j + 1] = j BY <1>4
    <3> QED BY Zenon, <3>1
  <2> HIDE DEF f
  <2> QED BY Zenon, <2>1, <2>2, <2>3 DEF Bijection, Injection, Surjection, IsInjective
<1>6. IsFiniteSet(S) /\ Cardinality(S) = IF 1 \in Queued(q, g) THEN Cardinality(Queued(q, g)) - 1
                                          ELSE Cardinality(Queued(q, g))
  BY Zenon, QueuedFinite, FS_RemoveElement DEF S
<1>7. Cardinality(T) = Cardinality(S)
  BY Zenon, <1>5, <1>6, FS_Bijection DEF ExistsBijection
<1>8. 1 \in Queued(q, g) <=> GroupOf[Head(q)] = g BY <1>1 DEF Queued
<1> QED BY <1>6, <1>7, <1>8, QueuedFinite DEF T

\* Nothing is counted where there is nothing, and only there.
LEMMA QueuedZero ==
  ASSUME NEW q \in Seq(Tasks), NEW g, Cardinality(Queued(q, g)) = 0
  PROVE  \A i \in DOMAIN q : GroupOf[q[i]] # g
<1>1. Queued(q, g) = {} BY Zenon, QueuedFinite, FS_EmptySet
<1> QED BY Zenon, <1>1 DEF Queued

LEMMA SubmittersFinite == IsFiniteSet(Workers) /\ IsFiniteSet(Submitters)
BY Zenon, PoolAssumption, FS_Union DEF Submitters

\* A set of processes has a size, and it is not empty if it has an element.
LEMMA SizeOf ==
  ASSUME NEW S \in SUBSET Submitters
  PROVE  IsFiniteSet(S) /\ Cardinality(S) \in Nat /\ (S # {} => Cardinality(S) > 0)
<1>1. IsFiniteSet(S) BY Zenon, SubmittersFinite, FS_Subset
<1>2. Cardinality(S) \in Nat BY Zenon, <1>1, FS_CardinalityType
<1> QED BY <1>1, <1>2, FS_EmptySet

Bit(b) == IF b THEN 1 ELSE 0

\* Two sets of processes that differ at most in p.
LEMMA SizeMoves ==
  ASSUME NEW S \in SUBSET Submitters, NEW T \in SUBSET Submitters, NEW p,
         \A q \in Submitters \ {p} : q \in S <=> q \in T
  PROVE  Cardinality(T) + Bit(p \in S) = Cardinality(S) + Bit(p \in T)
<1>1. S \ {p} = T \ {p} BY Zenon
<1>2. /\ Cardinality(S \ {p}) = IF p \in S THEN Cardinality(S) - 1 ELSE Cardinality(S)
      /\ Cardinality(T \ {p}) = IF p \in T THEN Cardinality(T) - 1 ELSE Cardinality(T)
  BY Zenon, SizeOf, FS_RemoveElement
<1>3. Cardinality(S) \in Nat /\ Cardinality(T) \in Nat BY Zenon, SizeOf
<1> QED BY <1>1, <1>2, <1>3 DEF Bit
-----------------------------------------------------------------------------
\* What the counters say of one process, and what zero says.
LEMMA CountsOf ==
  ASSUME TypeOK, CountInv, NEW g \in Groups
  PROVE  /\ Cardinality(Queued(queue, g)) \in Nat /\ Cardinality(Held(g)) \in Nat
         /\ Cardinality(Begun(g)) \in Nat /\ Own(g) \in 0..1
         /\ \A w \in Workers : pc[w] \in Counted /\ GroupOf[task[w]] = g => vinflight[g] > 0
         /\ \A w \in Workers : pc[w] \in ChildLabels /\ GroupOf[task[w]] = g => vinflight[g] > 1
         /\ pc[g] \in OwnerCounted => vinflight[g] > 0
         /\ vinflight[g] = 0 => \A i \in DOMAIN queue : GroupOf[queue[i]] # g
<1>1. queue \in Seq(Tasks) /\ vinflight[g] \in Nat BY Zenon, TypeSplit DEF QueueOK, GroupsOK
<1>2. Held(g) \in SUBSET Submitters /\ Begun(g) \in SUBSET Submitters BY Zenon, Names DEF Held, Begun
<1>3. Cardinality(Queued(queue, g)) \in Nat BY Zenon, <1>1, QueuedFinite
<1>4. /\ Cardinality(Held(g)) \in Nat /\ Cardinality(Begun(g)) \in Nat
      /\ \A w \in Held(g) : Cardinality(Held(g)) > 0
      /\ \A w \in Begun(g) : Cardinality(Begun(g)) > 0
  BY Zenon, <1>2, SizeOf
<1>5. Own(g) \in 0..1 /\ (pc[g] \in OwnerCounted => Own(g) = 1) BY DEF Own
<1>6. vinflight[g] = Cardinality(Queued(queue, g)) + Cardinality(Held(g)) + Cardinality(Begun(g)) + Own(g)
  BY Zenon DEF CountInv
<1>7. ASSUME NEW w \in Workers, pc[w] \in Counted, GroupOf[task[w]] = g PROVE vinflight[g] > 0
  <2>1. w \in Held(g) BY Zenon, <1>7 DEF Held
  <2> QED BY <1>3, <1>4, <1>5, <1>6, <2>1
<1>8. ASSUME NEW w \in Workers, pc[w] \in ChildLabels, GroupOf[task[w]] = g PROVE vinflight[g] > 1
  <2>1. w \in Held(g) /\ w \in Begun(g)
    BY Zenon, <1>8 DEF Held, Begun, Counted, ChildLabels, TaskLabels, SubmitLabels
  <2> QED BY <1>3, <1>4, <1>5, <1>6, <2>1
<1>9. vinflight[g] = 0 => Cardinality(Queued(queue, g)) = 0
  <2> DEFINE a == Cardinality(Queued(queue, g))
             b == Cardinality(Held(g)) + Cardinality(Begun(g)) + Own(g)
  <2>1. a \in Nat /\ b \in Nat /\ vinflight[g] = a + b BY <1>3, <1>4, <1>5, <1>6
  <2> HIDE DEF a, b
  <2>2. vinflight[g] = 0 => a = 0 BY <2>1
  <2> QED BY Zenon, <2>2 DEF a
<1>10. vinflight[g] = 0 => \A i \in DOMAIN queue : GroupOf[queue[i]] # g
  BY Zenon, <1>1, <1>9, QueuedZero
<1>11. pc[g] \in OwnerCounted => vinflight[g] > 0 BY <1>3, <1>4, <1>5, <1>6
<1> QED BY Zenon, <1>3, <1>4, <1>5, <1>7, <1>8, <1>10, <1>11

LEMMA InflightOf ==
  ASSUME TypeOK, InflightInv
  PROVE  /\ Cardinality(Putting) \in Nat /\ Cardinality(Busy) \in Nat /\ Len(queue) \in Nat
         /\ \A p \in Submitters : pc[p] = "put" => inflight > 0
         /\ \A w \in Workers : pc[w] \in TaskLabels => inflight > 0
         /\ inflight = 0 => queue = <<>>
<1>1. Len(queue) \in Nat /\ (Len(queue) = 0 => queue = <<>>) BY TypeSplit DEF QueueOK
<1>2. Putting \in SUBSET Submitters /\ Busy \in SUBSET Submitters BY Zenon, Names DEF Putting, Busy
<1>4. Cardinality(Putting) \in Nat /\ \A p \in Putting : Cardinality(Putting) > 0 BY Zenon, <1>2, SizeOf
<1>5. Cardinality(Busy) \in Nat /\ \A w \in Busy : Cardinality(Busy) > 0 BY Zenon, <1>2, SizeOf
<1>6. inflight = Cardinality(Putting) + Len(queue) + Cardinality(Busy) BY Zenon DEF InflightInv
<1>7. ASSUME NEW p \in Submitters, pc[p] = "put" PROVE inflight > 0
  <2>1. p \in Putting BY Zenon, <1>7 DEF Putting
  <2> QED BY <1>1, <1>4, <1>5, <1>6, <2>1
<1>8. ASSUME NEW w \in Workers, pc[w] \in TaskLabels PROVE inflight > 0
  <2>1. w \in Busy BY Zenon, <1>8 DEF Busy
  <2> QED BY <1>1, <1>4, <1>5, <1>6, <2>1
<1>9. inflight = 0 => queue = <<>> BY <1>1, <1>4, <1>5, <1>6
<1> QED BY Zenon, <1>1, <1>4, <1>5, <1>7, <1>8, <1>9

\* So the counters cover what they count.
LEMMA CountsCover ==
  ASSUME TypeOK, CountInv, InflightInv
  PROVE  Covered
<1>1. \A w \in Workers : pc[w] \in TaskLabels => GroupOf[task[w]] \in Groups BY Zenon, GroupTypes
<1>2. Counted \subseteq TaskLabels /\ ChildLabels \subseteq TaskLabels
  BY Zenon DEF Counted, ChildLabels, TaskLabels, SubmitLabels
<1>3. ASSUME NEW w \in Workers
      PROVE  /\ pc[w] \in Counted => vinflight[GroupOf[task[w]]] > 0
             /\ pc[w] \in ChildLabels => vinflight[GroupOf[task[w]]] > 1
  BY Zenon, <1>1, <1>2, CountsOf
<1> QED BY Zenon, <1>3, CountsOf, InflightOf DEF Covered

\* How the counts change in a step of p.
LEMMA Recount ==
  ASSUME TypeOK, NEW p \in Processes, Others(p)
  PROVE  /\ \A g \in Groups :
              /\ Cardinality(Held(g)') + Bit(p \in Held(g)) = Cardinality(Held(g)) + Bit(p \in Held(g)')
              /\ Cardinality(Begun(g)') + Bit(p \in Begun(g)) = Cardinality(Begun(g)) + Bit(p \in Begun(g)')
              /\ g # p => Own(g)' = Own(g)
         /\ Cardinality(Putting') + Bit(p \in Putting) = Cardinality(Putting) + Bit(p \in Putting')
         /\ Cardinality(Busy') + Bit(p \in Busy) = Cardinality(Busy) + Bit(p \in Busy')
<1> USE Names
<1>1. \A q \in Submitters \ {p} :
        /\ pc[q] \in Counted <=> pc'[q] \in Counted
        /\ pc[q] \in ChildLabels <=> pc'[q] \in ChildLabels
        /\ pc[q] \in OwnerCounted <=> pc'[q] \in OwnerCounted
        /\ pc[q] \in TaskLabels <=> pc'[q] \in TaskLabels
        /\ pc[q] = "put" <=> pc'[q] = "put"
  BY DEF Others, Counted, ChildLabels, OwnerCounted, TaskLabels, SubmitLabels
<1>2. \A w \in Workers \ {p} : task'[w] = task[w] BY Zenon DEF Others
<1>3. ASSUME NEW g \in Groups
      PROVE  /\ Cardinality(Held(g)') + Bit(p \in Held(g)) = Cardinality(Held(g)) + Bit(p \in Held(g)')
             /\ Cardinality(Begun(g)') + Bit(p \in Begun(g)) = Cardinality(Begun(g)) + Bit(p \in Begun(g)')
             /\ g # p => Own(g)' = Own(g)
  <2>1. /\ Held(g) \in SUBSET Submitters /\ Held(g)' \in SUBSET Submitters
        /\ \A q \in Submitters \ {p} : q \in Held(g) <=> q \in Held(g)'
    BY Zenon, <1>1, <1>2 DEF Held
  <2>2. /\ Begun(g) \in SUBSET Submitters /\ Begun(g)' \in SUBSET Submitters
        /\ \A q \in Submitters \ {p} : q \in Begun(g) <=> q \in Begun(g)'
    BY Zenon, <1>1, <1>2 DEF Begun
  <2>3. g # p => Own(g)' = Own(g) BY Zenon, <1>1 DEF Own
  <2> QED BY Zenon, <2>1, <2>2, <2>3, SizeMoves
<1>4. /\ Putting \in SUBSET Submitters /\ Putting' \in SUBSET Submitters
      /\ \A q \in Submitters \ {p} : q \in Putting <=> q \in Putting'
  BY Zenon, <1>1 DEF Putting
<1>5. /\ Busy \in SUBSET Submitters /\ Busy' \in SUBSET Submitters
      /\ \A q \in Submitters \ {p} : q \in Busy <=> q \in Busy'
  BY Zenon, <1>1 DEF Busy
<1> QED BY Zenon, <1>3, <1>4, <1>5, SizeMoves

\* What p stands for in the counter of g, and in the counter of the pool.
Share(p, g) == Bit(p \in Held(g)) + Bit(p \in Begun(g)) + (IF p = g THEN Own(g) ELSE 0)
Load(p) == Bit(p \in Putting) + Bit(p \in Busy)

LEMMA ShareOf ==
  ASSUME NEW g \in Groups
  PROVE  /\ \A w \in Workers :
              /\ Share(w, g) = IF GroupOf[task[w]] = g THEN Bit(pc[w] \in Counted) + Bit(pc[w] \in ChildLabels) ELSE 0
              /\ Share(w, g)' = IF GroupOf[task'[w]] = g THEN Bit(pc'[w] \in Counted) + Bit(pc'[w] \in ChildLabels) ELSE 0
         /\ \A h \in Groups :
              /\ Share(h, g) = IF h = g THEN Bit(pc[h] \in OwnerCounted) ELSE 0
              /\ Share(h, g)' = IF h = g THEN Bit(pc'[h] \in OwnerCounted) ELSE 0
         /\ \A p \in {Monitor, Closer} : Share(p, g) = 0 /\ Share(p, g)' = 0
<1> USE Names DEF Share, Bit, Held, Begun, Own
<1>1. ASSUME NEW w \in Workers
      PROVE  /\ Share(w, g) = IF GroupOf[task[w]] = g THEN Bit(pc[w] \in Counted) + Bit(pc[w] \in ChildLabels) ELSE 0
             /\ Share(w, g)' = IF GroupOf[task'[w]] = g THEN Bit(pc'[w] \in Counted) + Bit(pc'[w] \in ChildLabels) ELSE 0
  OBVIOUS
<1>2. ASSUME NEW h \in Groups
      PROVE  /\ Share(h, g) = IF h = g THEN Bit(pc[h] \in OwnerCounted) ELSE 0
             /\ Share(h, g)' = IF h = g THEN Bit(pc'[h] \in OwnerCounted) ELSE 0
  OBVIOUS
<1>3. ASSUME NEW p \in {Monitor, Closer} PROVE Share(p, g) = 0 /\ Share(p, g)' = 0
  OBVIOUS
<1> QED BY Zenon, <1>1, <1>2, <1>3

LEMMA LoadOf ==
  /\ \A w \in Workers : /\ Load(w) = Bit(pc[w] = "put") + Bit(pc[w] \in TaskLabels)
                        /\ Load(w)' = Bit(pc'[w] = "put") + Bit(pc'[w] \in TaskLabels)
  /\ \A g \in Groups : Load(g) = Bit(pc[g] = "put") /\ Load(g)' = Bit(pc'[g] = "put")
  /\ \A p \in {Monitor, Closer} : Load(p) = 0 /\ Load(p)' = 0
<1> USE Names DEF Load, Bit, Putting, Busy
<1>1. \A w \in Workers : /\ Load(w) = Bit(pc[w] = "put") + Bit(pc[w] \in TaskLabels)
                         /\ Load(w)' = Bit(pc'[w] = "put") + Bit(pc'[w] \in TaskLabels)
  BY Zenon
<1>2. \A g \in Groups : Load(g) = Bit(pc[g] = "put") /\ Load(g)' = Bit(pc'[g] = "put")
  OBVIOUS
<1>3. \A p \in {Monitor, Closer} : Load(p) = 0 /\ Load(p)' = 0
  BY DEF Submitters
<1> QED BY Zenon, <1>1, <1>2, <1>3

\* The counter of a group follows what the mover stands for.
LEMMA CountStep ==
  ASSUME TypeOK, TypeOK', CountInv, NEW p \in Processes, Others(p), NEW g \in Groups,
         vinflight'[g] + Cardinality(Queued(queue, g)) + Share(p, g)
           = vinflight[g] + Cardinality(Queued(queue', g)) + Share(p, g)'
  PROVE  vinflight'[g] = Cardinality(Queued(queue', g)) + Cardinality(Held(g)') + Cardinality(Begun(g)') + Own(g)'
<1> DEFINE a == Cardinality(Queued(queue, g))   A == Cardinality(Queued(queue', g))
           h == Cardinality(Held(g))            H == Cardinality(Held(g)')
           b == Cardinality(Begun(g))           B == Cardinality(Begun(g)')
           o == Own(g)                          O == Own(g)'
           v == vinflight[g]                    V == vinflight'[g]
           bh == Bit(p \in Held(g))             BH == Bit(p \in Held(g)')
           bb == Bit(p \in Begun(g))            BB == Bit(p \in Begun(g)')
           oo == IF p = g THEN Own(g) ELSE 0    OO == IF p = g THEN Own(g)' ELSE 0
<1>1. v \in Nat /\ V \in Nat BY Zenon DEF TypeOK
<1>2. a \in Nat /\ h \in Nat /\ b \in Nat BY Zenon, CountsOf
<1>3. A \in Nat
  <2>1. queue' \in Seq(Tasks) BY Zenon DEF TypeOK
  <2> QED BY Zenon, <2>1, QueuedFinite
<1>4. H \in Nat /\ B \in Nat
  <2>1. Held(g)' \in SUBSET Submitters /\ Begun(g)' \in SUBSET Submitters BY Zenon, Names DEF Held, Begun
  <2> QED BY Zenon, <2>1, SizeOf
<1>5. o \in Nat /\ O \in Nat /\ bh \in Nat /\ BH \in Nat /\ bb \in Nat /\ BB \in Nat BY Zenon DEF Own, Bit
<1>6. H + bh = h + BH /\ B + bb = b + BB /\ O + oo = o + OO /\ oo \in Nat /\ OO \in Nat
  BY <1>5, Recount
<1>7. v = a + h + b + o BY Zenon DEF CountInv
<1>8. V + a + (bh + bb + oo) = v + A + (BH + BB + OO) BY Zenon DEF Share
<1> HIDE DEF a, A, h, H, b, B, o, O, v, V, bh, BH, bb, BB, oo, OO
<1>9. V = A + H + B + O BY SMTT(20), <1>1, <1>2, <1>3, <1>4, <1>5, <1>6, <1>7, <1>8
<1> QED BY Zenon, <1>9 DEF A, H, B, O, V

\* The counter of the pool follows what the mover stands for.
LEMMA LoadStep ==
  ASSUME TypeOK, TypeOK', InflightInv, NEW p \in Processes, Others(p),
         inflight' + Len(queue) + Load(p) = inflight + Len(queue') + Load(p)'
  PROVE  InflightInv'
<1> DEFINE a == Len(queue)             A == Len(queue')
           h == Cardinality(Putting)   H == Cardinality(Putting')
           b == Cardinality(Busy)      B == Cardinality(Busy')
           v == inflight               V == inflight'
           bh == Bit(p \in Putting)    BH == Bit(p \in Putting')
           bb == Bit(p \in Busy)       BB == Bit(p \in Busy')
<1>1. v \in Nat /\ V \in Nat /\ A \in Nat BY DEF TypeOK
<1>2. a \in Nat /\ h \in Nat /\ b \in Nat BY Zenon, InflightOf
<1>3. H \in Nat /\ B \in Nat
  <2>1. Putting' \in SUBSET Submitters /\ Busy' \in SUBSET Submitters BY Zenon, Names DEF Putting, Busy
  <2> QED BY Zenon, <2>1, SizeOf
<1>4. bh \in Nat /\ BH \in Nat /\ bb \in Nat /\ BB \in Nat BY Zenon DEF Bit
<1>5. H + bh = h + BH /\ B + bb = b + BB BY Zenon, Recount
<1>6. v = h + a + b BY Zenon DEF InflightInv
<1>7. V + a + (bh + bb) = v + A + (BH + BB) BY Zenon DEF Load
<1> HIDE DEF a, A, h, H, b, B, v, V, bh, BH, bb, BB
<1>8. V = H + A + B BY <1>1, <1>2, <1>3, <1>4, <1>5, <1>6, <1>7
<1> QED BY Zenon, <1>8 DEF A, H, B, V, InflightInv

\* The counters and the queue change as what p stands for does.
Balanced(p, g) ==
  vinflight'[g] + Cardinality(Queued(queue, g)) + Share(p, g)
    = vinflight[g] + Cardinality(Queued(queue', g)) + Share(p, g)'
Loaded(p) == inflight' + Len(queue) + Load(p) = inflight + Len(queue') + Load(p)'

\* A step that leaves the queue alone.
LEMMA StillQueue ==
  ASSUME TypeOK, TypeOK', NEW p \in Processes, queue' = queue,
         NEW g \in Groups, NEW i \in Int, Share(p, g) \in Nat, Share(p, g)' = Share(p, g) + i,
         vinflight'[g] = vinflight[g] + i
  PROVE  Balanced(p, g)
<1> DEFINE a == Cardinality(Queued(queue, g))
           s == Share(p, g)
           S == Share(p, g)'
<1>1. a \in Nat /\ vinflight[g] \in Nat
  <2>1. queue \in Seq(Tasks) /\ vinflight[g] \in Nat BY Zenon, TypeSplit DEF QueueOK, GroupsOK
  <2> QED BY Zenon, <2>1, QueuedFinite
<1>2. a = Cardinality(Queued(queue', g)) BY Zenon
<1>3. s \in Nat /\ S = s + i BY Zenon
<1> HIDE DEF a, s, S
<1>4. vinflight'[g] + a + s = vinflight[g] + a + S BY <1>1, <1>3
<1> QED BY Zenon, <1>2, <1>4 DEF Balanced, a, s, S

LEMMA StillGroup ==
  ASSUME TypeOK, TypeOK', NEW p \in Processes, queue' = queue, vinflight' = vinflight,
         NEW g \in Groups, Share(p, g)' = Share(p, g)
  PROVE  Balanced(p, g)
BY Zenon DEF Balanced

\* A step that counts nothing.
LEMMA QuietCount ==
  ASSUME TypeOK, TypeOK', NEW p \in Processes, Quiet(p)
  PROVE  Others(p) /\ Loaded(p) /\ \A g \in Groups : Balanced(p, g)
<1> USE Names
<1>1. Others(p) /\ queue' = queue /\ inflight' = inflight /\ vinflight' = vinflight BY Zenon DEF Quiet
<1>2. p \in Workers \/ p \in Groups \/ p \in {Monitor, Closer} BY Zenon DEF Processes, Submitters
<1>3. ASSUME NEW g \in Groups PROVE Balanced(p, g)
  <2>1. Share(p, g)' = Share(p, g) BY <1>2, ShareOf DEF Quiet, Same, Bit
  <2> QED BY Zenon, <1>1, <2>1, StillGroup
<1>4. Load(p)' = Load(p) BY Zenon, <1>2, LoadOf DEF Quiet, Same, Bit
<1>5. Loaded(p) BY Zenon, <1>1, <1>4 DEF Loaded
<1> QED BY Zenon, <1>1, <1>3, <1>5

\* Steps of submit that do not touch the queue.
LEMMA SubmitCount ==
  ASSUME TypeOK, TypeOK', NEW p \in Submitters,
         \/ AddInflight(p) \/ PutClosed(p) \/ DecrementInflight(p, "refuse", "refuseLoad", "refused")
  PROVE  Others(p) /\ Loaded(p) /\ \A g \in Groups : Balanced(p, g)
<1> USE Names DEF queueVars, poolVars, groupVars, Bit
<1>0. inflight \in Nat /\ Len(queue) \in Nat BY TypeSplit DEF CountersOK, QueueOK
<1>t. vinflight \in [Groups -> Nat] BY Zenon, TypeSplit DEF GroupsOK
<1>1. CASE AddInflight(p) \/ PutClosed(p)
  <2>1. Others(p) /\ pc[p] \in {"add", "put"} /\ pc'[p] \in {"put", "putBack"} BY Zenon, <1>1, SubmitMoves DEF Moves
  <2>2. queue' = queue /\ task' = task /\ vinflight' = vinflight BY Zenon, <1>1 DEF AddInflight, PutClosed
  <2>3. ASSUME NEW g \in Groups PROVE Balanced(p, g)
    <3>1. Share(p, g)' = Share(p, g)
      BY Zenon, <2>1, <2>2, ShareOf DEF Counted, ChildLabels, OwnerCounted, TaskLabels, SubmitLabels
    <3> QED BY Zenon, <2>2, <3>1, StillGroup
  <2>4. CASE AddInflight(p)
    <3>1. pc[p] = "add" /\ pc'[p] = "put" /\ inflight' = inflight + 1
      BY Zenon, <2>4, SubmitMoves DEF Moves, AddInflight
    <3>2. Load(p) \in Nat /\ Load(p)' = Load(p) + 1 BY SMTT(20), <3>1, LoadOf DEF TaskLabels, SubmitLabels
    <3> QED BY SMTT(20), <1>0, <2>1, <2>2, <2>3, <3>1, <3>2 DEF Loaded
  <2>5. CASE PutClosed(p)
    <3>1. pc[p] = "put" /\ pc'[p] = "putBack" /\ inflight' = inflight - 1
      BY Zenon, <2>5, SubmitMoves DEF Moves, PutClosed
    <3>2. Load(p) \in Nat /\ Load(p)' = Load(p) - 1 BY <3>1, LoadOf DEF TaskLabels, SubmitLabels
    <3>3. Loaded(p) BY SMTT(20), <1>0, <2>2, <3>1, <3>2 DEF Loaded
    <3> QED BY Zenon, <2>1, <2>3, <3>3
  <2> QED BY Zenon, <1>1, <2>4, <2>5
<1>2. CASE DecrementInflight(p, "refuse", "refuseLoad", "refused")
  <2>1. Others(p) /\ pc[p] = "refuse" /\ pc'[p] \in {"refuseLoad", "refused"} BY Zenon, <1>2, SubmitMoves DEF Moves
  <2>2. queue' = queue /\ task' = task /\ inflight' = inflight BY Zenon, <1>2 DEF DecrementInflight
  <2>3. G(p) \in Groups /\ (p \in Groups => G(p) = p) /\ (p \in Workers => G(p) = GroupOf[task[p]])
    BY Zenon, <2>1, GroupTypes DEF TaskLabels, SubmitLabels
  <2>4. vinflight' = [vinflight EXCEPT ![G(p)] = @ - 1] BY Zenon, <1>2 DEF DecrementInflight
  <2>5. ASSUME NEW g \in Groups PROVE Balanced(p, g)
    <3>1. Share(p, g) \in Nat /\ Share(p, g)' = Share(p, g) + (IF g = G(p) THEN -1 ELSE 0)
      BY SMTT(20), <2>1, <2>2, <2>3, ShareOf DEF Counted, ChildLabels, OwnerCounted, TaskLabels, SubmitLabels
    <3>2. vinflight'[g] = vinflight[g] + (IF g = G(p) THEN -1 ELSE 0) BY SMTT(20), <1>t, <2>3, <2>4
    <3> QED BY SMTT(20), <2>2, <3>1, <3>2, StillQueue
  <2>6. Load(p)' = Load(p) BY Zenon, <2>1, LoadOf DEF TaskLabels, SubmitLabels
  <2> QED BY Zenon, <2>1, <2>2, <2>5, <2>6 DEF Loaded
<1> QED BY Zenon, <1>1, <1>2

LEMMA OwnerCount ==
  ASSUME TypeOK, TypeOK', NEW h \in Groups, Submit(h)
  PROVE  Others(h) /\ Loaded(h) /\ \A g \in Groups : Balanced(h, g)
<1> USE Names DEF queueVars, poolVars, groupVars, Bit
<1>1. Others(h) /\ pc[h] = "submit" /\ pc'[h] = "loadClosed" BY Zenon, OwnerMoves DEF Moves
<1>2. queue' = queue /\ inflight' = inflight /\ vinflight' = [vinflight EXCEPT ![h] = @ + 1] BY Zenon DEF Submit
<1>3. ASSUME NEW g \in Groups PROVE Balanced(h, g)
  <2>1. Share(h, g) \in Nat /\ Share(h, g)' = Share(h, g) + (IF g = h THEN 1 ELSE 0)
    BY <1>1, ShareOf DEF OwnerCounted, ChildLabels
  <2>2. vinflight'[g] = vinflight[g] + (IF g = h THEN 1 ELSE 0) BY <1>2, TypeSplit DEF GroupsOK
  <2> QED BY SMTT(20), <1>2, <2>1, <2>2, StillQueue
<1>4. Load(h)' = Load(h) BY Zenon, <1>1, LoadOf
<1> QED BY Zenon, <1>1, <1>2, <1>3, <1>4 DEF Loaded

\* Steps of a worker that do not touch the queue.
LEMMA WorkerCount ==
  ASSUME TypeOK, TypeOK', NEW w \in Workers,
         CountChild(w) \/ TaskIsOver(w) \/ DecrementInflight(w, "decrement", "decrementLoad", "over")
  PROVE  Others(w) /\ Loaded(w) /\ \A g \in Groups : Balanced(w, g)
<1> USE Names DEF queueVars, poolVars, groupVars, Bit
<1>0. inflight \in Nat /\ Len(queue) \in Nat BY TypeSplit DEF CountersOK, QueueOK
<1>t. vinflight \in [Groups -> Nat] BY Zenon, TypeSplit DEF GroupsOK
<1>1. CASE CountChild(w)
  <2>1. Others(w) /\ pc[w] = "vadd" /\ pc'[w] = "err" BY Zenon, <1>1, WorkerMoves DEF Moves
  <2>2. queue' = queue /\ task' = task /\ inflight' = inflight /\ vinflight' = [vinflight EXCEPT ![G(w)] = @ + 1]
    BY Zenon, <1>1 DEF CountChild
  <2>3. G(w) \in Groups /\ G(w) = GroupOf[task[w]] BY Zenon, <2>1, GroupTypes DEF TaskLabels
  <2>4. ASSUME NEW g \in Groups PROVE Balanced(w, g)
    <3>1. Share(w, g) \in Nat /\ Share(w, g)' = Share(w, g) + (IF g = G(w) THEN 1 ELSE 0)
      BY SMTT(20), <2>1, <2>2, <2>3, ShareOf DEF Counted, ChildLabels, TaskLabels, SubmitLabels
    <3>2. vinflight'[g] = vinflight[g] + (IF g = G(w) THEN 1 ELSE 0) BY SMTT(20), <1>t, <2>2, <2>3
    <3> QED BY SMTT(20), <2>2, <3>1, <3>2, StillQueue
  <2>5. Load(w)' = Load(w) BY Zenon, <2>1, LoadOf DEF TaskLabels, SubmitLabels
  <2> QED BY Zenon, <2>1, <2>2, <2>4, <2>5 DEF Loaded
<1>2. CASE DecrementInflight(w, "decrement", "decrementLoad", "over")
  <2>1. Others(w) /\ pc[w] = "decrement" /\ pc'[w] \in {"decrementLoad", "over"} BY Zenon, <1>2, WorkerMoves DEF Moves
  <2>2. queue' = queue /\ task' = task /\ inflight' = inflight /\ vinflight' = [vinflight EXCEPT ![G(w)] = @ - 1]
    BY Zenon, <1>2 DEF DecrementInflight
  <2>3. G(w) \in Groups /\ G(w) = GroupOf[task[w]] BY Zenon, <2>1, GroupTypes DEF TaskLabels
  <2>4. ASSUME NEW g \in Groups PROVE Balanced(w, g)
    <3>1. Share(w, g) \in Nat /\ Share(w, g)' = Share(w, g) + (IF g = G(w) THEN -1 ELSE 0)
      BY SMTT(20), <2>1, <2>2, <2>3, ShareOf DEF Counted, ChildLabels, TaskLabels, SubmitLabels
    <3>2. vinflight'[g] = vinflight[g] + (IF g = G(w) THEN -1 ELSE 0) BY SMTT(20), <1>t, <2>2, <2>3
    <3> QED BY SMTT(20), <2>2, <3>1, <3>2, StillQueue
  <2>5. Load(w)' = Load(w) BY Zenon, <2>1, LoadOf DEF TaskLabels, SubmitLabels
  <2> QED BY Zenon, <2>1, <2>2, <2>4, <2>5 DEF Loaded
<1>3. CASE TaskIsOver(w)
  <2>1. Others(w) /\ pc[w] = "over" /\ pc'[w] = "overLoad" BY Zenon, <1>3, WorkerMoves DEF Moves
  <2>2. queue' = queue /\ inflight' = inflight - 1 /\ vinflight' = vinflight BY Zenon, <1>3 DEF TaskIsOver
  <2>3. ASSUME NEW g \in Groups PROVE Balanced(w, g)
    <3>1. Share(w, g)' = Share(w, g)
      BY SMTT(20), <2>1, ShareOf DEF Counted, ChildLabels, TaskLabels, SubmitLabels
    <3> QED BY Zenon, <2>2, <3>1, StillGroup
  <2>4. Load(w) = 1 /\ Load(w)' = 0 BY SMTT(20), <2>1, LoadOf DEF TaskLabels, SubmitLabels
  <2> QED BY SMTT(20), <1>0, <2>1, <2>2, <2>3, <2>4 DEF Loaded
<1> QED BY Zenon, <1>1, <1>2, <1>3

\* Put: the task goes from who submits it to the queue.
LEMMA PutCount ==
  ASSUME TypeOK, TypeOK', TodoInv, NEW p \in Submitters, Put(p)
  PROVE  Others(p) /\ Loaded(p) /\ \A g \in Groups : Balanced(p, g)
<1> USE Names DEF queueVars, poolVars, groupVars, Bit
<1>1. /\ Others(p) /\ pc[p] = "put" /\ (p \in Groups => pc'[p] = "submit") /\ (p \in Workers => pc'[p] = "body")
  BY Zenon, SubmitMoves DEF Moves
<1>2. /\ queue' = Append(queue, Head(todo[p])) /\ inflight' = inflight /\ vinflight' = vinflight /\ task' = task
  BY Zenon DEF Put
<1>3. inflight \in Nat /\ queue \in Seq(Tasks) /\ todo[p] \in Seq(Tasks)
  BY Zenon, TypeSplit DEF CountersOK, QueueOK, TodoOK
<1>4. todo[p] # <<>> BY Zenon, <1>1 DEF TodoInv, TodoFits, SubmitLabels
<1>5. Head(todo[p]) \in Tasks /\ GroupOf[Head(todo[p])] = G(p)
  BY Zenon, <1>3, <1>4, TailFits DEF TodoInv, TodoFits
<1>6. G(p) \in Groups /\ (p \in Groups => G(p) = p) /\ (p \in Workers => G(p) = GroupOf[task[p]])
  BY Zenon, <1>1, GroupTypes DEF TaskLabels, SubmitLabels
<1>7. ASSUME NEW g \in Groups PROVE Balanced(p, g)
  <2> DEFINE a == Cardinality(Queued(queue, g))
             A == Cardinality(Queued(queue', g))
             s == Share(p, g)
             S == Share(p, g)'
             n == IF g = G(p) THEN 1 ELSE 0
  <2>1. a \in Nat BY Zenon, <1>3, QueuedFinite
  <2>2. A = a + n
    <3>1. Cardinality(Queued(Append(queue, Head(todo[p])), g)) = a + (IF GroupOf[Head(todo[p])] = g THEN 1 ELSE 0)
      BY Zenon, <1>3, <1>5, QueuedAppend
    <3> QED BY Zenon, <1>2, <1>5, <3>1
  <2>3. s \in Nat /\ S \in Nat /\ s = S + n
    <3>1. CASE p \in Groups
      BY SMTT(20), <3>1, <1>1, <1>2, <1>6, ShareOf DEF ChildLabels, OwnerCounted
    <3>2. CASE p \in Workers
      BY SMTT(20), <3>2, <1>1, <1>2, <1>6, ShareOf DEF Counted, ChildLabels, TaskLabels, SubmitLabels
    <3> QED BY Zenon, <3>1, <3>2 DEF Submitters
  <2>4. vinflight[g] \in Nat /\ vinflight'[g] = vinflight[g] /\ n \in Nat BY Zenon, <1>2, TypeSplit DEF GroupsOK
  <2> HIDE DEF a, A, s, S, n
  <2>5. vinflight'[g] + a + s = vinflight[g] + A + S BY <2>1, <2>2, <2>3, <2>4
  <2> QED BY Zenon, <2>5 DEF Balanced, a, A, s, S
<1>8. Len(queue) \in Nat /\ Len(queue') = Len(queue) + 1 BY SMTT(20), <1>2, <1>3, <1>5
<1>9. Load(p)' \in Nat /\ Load(p) = Load(p)' + 1 BY SMTT(20), <1>1, LoadOf DEF TaskLabels, SubmitLabels
<1>10. Loaded(p) BY SMTT(20), <1>2, <1>3, <1>8, <1>9 DEF Loaded
<1> QED BY Zenon, <1>1, <1>7, <1>10

\* Get: the task goes from the queue to the worker.
LEMMA TakeCount ==
  ASSUME TypeOK, TypeOK', NEW w \in Workers, GetTakes(w)
  PROVE  Others(w) /\ Loaded(w) /\ \A g \in Groups : Balanced(w, g)
<1> USE Names DEF queueVars, poolVars, groupVars, Bit
<1>1. Others(w) /\ pc[w] = "get" /\ pc'[w] = "taken" BY Zenon, WorkerMoves DEF Moves
<1>2. /\ queue # <<>> /\ queue' = Tail(queue) /\ inflight' = inflight /\ vinflight' = vinflight
      /\ task'[w] = Head(queue)
  BY Zenon, Domains DEF GetTakes
<1>3. inflight \in Nat /\ queue \in Seq(Tasks) BY Zenon, TypeSplit DEF CountersOK, QueueOK
<1>4. ASSUME NEW g \in Groups PROVE Balanced(w, g)
  <2> DEFINE a == Cardinality(Queued(queue, g))
             A == Cardinality(Queued(queue', g))
             s == Share(w, g)
             S == Share(w, g)'
             n == IF GroupOf[Head(queue)] = g THEN 1 ELSE 0
  <2>1. a \in Nat BY Zenon, <1>3, QueuedFinite
  <2>2. A \in Nat /\ a = A + n
    <3>1. queue' \in Seq(Tasks) BY <1>2, <1>3
    <3> QED BY Zenon, <1>2, <1>3, <3>1, QueuedTail, QueuedFinite
  <2>3. s = 0 /\ S = n
    BY <1>1, <1>2, ShareOf DEF Counted, ChildLabels, TaskLabels, SubmitLabels
  <2>4. vinflight[g] \in Nat /\ vinflight'[g] = vinflight[g] /\ n \in Nat BY Zenon, <1>2, TypeSplit DEF GroupsOK
  <2> HIDE DEF a, A, s, S, n
  <2>5. vinflight'[g] + a + s = vinflight[g] + A + S BY SMTT(20), <2>1, <2>2, <2>3, <2>4
  <2> QED BY Zenon, <2>5 DEF Balanced, a, A, s, S
<1>5. Len(queue) \in Nat /\ Len(queue') = Len(queue) - 1 BY SMTT(20), <1>2, <1>3
<1>6. Load(w) = 0 /\ Load(w)' = 1 BY <1>1, LoadOf DEF TaskLabels, SubmitLabels
<1> QED BY <1>1, <1>2, <1>3, <1>4, <1>5, <1>6 DEF Loaded

\* Every step keeps the counters right.
LEMMA CountsKept ==
  ASSUME TypeOK, TypeOK', TodoInv, CountInv, InflightInv, [Next]_vars
  PROVE  CountInv' /\ InflightInv'
<1> USE Names
<1>1. ASSUME NEW p \in Processes, Others(p), Loaded(p), \A g \in Groups : Balanced(p, g)
      PROVE  CountInv' /\ InflightInv'
  <2>1. InflightInv' BY Zenon, <1>1, LoadStep DEF Loaded
  <2>2. ASSUME NEW g \in Groups
        PROVE  vinflight'[g] = Cardinality(Queued(queue', g)) + Cardinality(Held(g)') + Cardinality(Begun(g)') + Own(g)'
    BY Zenon, <1>1, CountStep DEF Balanced
  <2> QED BY Zenon, <2>1, <2>2 DEF CountInv
<1>2. \E p \in Processes : Others(p) /\ Loaded(p) /\ \A g \in Groups : Balanced(p, g)
  <2>1. CASE Counts BY Zenon, <2>1, SubmitCount, OwnerCount, WorkerCount, PutCount, TakeCount DEF Counts
  <2>2. CASE \E p \in Processes : Quiet(p) BY Zenon, <2>2, QuietCount
  <2> QED BY Zenon, <2>1, <2>2, QuietOrCounts
<1> QED BY Zenon, <1>1, <1>2

-----------------------------------------------------------------------------
(* The theorems *)

IInv ==
  /\ TypeOK /\ TodoInv /\ RootInv /\ CountInv /\ InflightInv
  /\ DoneInv /\ MonitorInv /\ WalkInv

LEMMA InitLabels ==
  ASSUME Init
  PROVE  /\ DOMAIN pc = Processes
         /\ \A w \in Workers : pc[w] = "get" /\ task[w] = NoTask
         /\ \A g \in Groups : pc[g] = "submit"
         /\ pc[Monitor] = "check" /\ pc[Closer] = "open"
BY Zenon, Names DEF Init

LEMMA InitTypes ==
  ASSUME Init
  PROVE  TypeOK
<1> USE Names
<1>1. QueueOK(queue, queueClosed, size) /\ CountersOK(cancelled, inflight, closedForSubmit)
  <2>1. queue = <<>> /\ ~queueClosed /\ queueClosed \in BOOLEAN /\ size = 0 BY Zenon DEF Init
  <2>2. cancelled \in BOOLEAN /\ inflight = 0 /\ closedForSubmit \in BOOLEAN BY Zenon DEF Init
  <2> QED BY <2>1, <2>2 DEF QueueOK, CountersOK
<1>2. GroupsOK(closed, failed, errs, vinflight, done) /\ HistoryOK(kind, refused, ran)
  BY Zenon DEF GroupsOK, HistoryOK, Init
<1>3. TodoOK(todo) BY PoolAssumption DEF TodoOK, Init
<1>4. LabelsOK(pc, task)
  <2>1. /\ DOMAIN pc = Processes
        /\ \A w \in Workers : pc[w] = "get" /\ task[w] = NoTask
        /\ \A g \in Groups : pc[g] = "submit"
        /\ pc[Monitor] = "check" /\ pc[Closer] = "open"
    BY Zenon, InitLabels
  <2>2. task \in [Workers -> Tasks \cup {NoTask}] BY Zenon DEF Init
  <2> QED BY Zenon, <2>1, <2>2 DEF LabelsOK, OwnerLabels, WorkerLabels, TaskLabels, SubmitLabels, MonitorLabels
<1> QED BY Zenon, <1>1, <1>2, <1>3, <1>4
  DEF TypeOK, QueueOK, CountersOK, GroupsOK, HistoryOK, TodoOK, LabelsOK

LEMMA Initially ==
  ASSUME OneRoot, Init
  PROVE  IInv
<1> USE Names
<1>1. TypeOK BY Zenon, InitTypes
<1>2. /\ \A w \in Workers : pc[w] = "get" /\ todo[w] = <<>>
      /\ \A g \in Groups : pc[g] = "submit" /\ todo[g] = Top[g]
      /\ pc[Monitor] = "check" /\ pc[Closer] = "open"
  BY Zenon, InitLabels DEF Init
<1>3. TodoInv
  <2>1. \A g \in Groups : \A i \in DOMAIN Top[g] : GroupOf[Top[g][i]] = g BY Zenon, PoolAssumption
  <2> QED BY SMTT(20), <1>1, <1>2, <2>1, GroupTypes DEF TodoInv, TodoFits, BodyLabels, SubmitLabels
<1>4. RootInv BY <1>2 DEF RootInv, OneRoot, Init, TaskLabels, SubmitLabels
<1>5. ASSUME NEW g \in Groups
      PROVE  vinflight[g] = Cardinality(Queued(queue, g)) + Cardinality(Held(g)) + Cardinality(Begun(g)) + Own(g)
  <2>1. Queued(queue, g) = {} BY DEF Queued, Init
  <2>2. Held(g) = {} /\ Begun(g) = {}
    BY Zenon, <1>2 DEF Held, Begun, Counted, ChildLabels, TaskLabels, SubmitLabels
  <2>3. Own(g) = 0 /\ vinflight[g] = 0 BY Zenon, <1>2 DEF Own, Init, OwnerCounted, ChildLabels
  <2>4. Cardinality({}) = 0 BY Zenon, NoneCounted
  <2> QED BY <2>1, <2>2, <2>3, <2>4
<1>6. InflightInv
  <2>1. Putting = {} /\ Busy = {} BY Zenon, <1>2 DEF Putting, Busy, TaskLabels, SubmitLabels
  <2>2. Cardinality({}) = 0 BY Zenon, NoneCounted
  <2>3. Len(queue) = 0 /\ inflight = 0 BY Zenon DEF Init
  <2> QED BY <2>1, <2>2, <2>3 DEF InflightInv
<1>7. DoneInv BY Zenon, <1>2 DEF DoneInv, WorkerDone, OwnerDone, Init
<1>8. MonitorInv BY Zenon, <1>2 DEF MonitorInv, Init
<1>9. WalkInv
  <2>1. \A g \in Groups : Accounted(g, Elements(Top[g]), todo[g]) BY Zenon, <1>2 DEF Accounted
  <2>2. \A g \in Groups : ~failed[g] BY Zenon DEF Init
  <2>3. ran = {} BY Zenon DEF Init
  <2> QED BY Zenon, <1>2, <2>1, <2>2, <2>3 DEF WalkInv, RefusedFor, BodyLabels, SubmitLabels
<1> QED BY Zenon, <1>1, <1>3, <1>4, <1>5, <1>6, <1>7, <1>8, <1>9 DEF IInv, CountInv

LEMMA Inductive ==
  ASSUME IInv, [Next]_vars
  PROVE  IInv'
<1> USE DEF IInv
<1>1. Covered BY Zenon, CountsCover
<1>2. TypeOK' BY Zenon, <1>1, TypesKept
<1>3. CountInv' /\ InflightInv' BY Zenon, <1>2, CountsKept
<1> QED BY Zenon, <1>1, <1>2, <1>3, TodoKept, RootKept, DoneKept, MonitorKept, WalkKept

\* In a group whose done is closed nothing is pending.
LEMMA NothingPending ==
  ASSUME IInv, NEW g \in Groups, done[g]
  PROVE  /\ closed[g] /\ vinflight[g] = 0
         /\ \A i \in DOMAIN queue : GroupOf[queue[i]] # g
         /\ \A w \in Workers : pc[w] \in Counted => GroupOf[task[w]] # g
<1>1. Covered BY Zenon, CountsCover DEF IInv
<1>2. closed[g] /\ vinflight[g] = 0 BY Zenon DEF IInv, DoneInv, Drained
<1> QED BY <1>1, <1>2 DEF Covered

LEMMA PoolSafe ==
  ASSUME IInv
  PROVE  PoolInv
<1>1. Covered BY Zenon, CountsCover DEF IInv
<1>2. WaitMeansDrained
  BY NothingPending DEF WaitMeansDrained, Pending, Elements, Counted
<1>3. DrainedBeforeClose
  <2> SUFFICES ASSUME queueClosed, ~cancelled PROVE queue = <<>> /\ \A w \in Workers : task[w] = NoTask
    BY Zenon DEF DrainedBeforeClose
  <2>1. inflight = 0 BY Zenon DEF IInv, MonitorInv
  <2>2. queue = <<>> /\ \A w \in Workers : pc[w] \notin TaskLabels BY <1>1, <2>1 DEF Covered
  <2>3. LabelsOK(pc, task) BY Zenon, TypeSplit DEF IInv
  <2> QED BY Zenon, <2>2, <2>3 DEF LabelsOK
<1> QED BY Zenon, <1>2, <1>3 DEF PoolInv, IInv

LEMMA WalkSafe ==
  ASSUME IInv
  PROVE  WalkIsComplete
<1> USE DEF IInv
<1> SUFFICES ASSUME NEW g \in Groups, pc[g] = "returned", g \notin refused, ~failed[g], errs[g] = {},
                    kind[g] = "lenient" => ~cancelled
             PROVE  /\ Elements(Top[g]) \subseteq ran
                    /\ \A t \in ran : GroupOf[t] = g => Elements(Children[t]) \subseteq ran
  BY Zenon DEF WalkIsComplete
<1>1. done[g] /\ ~Excused(g) BY Zenon DEF WalkInv, Excused
<1>2. todo[g] = <<>> BY Zenon DEF DoneInv, OwnerDone
<1>3. \A x \in Alive : GroupOf[x] = g => x \in ran
  <2>1. \A x \in Elements(queue) : GroupOf[x] # g BY Zenon, <1>1, NothingPending DEF Elements
  <2>2. \A w \in Workers : pc[w] \in AliveLabels => GroupOf[task[w]] # g
    BY SMTT(20), <1>1, NothingPending DEF AliveLabels, BodyLabels, Counted, TaskLabels, SubmitLabels
  <2> QED BY Zenon, <2>1, <2>2 DEF Alive
<1>4. Elements(Top[g]) \subseteq ran
  <2>1. Elements(Top[g]) \subseteq Alive BY Zenon, <1>1, <1>2, NothingIn DEF WalkInv, Accounted
  <2> QED BY Zenon, <1>3, <2>1, OfTheGroup
<1>5. ASSUME NEW t \in ran, GroupOf[t] = g PROVE Elements(Children[t]) \subseteq ran
  <2>1. Elements(Children[t]) \subseteq Alive BY Zenon, <1>1, <1>5, NothingIn DEF WalkInv, Accounted
  <2>2. t \in Tasks BY Zenon, TypeSplit DEF HistoryOK
  <2> QED BY Zenon, <1>3, <1>5, <2>1, <2>2, OfTheGroup
<1> QED BY Zenon, <1>4, <1>5

\* Wait returns only when its group is drained, however submits, closes, cancellation and failing tasks
\* interleave, and the queue closes without force only when nothing is queued or running: for any number
\* of workers, groups and tasks, if every owner submits one task (OneRoot).
THEOREM WaitDrains == OneRoot /\ Spec => []PoolInv
<1>1. OneRoot /\ Init => IInv BY Zenon, Initially
<1>2. IInv /\ [Next]_vars => IInv' BY Zenon, Inductive
<1>3. IInv => PoolInv BY Zenon, PoolSafe
<1> QED BY <1>1, <1>2, <1>3, PTL DEF Spec

\* A walk of any tree, by any number of workers, that returns without an error has run every task.
THEOREM WalksAreComplete == OneRoot /\ Spec => []WalkIsComplete
<1>1. OneRoot /\ Init => IInv BY Zenon, Initially
<1>2. IInv /\ [Next]_vars => IInv' BY Zenon, Inductive
<1>3. IInv => WalkIsComplete BY Zenon, WalkSafe
<1> QED BY <1>1, <1>2, <1>3, PTL DEF Spec
=============================================================================
