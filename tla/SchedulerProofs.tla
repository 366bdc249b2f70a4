---------------------------- MODULE SchedulerProofs ----------------------------
(***************************************************************************)
(* Proofs about Scheduler for every number of threads, fibers and calls.   *)
(***************************************************************************)
EXTENDS SchedulerProps, FiniteSetTheorems, SequenceTheorems, TLAPS

\* Appending a task: its entries are the old ones and the new one.
LEMMA PushFacts ==
    ASSUME NEW q \in Seq(Task), NEW f \in Fibers \cup {NoFiber},
           NEW th \in Threads \cup {AnyThread}
    PROVE  /\ Push(q, f, th) \in Seq(Task)
           /\ DOMAIN Push(q, f, th) = 1 .. Len(q) + 1
           /\ DOMAIN q = 1 .. Len(q) /\ Len(q) \in Nat
           /\ \A i \in 1 .. Len(q) : Push(q, f, th)[i] = q[i]
           /\ Push(q, f, th)[Len(q) + 1].fiber = f
<1>1. [fiber |-> f, thread |-> th] \in Task
  BY DEF Task
<1>2. QED
  BY <1>1 DEF Push

\* Erasing entry i: the entries before it stay, those after it move up by one.
LEMMA EraseFacts ==
    ASSUME NEW q \in Seq(Task), NEW i \in DOMAIN q
    PROVE  /\ RemoveAt(q, i) \in Seq(Task)
           /\ DOMAIN RemoveAt(q, i) = 1 .. Len(q) - 1
           /\ DOMAIN q = 1 .. Len(q) /\ Len(q) \in Nat /\ i \in 1 .. Len(q)
           /\ \A j \in 1 .. Len(q) - 1 :
                 RemoveAt(q, i)[j] = IF j < i THEN q[j] ELSE q[j + 1]
<1> DEFINE A == SubSeq(q, 1, i - 1)
           B == SubSeq(q, i + 1, Len(q))
<1>0. DOMAIN q = 1 .. Len(q) /\ Len(q) \in Nat /\ i \in 1 .. Len(q)
  OBVIOUS
<1>1. A \in Seq(Task) /\ B \in Seq(Task)
  BY <1>0
<1>2. /\ Len(A) = i - 1 /\ \A j \in 1 .. i - 1 : A[j] = q[j]
      /\ Len(B) = Len(q) - i /\ \A j \in 1 .. Len(q) - i : B[j] = q[i + j]
  BY <1>0
<1>3. RemoveAt(q, i) = A \o B
  BY DEF RemoveAt
<1> HIDE DEF A, B
<1>4. /\ A \o B \in Seq(Task) /\ Len(A \o B) = Len(A) + Len(B)
      /\ \A j \in 1 .. Len(A) + Len(B) :
            (A \o B)[j] = IF j <= Len(A) THEN A[j] ELSE B[j - Len(A)]
  BY <1>1, ConcatProperties, Zenon
<1>5. DOMAIN (A \o B) = 1 .. Len(q) - 1
  <2>1. DOMAIN (A \o B) = 1 .. Len(A \o B)
    BY <1>4, LenProperties, Zenon
  <2>2. Len(A \o B) = Len(q) - 1
    BY <1>0, <1>2, <1>4
  <2>3. QED
    BY <2>1, <2>2, Zenon
<1>6. ASSUME NEW j \in 1 .. Len(q) - 1
      PROVE  (A \o B)[j] = IF j < i THEN q[j] ELSE q[j + 1]
  <2>1. CASE j < i
    BY <2>1, <1>0, <1>2, <1>4
  <2>2. CASE ~(j < i)
    <3>1. (A \o B)[j] = B[j - Len(A)]
      BY <2>2, <1>0, <1>2, <1>4
    <3>2. j - Len(A) \in 1 .. Len(q) - i /\ i + (j - Len(A)) = j + 1
      BY <2>2, <1>0, <1>2
    <3>3. QED
      BY <2>2, <3>1, <3>2, <1>2
  <2>3. QED
    BY <2>1, <2>2
<1>7. QED
  BY <1>0, <1>3, <1>4, <1>5, <1>6

-----------------------------------------------------------------------------
(* What the operations on the list do to the set of wake-ups.              *)

\* A step that leaves the list and the wakers alone.
LEMMA TokensSame ==
    ASSUME UNCHANGED <<m_fibers, armed>>
    PROVE  Tokens' = Tokens /\ (TokensUnique => TokensUnique')
BY DEF Tokens, Queued, TokensUnique

\* Scheduling a fiber that was not scheduled, or a callback.
LEMMA PushTokens ==
    ASSUME TypeOK, TokensUnique, NEW f \in Fibers \cup {NoFiber},
           NEW th \in Threads \cup {AnyThread},
           m_fibers' = Push(m_fibers, f, th), armed' \subseteq armed,
           ~(f \in Fibers /\ Queued(f)), f \notin armed'
    PROVE  /\ m_fibers' \in Seq(Task)
           /\ Tokens' = {g \in Fibers : g \in armed' \/ Queued(g) \/ g = f}
           /\ TokensUnique'
<1>1. m_fibers \in Seq(Task)
  BY DEF TypeOK
<1>2. /\ m_fibers' \in Seq(Task)
      /\ DOMAIN m_fibers' = 1 .. Len(m_fibers) + 1
      /\ DOMAIN m_fibers = 1 .. Len(m_fibers) /\ Len(m_fibers) \in Nat
      /\ \A i \in 1 .. Len(m_fibers) : m_fibers'[i] = m_fibers[i]
      /\ m_fibers'[Len(m_fibers) + 1].fiber = f
  <2> DEFINE q == Push(m_fibers, f, th)
  <2>1. /\ q \in Seq(Task)
        /\ DOMAIN q = 1 .. Len(m_fibers) + 1
        /\ DOMAIN m_fibers = 1 .. Len(m_fibers) /\ Len(m_fibers) \in Nat
        /\ \A i \in 1 .. Len(m_fibers) : q[i] = m_fibers[i]
        /\ q[Len(m_fibers) + 1].fiber = f
    BY <1>1, PushFacts
  <2>2. m_fibers' = q
    OBVIOUS
  <2> HIDE DEF q
  <2>3. QED
    BY <2>1, <2>2
<1>3. \A g : Queued(g)' <=> Queued(g) \/ g = f
  BY <1>2 DEF Queued
<1>4. Tokens' = {g \in Fibers : g \in armed' \/ Queued(g) \/ g = f}
  BY <1>3 DEF Tokens
<1>5. TokensUnique'
  BY <1>2, <1>3 DEF TokensUnique, Queued, TypeOK
<1>6. QED
  BY <1>2, <1>4, <1>5

\* Taking entry i.
LEMMA EraseTokens ==
    ASSUME TypeOK, TokensUnique, NEW i \in DOMAIN m_fibers,
           m_fibers' = RemoveAt(m_fibers, i), armed' = armed
    PROVE  /\ m_fibers' \in Seq(Task)
           /\ m_fibers[i].fiber \in Fibers \cup {NoFiber}
           /\ m_fibers[i].fiber \in Fibers => m_fibers[i].fiber \in Tokens
           /\ Tokens' = Tokens \ {m_fibers[i].fiber}
           /\ TokensUnique'
<1>1. m_fibers \in Seq(Task)
  BY DEF TypeOK
<1>2. /\ m_fibers' \in Seq(Task)
      /\ DOMAIN m_fibers' = 1 .. Len(m_fibers) - 1
      /\ DOMAIN m_fibers = 1 .. Len(m_fibers) /\ Len(m_fibers) \in Nat
      /\ i \in 1 .. Len(m_fibers)
      /\ \A j \in 1 .. Len(m_fibers) - 1 :
            m_fibers'[j] = IF j < i THEN m_fibers[j] ELSE m_fibers[j + 1]
  BY <1>1, EraseFacts
<1>3. m_fibers[i].fiber \in Fibers \cup {NoFiber}
  <2>1. m_fibers[i] \in Task
    BY <1>1
  <2>2. QED
    BY <2>1 DEF Task
<1>4. ASSUME NEW g \in Fibers
      PROVE  Queued(g)' <=> Queued(g) /\ g # m_fibers[i].fiber
  <2>1. ASSUME NEW k \in DOMAIN m_fibers, m_fibers[k].fiber = g, k # i
        PROVE  Queued(g)'
    <3>1. CASE k < i
      BY <1>2, <2>1, <3>1 DEF Queued
    <3>2. CASE k > i
      <4>1. k - 1 \in DOMAIN m_fibers' /\ m_fibers'[k - 1] = m_fibers[k]
        BY <1>2, <2>1, <3>2
      <4>2. QED
        BY <2>1, <4>1 DEF Queued
    <3>3. QED
      BY <1>2, <2>1, <3>1, <3>2
  <2>2. ASSUME NEW j \in DOMAIN m_fibers', m_fibers'[j].fiber = g
        PROVE  \E k \in DOMAIN m_fibers : k # i /\ m_fibers[k].fiber = g
    BY <1>2, <2>2
  <2>3. g # NoFiber
    BY SchedulerAssumption
  <2>4. QED
    BY <2>1, <2>2, <2>3 DEF Queued, TokensUnique
<1>5. Tokens' = Tokens \ {m_fibers[i].fiber}
  <2>1. Queued(m_fibers[i].fiber)
    BY DEF Queued
  <2>2. m_fibers[i].fiber \notin armed
    BY <2>1 DEF TokensUnique
  <2>3. QED
    BY <1>4, <2>1, <2>2 DEF Tokens
<1>6. TokensUnique'
  <2>1. ASSUME NEW j \in DOMAIN m_fibers', NEW k \in DOMAIN m_fibers',
               m_fibers'[j].fiber = m_fibers'[k].fiber, m_fibers'[j].fiber # NoFiber
        PROVE  j = k
    <3> DEFINE Old(x) == IF x < i THEN x ELSE x + 1
    <3>1. \A x \in DOMAIN m_fibers' :
             x \in Nat /\ Old(x) \in DOMAIN m_fibers /\ m_fibers'[x] = m_fibers[Old(x)]
      BY <1>2
    <3>2. Old(j) = Old(k)
      <4> HIDE DEF Old
      <4>1. QED
        BY <2>1, <3>1 DEF TokensUnique
    <3>3. i \in Nat /\ j \in Nat /\ k \in Nat
      BY <1>2, <3>1
    <3>4. QED
      BY <3>2, <3>3
  <2>2. \A f \in armed : ~Queued(f)'
    BY <1>4 DEF TokensUnique, TypeOK
  <2>3. QED
    BY <2>1, <2>2 DEF TokensUnique
<1>7. m_fibers[i].fiber \in Fibers => m_fibers[i].fiber \in Tokens
  BY DEF Tokens, Queued
<1>8. QED
  BY <1>2, <1>3, <1>5, <1>6, <1>7

-----------------------------------------------------------------------------
(* m_activeThreadCount and the set of active threads.                      *)

\* The active threads are among m_threads.
LEMMA ActiveFinite == IsFiniteSet(Active)
BY SchedulerAssumption, FS_Subset DEF Active

\* A thread that moves between two points of the same kind.
LEMMA ActiveSame ==
    ASSUME ActiveCount, Active' = Active, UNCHANGED m_activeThreadCount
    PROVE  ActiveCount'
BY DEF ActiveCount

\* A thread that takes a task, where run() increments the count.
LEMMA ActiveUp ==
    ASSUME ActiveCount, NEW t \in Threads, t \notin Active,
           Active' = Active \cup {t}, m_activeThreadCount' = m_activeThreadCount + 1
    PROVE  ActiveCount'
BY ActiveFinite, FS_AddElement DEF ActiveCount

\* A thread that is done with a task, where run() decrements the count.
LEMMA ActiveDown ==
    ASSUME ActiveCount, NEW t \in Active,
           Active' = Active \ {t}, m_activeThreadCount' = m_activeThreadCount - 1
    PROVE  ActiveCount' /\ m_activeThreadCount' \in Nat
<1>1. /\ Cardinality(Active \ {t}) = Cardinality(Active) - 1
      /\ IsFiniteSet(Active \ {t})
  BY ActiveFinite, FS_RemoveElement
<1>2. Cardinality(Active \ {t}) \in Nat
  BY <1>1, FS_CardinalityType
<1>3. QED
  BY <1>1, <1>2 DEF ActiveCount

-----------------------------------------------------------------------------
(* One lemma per action: it preserves the invariant.                       *)

\* The resumed fiber was held by this thread alone, so no other thread sees it
\* turn RUNING.
LEMMA SwapInInv ==
    ASSUME SchedInv, NEW t \in Threads, SwapIn(t) PROVE SchedInv'
<1> USE DEF SwapIn
<1>1. TypeOK'
  BY DEF SchedInv, TypeOK, PC, FiberState
<1>2. ActiveCount'
  <2>1. Active' = Active
    BY DEF SchedInv, TypeOK, Active
  <2>2. QED
    BY <2>1, ActiveSame DEF SchedInv
<1>3. StoppedOff'
  BY DEF SchedInv, TypeOK, StoppedOff
<1>4. Tokens' = Tokens /\ TokensUnique'
  BY TokensSame DEF SchedInv
<1>5. ASSUME NEW u \in Threads PROVE ThreadInv(u)'
  BY <1>4, SchedulerAssumption
  DEF SchedInv, TypeOK, ThreadInv, FiberInv, Cur, OnFiber, Dead
<1>6. ASSUME NEW f \in Fibers PROVE FiberInv(f)'
  BY <1>4, SchedulerAssumption
  DEF SchedInv, TypeOK, ThreadInv, FiberInv, Cur, OnFiber, Dead
<1>7. QED
  BY <1>1, <1>2, <1>3, <1>4, <1>5, <1>6 DEF SchedInv

\* start() finds every thread off, so no local of run() is set.
LEMMA StartInv ==
    ASSUME SchedInv, Start PROVE SchedInv'
<1> USE DEF Start
<1>1. TypeOK'
  BY DEF SchedInv, TypeOK, PC, FiberState
<1>2. ActiveCount'
  <2>1. Active' = Active
    BY DEF SchedInv, TypeOK, StoppedOff, Active
  <2>2. QED
    BY <2>1, ActiveSame DEF SchedInv
<1>3. StoppedOff'
  BY DEF SchedInv, TypeOK, StoppedOff
<1>4. Tokens' = Tokens /\ TokensUnique'
  BY TokensSame DEF SchedInv
<1>5. ASSUME NEW u \in Threads PROVE ThreadInv(u)'
  BY <1>4, SchedulerAssumption
  DEF SchedInv, TypeOK, ThreadInv, FiberInv, Cur, OnFiber, Dead, StoppedOff
<1>6. ASSUME NEW f \in Fibers PROVE FiberInv(f)'
  BY <1>4, SchedulerAssumption
  DEF SchedInv, TypeOK, ThreadInv, FiberInv, Cur, OnFiber, Dead, StoppedOff
<1>7. QED
  BY <1>1, <1>2, <1>3, <1>4, <1>5, <1>6 DEF SchedInv

\* A store that no part of the invariant reads.
LEMMA StopAutoInv ==
    ASSUME SchedInv, StopAuto PROVE SchedInv'
<1> USE DEF StopAuto
<1>1. TypeOK'
  BY DEF SchedInv, TypeOK, PC, FiberState
<1>2. ActiveCount'
  <2>1. Active' = Active
    BY DEF SchedInv, TypeOK, Active
  <2>2. QED
    BY <2>1, ActiveSame DEF SchedInv
<1>3. StoppedOff'
  BY DEF SchedInv, TypeOK, StoppedOff
<1>4. Tokens' = Tokens /\ TokensUnique'
  BY TokensSame DEF SchedInv
<1>5. ASSUME NEW u \in Threads PROVE ThreadInv(u)'
  BY <1>4, SchedulerAssumption
  DEF SchedInv, TypeOK, ThreadInv, FiberInv, Cur, OnFiber, Dead
<1>6. ASSUME NEW f \in Fibers PROVE FiberInv(f)'
  BY <1>4, SchedulerAssumption
  DEF SchedInv, TypeOK, ThreadInv, FiberInv, Cur, OnFiber, Dead
<1>7. QED
  BY <1>1, <1>2, <1>3, <1>4, <1>5, <1>6 DEF SchedInv

\* m_stopping is set while stopper is not "none".
LEMMA StopStoreInv ==
    ASSUME SchedInv, StopStore PROVE SchedInv'
<1> USE DEF StopStore
<1>1. TypeOK'
  BY DEF SchedInv, TypeOK, PC, FiberState
<1>2. ActiveCount'
  <2>1. Active' = Active
    BY DEF SchedInv, TypeOK, Active
  <2>2. QED
    BY <2>1, ActiveSame DEF SchedInv
<1>3. StoppedOff'
  BY DEF SchedInv, TypeOK, StoppedOff
<1>4. Tokens' = Tokens /\ TokensUnique'
  BY TokensSame DEF SchedInv
<1>5. ASSUME NEW u \in Threads PROVE ThreadInv(u)'
  BY <1>4, SchedulerAssumption
  DEF SchedInv, TypeOK, ThreadInv, FiberInv, Cur, OnFiber, Dead
<1>6. ASSUME NEW f \in Fibers PROVE FiberInv(f)'
  BY <1>4, SchedulerAssumption
  DEF SchedInv, TypeOK, ThreadInv, FiberInv, Cur, OnFiber, Dead
<1>7. QED
  BY <1>1, <1>2, <1>3, <1>4, <1>5, <1>6 DEF SchedInv

\* An empty-handed pass changes pc only.
LEMMA TakeNoneInv ==
    ASSUME SchedInv, NEW t \in Threads, TakeNone(t) PROVE SchedInv'
<1> USE DEF TakeNone
<1>1. TypeOK'
  BY DEF SchedInv, TypeOK, PC, FiberState
<1>2. ActiveCount'
  <2>1. Active' = Active
    BY DEF SchedInv, TypeOK, Active
  <2>2. QED
    BY <2>1, ActiveSame DEF SchedInv
<1>3. StoppedOff'
  BY DEF SchedInv, TypeOK, StoppedOff
<1>4. Tokens' = Tokens /\ TokensUnique'
  BY TokensSame DEF SchedInv
<1>5. ASSUME NEW u \in Threads PROVE ThreadInv(u)'
  BY <1>4, SchedulerAssumption
  DEF SchedInv, TypeOK, ThreadInv, FiberInv, Cur, OnFiber, Dead
<1>6. ASSUME NEW f \in Fibers PROVE FiberInv(f)'
  BY <1>4, SchedulerAssumption
  DEF SchedInv, TypeOK, ThreadInv, FiberInv, Cur, OnFiber, Dead
<1>7. QED
  BY <1>1, <1>2, <1>3, <1>4, <1>5, <1>6 DEF SchedInv

\* The callback runs on a fiber nobody else refers to.
LEMMA SwapInCbInv ==
    ASSUME SchedInv, NEW t \in Threads, SwapInCb(t) PROVE SchedInv'
<1> USE DEF SwapInCb
<1>1. TypeOK'
  BY DEF SchedInv, TypeOK, PC, FiberState
<1>2. ActiveCount'
  <2>1. Active' = Active
    BY DEF SchedInv, TypeOK, Active
  <2>2. QED
    BY <2>1, ActiveSame DEF SchedInv
<1>3. StoppedOff'
  BY DEF SchedInv, TypeOK, StoppedOff
<1>4. Tokens' = Tokens /\ TokensUnique'
  BY TokensSame DEF SchedInv
<1>5. ASSUME NEW u \in Threads PROVE ThreadInv(u)'
  BY <1>4, SchedulerAssumption
  DEF SchedInv, TypeOK, ThreadInv, FiberInv, Cur, OnFiber, Dead
<1>6. ASSUME NEW f \in Fibers PROVE FiberInv(f)'
  BY <1>4, SchedulerAssumption
  DEF SchedInv, TypeOK, ThreadInv, FiberInv, Cur, OnFiber, Dead
<1>7. QED
  BY <1>1, <1>2, <1>3, <1>4, <1>5, <1>6 DEF SchedInv

\* The fiber stays RUNING and keeps its wake-up.
LEMMA SwapOutInv ==
    ASSUME SchedInv, NEW t \in Threads, SwapOut(t) PROVE SchedInv'
<1> USE DEF SwapOut
<1>1. TypeOK'
  BY DEF SchedInv, TypeOK, PC, FiberState
<1>2. ActiveCount'
  <2>1. Active' = Active
    BY DEF SchedInv, TypeOK, Active
  <2>2. QED
    BY <2>1, ActiveSame DEF SchedInv
<1>3. StoppedOff'
  BY DEF SchedInv, TypeOK, StoppedOff
<1>4. Tokens' = Tokens /\ TokensUnique'
  BY TokensSame DEF SchedInv
<1>5. ASSUME NEW u \in Threads PROVE ThreadInv(u)'
  BY <1>4, SchedulerAssumption
  DEF SchedInv, TypeOK, ThreadInv, FiberInv, Cur, OnFiber, Dead
<1>6. ASSUME NEW f \in Fibers PROVE FiberInv(f)'
  BY <1>4, SchedulerAssumption
  DEF SchedInv, TypeOK, ThreadInv, FiberInv, Cur, OnFiber, Dead
<1>7. QED
  BY <1>1, <1>2, <1>3, <1>4, <1>5, <1>6 DEF SchedInv

\* A fiber that yields has no wake-up, so it will be scheduled once.
LEMMA YieldInv ==
    ASSUME SchedInv, NEW t \in Threads, Yield(t) PROVE SchedInv'
<1> USE DEF Yield
<1>1. TypeOK'
  BY DEF SchedInv, TypeOK, PC, FiberState
<1>2. ActiveCount'
  <2>1. Active' = Active
    BY DEF SchedInv, TypeOK, Active
  <2>2. QED
    BY <2>1, ActiveSame DEF SchedInv
<1>3. StoppedOff'
  BY DEF SchedInv, TypeOK, StoppedOff
<1>4. Tokens' = Tokens /\ TokensUnique'
  BY TokensSame DEF SchedInv
<1>5. ASSUME NEW u \in Threads PROVE ThreadInv(u)'
  BY <1>4, SchedulerAssumption
  DEF SchedInv, TypeOK, ThreadInv, FiberInv, Cur, OnFiber, Dead
<1>6. ASSUME NEW f \in Fibers PROVE FiberInv(f)'
  BY <1>4, SchedulerAssumption
  DEF SchedInv, TypeOK, ThreadInv, FiberInv, Cur, OnFiber, Dead
<1>7. QED
  BY <1>1, <1>2, <1>3, <1>4, <1>5, <1>6 DEF SchedInv

\* A finished fiber may keep a wake-up only if it is not a cb_fiber.
LEMMA FinishInv ==
    ASSUME SchedInv, NEW t \in Threads, Finish(t) PROVE SchedInv'
<1> USE DEF Finish
<1>1. TypeOK'
  BY DEF SchedInv, TypeOK, PC, FiberState, Dead
<1>2. ActiveCount'
  <2>1. Active' = Active
    BY DEF SchedInv, TypeOK, Active
  <2>2. QED
    BY <2>1, ActiveSame DEF SchedInv
<1>3. StoppedOff'
  BY DEF SchedInv, TypeOK, StoppedOff
<1>4. Tokens' = Tokens /\ TokensUnique'
  BY TokensSame DEF SchedInv
<1>5. ASSUME NEW u \in Threads PROVE ThreadInv(u)'
  BY <1>4, SchedulerAssumption
  DEF SchedInv, TypeOK, ThreadInv, FiberInv, Cur, OnFiber, Dead
<1>6. ASSUME NEW f \in Fibers PROVE FiberInv(f)'
  BY <1>4, SchedulerAssumption
  DEF SchedInv, TypeOK, ThreadInv, FiberInv, Cur, OnFiber, Dead
<1>7. QED
  BY <1>1, <1>2, <1>3, <1>4, <1>5, <1>6 DEF SchedInv

\* run() leaves with an INIT cb_fiber that has no wake-up, or none.
LEMMA ExitInv ==
    ASSUME SchedInv, NEW t \in Threads, Exit(t) PROVE SchedInv'
<1> USE DEF Exit
<1>1. TypeOK'
  BY DEF SchedInv, TypeOK, PC, FiberState
<1>2. ActiveCount'
  <2>1. Active' = Active
    BY DEF SchedInv, TypeOK, Active
  <2>2. QED
    BY <2>1, ActiveSame DEF SchedInv
<1>3. StoppedOff'
  BY DEF SchedInv, TypeOK, StoppedOff
<1>4. Tokens' = Tokens /\ TokensUnique'
  BY TokensSame DEF SchedInv
<1>5. ASSUME NEW u \in Threads PROVE ThreadInv(u)'
  BY <1>4, SchedulerAssumption
  DEF SchedInv, TypeOK, ThreadInv, FiberInv, Cur, OnFiber, Dead
<1>6. ASSUME NEW f \in Fibers PROVE FiberInv(f)'
  BY <1>4, SchedulerAssumption
  DEF SchedInv, TypeOK, ThreadInv, FiberInv, Cur, OnFiber, Dead
<1>7. QED
  BY <1>1, <1>2, <1>3, <1>4, <1>5, <1>6 DEF SchedInv

\* Every thread is off afterwards, and none held a fiber.
LEMMA JoinInv ==
    ASSUME SchedInv, Join PROVE SchedInv'
<1> USE DEF Join
<1>1. TypeOK'
  BY DEF SchedInv, TypeOK, PC, FiberState
<1>2. ActiveCount'
  <2>1. Active' = Active
    BY DEF SchedInv, TypeOK, Active
  <2>2. QED
    BY <2>1, ActiveSame DEF SchedInv
<1>3. StoppedOff'
  BY DEF SchedInv, TypeOK, StoppedOff
<1>4. Tokens' = Tokens /\ TokensUnique'
  BY TokensSame DEF SchedInv
<1>5. ASSUME NEW u \in Threads PROVE ThreadInv(u)'
  BY <1>4, SchedulerAssumption
  DEF SchedInv, TypeOK, ThreadInv, FiberInv, Cur, OnFiber, Dead
<1>6. ASSUME NEW f \in Fibers PROVE FiberInv(f)'
  BY <1>4, SchedulerAssumption
  DEF SchedInv, TypeOK, ThreadInv, FiberInv, Cur, OnFiber, Dead
<1>7. QED
  BY <1>1, <1>2, <1>3, <1>4, <1>5, <1>6 DEF SchedInv

\* Only the idle fiber changes.
LEMMA IdleInv ==
    ASSUME SchedInv, NEW t \in Threads, Idle(t) PROVE SchedInv'
<1> USE DEF Idle
<1>1. TypeOK'
  BY DEF SchedInv, TypeOK, PC, FiberState
<1>2. ActiveCount'
  <2>1. Active' = Active
    BY DEF SchedInv, TypeOK, Active
  <2>2. QED
    BY <2>1, ActiveSame DEF SchedInv
<1>3. StoppedOff'
  BY DEF SchedInv, TypeOK, StoppedOff
<1>4. Tokens' = Tokens /\ TokensUnique'
  BY TokensSame DEF SchedInv
<1>5. ASSUME NEW u \in Threads PROVE ThreadInv(u)'
  BY <1>4, SchedulerAssumption
  DEF SchedInv, TypeOK, ThreadInv, FiberInv, Cur, OnFiber, Dead
<1>6. ASSUME NEW f \in Fibers PROVE FiberInv(f)'
  BY <1>4, SchedulerAssumption
  DEF SchedInv, TypeOK, ThreadInv, FiberInv, Cur, OnFiber, Dead
<1>7. QED
  BY <1>1, <1>2, <1>3, <1>4, <1>5, <1>6 DEF SchedInv

\* The thread leaves the set of active threads.
LEMMA BackInv ==
    ASSUME SchedInv, NEW t \in Threads, Back(t) PROVE SchedInv'
<1> USE DEF Back
<1>1. ActiveCount' /\ m_activeThreadCount' \in Nat
  <2>1. t \in Active /\ Active' = Active \ {t}
    BY DEF SchedInv, TypeOK, Active
  <2>2. QED
    BY <2>1, ActiveDown DEF SchedInv
<1>2. TypeOK'
  BY <1>1 DEF SchedInv, TypeOK, PC
<1>3. StoppedOff'
  BY DEF SchedInv, TypeOK, StoppedOff
<1>4. Tokens' = Tokens /\ TokensUnique'
  BY TokensSame DEF SchedInv
<1>5. ASSUME NEW u \in Threads PROVE ThreadInv(u)'
  BY <1>4, SchedulerAssumption
  DEF SchedInv, TypeOK, ThreadInv, FiberInv, Cur, OnFiber, Dead
<1>6. ASSUME NEW f \in Fibers PROVE FiberInv(f)'
  BY <1>4, SchedulerAssumption
  DEF SchedInv, TypeOK, ThreadInv, FiberInv, Cur, OnFiber, Dead
<1>7. QED
  BY <1>1, <1>2, <1>3, <1>4, <1>5, <1>6 DEF SchedInv

\* A finished fiber whose last wake-up was this one.
LEMMA DiscardInv ==
    ASSUME SchedInv, NEW t \in Threads, Discard(t) PROVE SchedInv'
<1> USE DEF Discard
<1>0. m_state' = IF \E u \in Threads \ {t} : ft[u] = ft[t] THEN m_state
                 ELSE [m_state EXCEPT ![ft[t]] = "NONE"]
  <2>1. ft[t] \in Fibers /\ ft[t] \notin Tokens
    BY DEF SchedInv, TypeOK, ThreadInv
  <2>2. QED
    BY <2>1 DEF Drop, Tokens
<1>1. ActiveCount' /\ m_activeThreadCount' \in Nat
  <2>1. t \in Active /\ Active' = Active \ {t}
    BY DEF SchedInv, TypeOK, Active
  <2>2. QED
    BY <2>1, ActiveDown DEF SchedInv
<1>2. TypeOK'
  BY <1>0, <1>1 DEF SchedInv, TypeOK, PC, FiberState
<1>3. StoppedOff'
  BY DEF SchedInv, TypeOK, StoppedOff
<1>4. Tokens' = Tokens /\ TokensUnique'
  BY TokensSame DEF SchedInv
<1>5. ASSUME NEW u \in Threads PROVE ThreadInv(u)'
  BY <1>0, <1>4, SchedulerAssumption
  DEF SchedInv, TypeOK, ThreadInv, FiberInv, Cur, OnFiber, Dead
<1>6. ASSUME NEW f \in Fibers PROVE FiberInv(f)'
  BY <1>0, <1>4, SchedulerAssumption
  DEF SchedInv, TypeOK, ThreadInv, FiberInv, Cur, OnFiber, Dead
<1>7. QED
  BY <1>1, <1>2, <1>3, <1>4, <1>5, <1>6 DEF SchedInv

\* A callback is no wake-up of a fiber.
LEMMA ScheduleCbInv ==
    ASSUME SchedInv, NEW th \in Pins, ScheduleCb(th) PROVE SchedInv'
<1> USE DEF ScheduleCb
<1>1. ActiveCount'
  <2>1. Active' = Active
    BY DEF Active
  <2>2. QED
    BY <2>1, ActiveSame DEF SchedInv
<1>4. m_fibers' \in Seq(Task) /\ Tokens' = Tokens /\ TokensUnique'
  <2>1. th \in Threads \cup {AnyThread} /\ NoFiber \notin Fibers
    BY SchedulerAssumption
  <2>2. NoFiber \notin armed'
    BY <2>1 DEF SchedInv, TypeOK
  <2>3. /\ m_fibers' \in Seq(Task) /\ TokensUnique'
        /\ Tokens' = {g \in Fibers : g \in armed' \/ Queued(g) \/ g = NoFiber}
    BY <2>1, <2>2, PushTokens DEF SchedInv
  <2>4. QED
    BY <2>1, <2>3 DEF Tokens
<1>2. TypeOK'
  BY <1>4, SchedulerAssumption DEF SchedInv, TypeOK
<1>3. StoppedOff'
  BY DEF SchedInv, TypeOK, StoppedOff
<1>5. ASSUME NEW u \in Threads PROVE ThreadInv(u)'
  BY <1>4, SchedulerAssumption
  DEF SchedInv, TypeOK, ThreadInv, FiberInv, Cur, OnFiber, Dead
<1>6. ASSUME NEW f \in Fibers PROVE FiberInv(f)'
  BY <1>4, SchedulerAssumption
  DEF SchedInv, TypeOK, ThreadInv, FiberInv, Cur, OnFiber, Dead
<1>7. QED
  BY <1>1, <1>2, <1>3, <1>4, <1>5, <1>6 DEF SchedInv

\* The wake-up moves from the waker to the list.
LEMMA FireInv ==
    ASSUME SchedInv, NEW f \in Fibers, Fire(f) PROVE SchedInv'
<1> USE DEF Fire
<1>1. ActiveCount'
  <2>1. Active' = Active
    BY DEF Active
  <2>2. QED
    BY <2>1, ActiveSame DEF SchedInv
<1>4. m_fibers' \in Seq(Task) /\ Tokens' = Tokens /\ TokensUnique'
  <2>1. ~Queued(f) /\ f \notin armed'
    BY DEF SchedInv, TokensUnique
  <2>2. /\ m_fibers' \in Seq(Task) /\ TokensUnique'
        /\ Tokens' = {g \in Fibers : g \in armed' \/ Queued(g) \/ g = f}
    BY <2>1, PushTokens DEF SchedInv
  <2>3. QED
    BY <2>2 DEF Tokens
<1>2. TypeOK'
  BY <1>4 DEF SchedInv, TypeOK
<1>3. StoppedOff'
  BY DEF SchedInv, TypeOK, StoppedOff
<1>5. ASSUME NEW u \in Threads PROVE ThreadInv(u)'
  BY <1>4, SchedulerAssumption
  DEF SchedInv, TypeOK, ThreadInv, FiberInv, Cur, OnFiber, Dead
<1>6. ASSUME NEW g \in Fibers PROVE FiberInv(g)'
  BY <1>4, SchedulerAssumption
  DEF SchedInv, TypeOK, ThreadInv, FiberInv, Cur, OnFiber, Dead
<1>7. QED
  BY <1>1, <1>2, <1>3, <1>4, <1>5, <1>6 DEF SchedInv

\* The wake-up moves from the list to the thread.
LEMMA TakeInv ==
    ASSUME SchedInv, NEW t \in Threads, Take(t) PROVE SchedInv'
<1> USE DEF Take
<1>0. PICK i \in DOMAIN m_fibers :
         /\ Runnable(t, m_fibers[i])
         /\ ft' = [ft EXCEPT ![t] = m_fibers[i].fiber]
         /\ m_fibers' = RemoveAt(m_fibers, i)
  BY DEF Picks
<1> DEFINE g == m_fibers[i].fiber
<1>1. ActiveCount'
  <2>1. t \notin Active /\ Active' = Active \cup {t}
    BY DEF SchedInv, TypeOK, Active
  <2>2. QED
    BY <2>1, ActiveUp DEF SchedInv
<1>4. /\ m_fibers' \in Seq(Task) /\ g \in Fibers \cup {NoFiber}
      /\ g \in Fibers => g \in Tokens /\ m_state[g] # "RUNING"
      /\ Tokens' = Tokens \ {g} /\ TokensUnique'
  <2>1. g # NoFiber => m_state[g] # "RUNING"
    BY <1>0 DEF Runnable
  <2>2. QED
    BY <1>0, <2>1, EraseTokens, SchedulerAssumption DEF SchedInv
<1> HIDE DEF g
<1>8. ft' = [ft EXCEPT ![t] = g]
  BY <1>0 DEF g
<1>2. TypeOK'
  BY <1>4, <1>8 DEF SchedInv, TypeOK, PC
<1>3. StoppedOff'
  BY DEF SchedInv, TypeOK, StoppedOff
<1>5. ASSUME NEW u \in Threads PROVE ThreadInv(u)'
  BY <1>8, <1>4, SchedulerAssumption
  DEF SchedInv, TypeOK, ThreadInv, FiberInv, Cur, OnFiber, Dead,
      FiberState
<1>6. ASSUME NEW f \in Fibers PROVE FiberInv(f)'
  <2> USE DEF SchedInv, TypeOK, ThreadInv, FiberInv, Cur, OnFiber, Dead
  <2>1. g \in Fibers => \A u \in Threads : cb_fiber[u] # g
    BY <1>4, SchedulerAssumption
  <2>2. CASE f = g
    BY <1>4, <1>8, <2>1, <2>2, SchedulerAssumption
  <2>3. CASE f # g
    BY <1>4, <1>8, <2>3, SchedulerAssumption
  <2>4. QED
    BY <2>2, <2>3
<1>7. QED
  BY <1>1, <1>2, <1>3, <1>4, <1>5, <1>6 DEF SchedInv

\* The running fiber, which had no wake-up, gets one.
LEMMA ArmInv ==
    ASSUME SchedInv, NEW t \in Threads, Arm(t) PROVE SchedInv'
<1> USE DEF Arm
<1> DEFINE g == Cur(t)
<1>1. ActiveCount'
  <2>1. Active' = Active
    BY DEF SchedInv, TypeOK, Active
  <2>2. QED
    BY <2>1, ActiveSame DEF SchedInv
<1>4. /\ g \in Fibers /\ Tokens' = Tokens \cup {g} /\ TokensUnique'
  <2>1. g \in Fibers /\ g \notin Tokens
    BY DEF SchedInv, TypeOK, ThreadInv, OnFiber, Cur
  <2>2. ~Queued(g) /\ \A f : Queued(f)' <=> Queued(f)
    BY <2>1 DEF Tokens, Queued
  <2>3. QED
    BY <2>1, <2>2 DEF Tokens, SchedInv, TokensUnique
<1>2. TypeOK'
  BY <1>4 DEF SchedInv, TypeOK, PC
<1>3. StoppedOff'
  BY DEF SchedInv, TypeOK, StoppedOff
<1>5. ASSUME NEW u \in Threads PROVE ThreadInv(u)'
  BY <1>4, SchedulerAssumption
  DEF SchedInv, TypeOK, ThreadInv, FiberInv, Cur, OnFiber, Dead
<1>6. ASSUME NEW f \in Fibers PROVE FiberInv(f)'
  BY <1>4, SchedulerAssumption
  DEF SchedInv, TypeOK, ThreadInv, FiberInv, Cur, OnFiber, Dead
<1>7. QED
  BY <1>1, <1>2, <1>3, <1>4, <1>5, <1>6 DEF SchedInv

\* READY puts the fiber back on the list; RUNING becomes HOLD with its wake-up
\* outstanding; a finished fiber is dropped if nobody else refers to it.
LEMMA SettleFiberInv ==
    ASSUME SchedInv, NEW t \in Threads, SettleFiber(t) PROVE SchedInv'
<1> USE DEF SettleFiber
<1> DEFINE g == ft[t]
<1>0. g \in Fibers
  BY DEF SchedInv, TypeOK
<1>1. ActiveCount'
  <2>1. Active' = Active
    BY DEF SchedInv, TypeOK, Active
  <2>2. QED
    BY <2>1, ActiveSame DEF SchedInv
<1>3. StoppedOff'
  BY DEF SchedInv, TypeOK, StoppedOff
<1>4. CASE m_state[g] = "READY"
  <2>1. m_state' = m_state /\ g \notin Tokens
    BY <1>0, <1>4 DEF SchedInv, TypeOK, ThreadInv, FiberInv, Cur, OnFiber, Dead
  <2>2. m_fibers' \in Seq(Task) /\ Tokens' = Tokens \cup {g} /\ TokensUnique'
    <3>1. ~Queued(g) /\ g \notin armed /\ armed' = armed
      BY <1>0, <2>1 DEF Tokens
    <3>2. /\ m_fibers' \in Seq(Task) /\ TokensUnique'
          /\ Tokens' = {h \in Fibers : h \in armed' \/ Queued(h) \/ h = g}
      BY <1>0, <1>4, <3>1, PushTokens DEF SchedInv
    <3>3. QED
      BY <1>0, <3>1, <3>2 DEF Tokens
  <2>3. TypeOK'
    BY <1>0, <1>4, <2>1, <2>2 DEF SchedInv, TypeOK, PC
  <2>4. ASSUME NEW u \in Threads PROVE ThreadInv(u)'
    BY <1>0, <1>4, <2>1, <2>2, SchedulerAssumption
    DEF SchedInv, TypeOK, ThreadInv, FiberInv, Cur, OnFiber, Dead
  <2>5. ASSUME NEW f \in Fibers PROVE FiberInv(f)'
    BY <1>0, <1>4, <2>1, <2>2, SchedulerAssumption
    DEF SchedInv, TypeOK, ThreadInv, FiberInv, Cur, OnFiber, Dead
  <2>6. QED
    BY <1>1, <1>3, <2>2, <2>3, <2>4, <2>5 DEF SchedInv
<1>5. CASE m_state[g] # "READY"
  <2>1. Tokens' = Tokens /\ TokensUnique'
    BY <1>0, <1>5, TokensSame DEF SchedInv
  <2>2. \/ m_state[g] \in Dead /\ m_state' =
             IF g \in Tokens \/ \E u \in Threads \ {t} : ft[u] = g
             THEN m_state ELSE [m_state EXCEPT ![g] = "NONE"]
        \/ m_state[g] = "RUNING" /\ m_state' = [m_state EXCEPT ![g] = "HOLD"]
    BY <1>0, <1>5, SchedulerAssumption
    DEF SchedInv, TypeOK, ThreadInv, FiberInv, Cur, OnFiber, Dead, Drop,
        Tokens, FiberState
  <2>3. TypeOK'
    BY <1>0, <1>5, <2>2 DEF SchedInv, TypeOK, PC, FiberState
  <2>4. ASSUME NEW u \in Threads PROVE ThreadInv(u)'
    <3> USE DEF SchedInv, TypeOK, ThreadInv, FiberInv, Cur, OnFiber, Dead
    <3>1. CASE m_state[g] \in Dead
      BY <1>0, <2>1, <2>2, <3>1, SchedulerAssumption
    <3>2. CASE m_state[g] = "RUNING"
      BY <1>0, <2>1, <2>2, <3>2, SchedulerAssumption
    <3>3. QED
      BY <2>2, <3>1, <3>2
  <2>5. ASSUME NEW f \in Fibers PROVE FiberInv(f)'
    <3> USE DEF SchedInv, TypeOK, ThreadInv, FiberInv, Cur, OnFiber, Dead
    <3>1. CASE m_state[g] \in Dead
      BY <1>0, <2>1, <2>2, <3>1, SchedulerAssumption
    <3>2. CASE m_state[g] = "RUNING"
      BY <1>0, <2>1, <2>2, <3>2, SchedulerAssumption
    <3>3. QED
      BY <2>2, <3>1, <3>2
  <2>6. QED
    BY <1>1, <1>3, <2>1, <2>3, <2>4, <2>5 DEF SchedInv
<1>6. QED
  BY <1>4, <1>5

\* The same for cb_fiber, which is kept, reset to INIT, when it finished.
LEMMA SettleCbInv ==
    ASSUME SchedInv, NEW t \in Threads, SettleCb(t) PROVE SchedInv'
<1> USE DEF SettleCb
<1> DEFINE g == cb_fiber[t]
<1>0. g \in Fibers
  BY DEF SchedInv, TypeOK, ThreadInv, OnFiber, Cur
<1>1. ActiveCount'
  <2>1. Active' = Active
    BY DEF SchedInv, TypeOK, Active
  <2>2. QED
    BY <2>1, ActiveSame DEF SchedInv
<1>3. StoppedOff'
  BY DEF SchedInv, TypeOK, StoppedOff
<1>4. CASE m_state[g] = "READY"
  <2>1. m_state' = m_state /\ g \notin Tokens
    BY <1>0, <1>4 DEF SchedInv, TypeOK, ThreadInv, FiberInv, Cur, OnFiber, Dead
  <2>2. m_fibers' \in Seq(Task) /\ Tokens' = Tokens \cup {g} /\ TokensUnique'
    <3>1. ~Queued(g) /\ g \notin armed /\ armed' = armed
      BY <1>0, <2>1 DEF Tokens
    <3>2. /\ m_fibers' \in Seq(Task) /\ TokensUnique'
          /\ Tokens' = {h \in Fibers : h \in armed' \/ Queued(h) \/ h = g}
      BY <1>0, <1>4, <3>1, PushTokens DEF SchedInv
    <3>3. QED
      BY <1>0, <3>1, <3>2 DEF Tokens
  <2>3. TypeOK'
    BY <1>0, <1>4, <2>1, <2>2 DEF SchedInv, TypeOK, PC
  <2>4. ASSUME NEW u \in Threads PROVE ThreadInv(u)'
    BY <1>0, <1>4, <2>1, <2>2, SchedulerAssumption
    DEF SchedInv, TypeOK, ThreadInv, FiberInv, Cur, OnFiber, Dead
  <2>5. ASSUME NEW f \in Fibers PROVE FiberInv(f)'
    BY <1>0, <1>4, <2>1, <2>2, SchedulerAssumption
    DEF SchedInv, TypeOK, ThreadInv, FiberInv, Cur, OnFiber, Dead
  <2>6. QED
    BY <1>1, <1>3, <2>2, <2>3, <2>4, <2>5 DEF SchedInv
<1>5. CASE m_state[g] # "READY"
  <2>1. Tokens' = Tokens /\ TokensUnique'
    BY <1>0, <1>5, TokensSame DEF SchedInv
  <2>2. \/ m_state[g] \in Dead /\ m_state' = [m_state EXCEPT ![g] = "INIT"]
        \/ m_state[g] = "RUNING" /\ m_state' = [m_state EXCEPT ![g] = "HOLD"]
    BY <1>0, <1>5, SchedulerAssumption
    DEF SchedInv, TypeOK, ThreadInv, FiberInv, Cur, OnFiber, Dead, Drop,
        Tokens, FiberState
  <2>3. TypeOK'
    BY <1>0, <1>5, <2>2 DEF SchedInv, TypeOK, PC, FiberState
  <2>4. ASSUME NEW u \in Threads PROVE ThreadInv(u)'
    BY <1>0, <2>1, <2>2, SchedulerAssumption
    DEF SchedInv, TypeOK, ThreadInv, FiberInv, Cur, OnFiber, Dead
  <2>5. ASSUME NEW f \in Fibers PROVE FiberInv(f)'
    BY <1>0, <2>1, <2>2, SchedulerAssumption
    DEF SchedInv, TypeOK, ThreadInv, FiberInv, Cur, OnFiber, Dead
  <2>6. QED
    BY <1>1, <1>3, <2>1, <2>3, <2>4, <2>5 DEF SchedInv
<1>6. QED
  BY <1>4, <1>5

-----------------------------------------------------------------------------
\* Before start() no thread, task or fiber exists.
LEMMA InitInv == Init => SchedInv
<1> SUFFICES ASSUME Init PROVE SchedInv
  OBVIOUS
<1> USE DEF Init
<1>1. TypeOK
  <2>1. <<>> \in Seq(Task)
    OBVIOUS
  <2>2. calls \in 0 .. MaxCalls
    BY SchedulerAssumption
  <2>3. QED
    BY <2>1, <2>2 DEF TypeOK, PC, FiberState
<1>2. ActiveCount
  <2>1. Active = {}
    BY DEF Active
  <2>2. QED
    BY <2>1, FS_EmptySet DEF ActiveCount
<1>3. Tokens = {} /\ TokensUnique
  BY DEF Tokens, Queued, TokensUnique
<1>4. QED
  BY <1>1, <1>2, <1>3, SchedulerAssumption
  DEF SchedInv, StoppedOff, ThreadInv, FiberInv, OnFiber, Dead, Cur

\* The invariant depends on nothing but the variables.
LEMMA StutterInv == SchedInv /\ UNCHANGED vars => SchedInv'
<1> SUFFICES ASSUME SchedInv, UNCHANGED vars PROVE SchedInv'
  OBVIOUS
<1> USE DEF vars
<1>1. Tokens' = Tokens /\ TokensUnique'
  BY TokensSame DEF SchedInv
<1>2. TypeOK' /\ ActiveCount' /\ StoppedOff'
  BY DEF SchedInv, TypeOK, ActiveCount, Active, StoppedOff
<1>3. QED
  BY <1>1, <1>2 DEF SchedInv, ThreadInv, FiberInv, Cur

\* The invariant holds in every reachable state, however many threads, fibers
\* and scheduled callbacks there are.
THEOREM SchedulerInvariant == Spec => []SchedInv
<1>1. SchedInv /\ [Next]_vars => SchedInv'
  <2> SUFFICES ASSUME SchedInv, [Next]_vars PROVE SchedInv'
    OBVIOUS
  <2>1. CASE Owner
    BY <2>1, StartInv, StopAutoInv, StopStoreInv, JoinInv DEF Owner
  <2>2. ASSUME NEW th \in Pins, ScheduleCb(th) PROVE SchedInv'
    BY <2>2, ScheduleCbInv
  <2>3. ASSUME NEW f \in Fibers, Fire(f) PROVE SchedInv'
    BY <2>3, FireInv
  <2>4. ASSUME NEW t \in Threads, Run(t) PROVE SchedInv'
    BY <2>4, TakeInv, TakeNoneInv, SwapInInv, SwapInCbInv, DiscardInv, BackInv,
       SettleFiberInv, SettleCbInv, IdleInv, ExitInv DEF Run
  <2>5. ASSUME NEW t \in Threads, TaskCode(t) PROVE SchedInv'
    BY <2>5, ArmInv, SwapOutInv, YieldInv, FinishInv DEF TaskCode
  <2>6. CASE UNCHANGED vars
    BY <2>6, StutterInv
  <2>7. QED
    BY <2>1, <2>2, <2>3, <2>4, <2>5, <2>6 DEF Next
<1>2. QED
  BY InitInv, <1>1, PTL DEF Spec

\* No fiber's stack is ever used by two threads (run(), Scheduler.cc:99, 114-124):
\* reading m_state outside m_mutex is enough.
THEOREM OneRunnerAlways == Spec => []OneRunner
<1>1. SchedInv => OneRunner
  BY SchedulerAssumption
  DEF SchedInv, TypeOK, ThreadInv, FiberInv, OneRunner, Claims, OnFiber, Cur, Dead
<1>2. QED
  BY <1>1, SchedulerInvariant, PTL

\* Every variable keeps its type; m_activeThreadCount never goes below zero.
THEOREM TypeCorrect == Spec => []TypeOK
<1>1. SchedInv => TypeOK
  BY DEF SchedInv
<1>2. QED
  BY <1>1, SchedulerInvariant, PTL

\* The count that stopping() trusts is exact, so it is never decremented below 0.
THEOREM ActiveCountAlways == Spec => []ActiveCount
<1>1. SchedInv => ActiveCount
  BY DEF SchedInv
<1>2. QED
  BY <1>1, SchedulerInvariant, PTL

\* A suspended fiber has exactly one wake-up outstanding, whether its waker ran
\* before or after it swapped out (schedule() in scheduler.h:25-50 against
\* run(), Scheduler.cc:99-124): never none, never two.
THEOREM NoLostWakeupAlways == Spec => []NoLostWakeup
<1>1. SchedInv => NoLostWakeup
  <2> SUFFICES ASSUME SchedInv, NEW f \in Fibers
               PROVE /\ m_state[f] = "HOLD" => \E x \in Wakeups(f) : Wakeups(f) = {x}
                     /\ m_state[f] = "RUNING" =>
                          \E t \in Threads : pc[t] \in OnFiber /\ Cur(t) = f
    BY DEF NoLostWakeup
  <2> USE DEF SchedInv
  <2>1. m_state[f] = "RUNING" => \E t \in Threads : pc[t] \in OnFiber /\ Cur(t) = f
    BY DEF FiberInv
  <2>2. ASSUME m_state[f] = "HOLD" PROVE \E x \in Wakeups(f) : Wakeups(f) = {x}
    <3> DEFINE W == armed \cap {f}
               E == {j \in DOMAIN m_fibers : m_fibers[j].fiber = f}
               D == {u \in Threads : pc[u] = "dispatch" /\ ft[u] = f}
    <3>0. /\ Wakeups(f) = {<<"waker", g>> : g \in W} \cup {<<"entry", i>> : i \in E}
                             \cup {<<"thread", t>> : t \in D}
          /\ f # NoFiber
      BY SchedulerAssumption DEF Wakeups
    <3>1. D # {} => W = {} /\ E = {} /\ \E t : D = {t}
      <4> SUFFICES ASSUME NEW t \in Threads, pc[t] = "dispatch", ft[t] = f
                   PROVE  W = {} /\ E = {} /\ D = {t}
        OBVIOUS
      <4>1. f \notin Tokens
        BY <3>0 DEF ThreadInv
      <4>2. W = {} /\ E = {}
        BY <4>1 DEF Tokens, Queued
      <4>3. \A u \in Threads : ft[u] = f => u = t
        BY <2>2 DEF FiberInv, Dead
      <4>4. QED
        BY <4>2, <4>3
    <3>2. E # {} => W = {} /\ \E i : E = {i}
      BY <3>0 DEF TokensUnique, Queued
    <3>3. W # {} => W = {f}
      OBVIOUS
    <3>4. W # {} \/ E # {} \/ D # {}
      BY <2>2 DEF FiberInv, Tokens, Queued
    <3> HIDE DEF W, E, D
    <3>5. CASE D # {}
      <4>1. PICK t : D = {t} /\ W = {} /\ E = {}
        BY <3>1, <3>5
      <4>2. Wakeups(f) = {<<"thread", t>>}
        BY <3>0, <4>1
      <4>3. QED
        BY <4>2
    <3>6. CASE D = {} /\ E # {}
      <4>1. PICK i : E = {i} /\ W = {} /\ D = {}
        BY <3>2, <3>6
      <4>2. Wakeups(f) = {<<"entry", i>>}
        BY <3>0, <4>1
      <4>3. QED
        BY <4>2
    <3>7. CASE D = {} /\ E = {}
      <4>1. W = {f}
        BY <3>3, <3>4, <3>7
      <4>2. Wakeups(f) = {<<"waker", f>>}
        BY <3>0, <3>7, <4>1
      <4>3. QED
        BY <4>2
    <3>8. QED
      BY <3>5, <3>6, <3>7
  <2>3. QED
    BY <2>1, <2>2
<1>2. QED
  BY <1>1, SchedulerInvariant, PTL

=============================================================================
