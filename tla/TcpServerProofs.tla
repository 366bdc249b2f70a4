--------------------------- MODULE TcpServerProofs ---------------------------
(***************************************************************************)
(* Proofs about TcpServer: on any number of accept threads, whatever       *)
(* start(), stop() and the clients do, an accept fiber waits for an event  *)
(* that will be reported or cancelled, unless it registered after close()  *)
(* had cancelled, or was replaced.  What close() has cancelled stays so    *)
(* until the descriptor is closed, but for the fibers that come too late.  *)
(***************************************************************************)
EXTENDS TcpServer, SequenceTheorems, WellFoundedInduction, TLAPS

-----------------------------------------------------------------------------
(* The inductive invariant                                                 *)

\* A fiber that is somewhere was scheduled by start().
Scheduled == \A k \in AcceptTasks : at[k] # "none" => k[3] <= starts

\* Who is registered for a socket waits, and for this one.
Registered ==
    \A s \in Socks : waiter[s] # None => at[waiter[s]] = "wait" /\ waiter[s][2] = s

\* One task of stop() at a time.
OneStop ==
    \A k, l \in StopTasks :
        at[k] \notin {"none", "ended"} /\ at[l] \notin {"none", "ended"} => k = l

\* Between the last cancelAll() and close_f, only a fiber that is lost has registered.
Cancelled ==
    \A k \in StopTasks : at[k] = "close" /\ Left # {} =>
        waiter[Current] = None \/ waiter[Current] \in lost

TcpInv ==
    /\ TcpTypeOK
    /\ Scheduled
    /\ Registered
    /\ NoOrphan
    /\ OneStop
    /\ Cancelled

-----------------------------------------------------------------------------
(* Facts about tasks and sockets                                           *)

LEMMA TaskFacts ==
    /\ \A k \in AcceptTasks : /\ k \in Tasks /\ k # None /\ k \notin StopTasks
                              /\ k[2] \in Socks /\ k[3] \in 1 .. MaxStarts
                              /\ k = <<"accept", k[2], k[3]>>
    /\ \A k \in StopTasks : /\ k \in Tasks /\ k # None /\ k \notin AcceptTasks
                            /\ k[2] \in 1 .. MaxStops /\ k = <<"stop", k[2]>>
    /\ \A s \in Socks : \A n \in 1 .. MaxStarts : <<"accept", s, n>> \in AcceptTasks
    /\ \A n \in 1 .. MaxStops : <<"stop", n>> \in StopTasks
    /\ \A k \in Tasks : k \in AcceptTasks \/ k \in StopTasks
<1>1. ASSUME NEW k \in AcceptTasks
      PROVE  k \in Tasks /\ k # None /\ k \notin StopTasks /\ k[2] \in Socks
             /\ k[3] \in 1 .. MaxStarts /\ k = <<"accept", k[2], k[3]>>
  <2>1. PICK s \in Socks, n \in 1 .. MaxStarts : k = <<"accept", s, n>>
    BY DEF AcceptTasks
  <2>2. \A m : <<"accept", s, n>> # <<"stop", m>>
    OBVIOUS
  <2>3. QED
    BY <2>1, <2>2 DEF Tasks, StopTasks, None
<1>2. ASSUME NEW k \in StopTasks
      PROVE  k \in Tasks /\ k # None /\ k \notin AcceptTasks
             /\ k[2] \in 1 .. MaxStops /\ k = <<"stop", k[2]>>
  <2>1. PICK n \in 1 .. MaxStops : k = <<"stop", n>>
    BY DEF StopTasks
  <2>2. k \notin AcceptTasks
    BY <1>1
  <2>3. QED
    BY <2>1, <2>2 DEF Tasks, None
<1>3. QED
  BY <1>1, <1>2 DEF AcceptTasks, StopTasks, Tasks

\* A set of natural numbers that is not empty has a least one.
LEMMA LeastOf ==
    ASSUME NEW T, T \subseteq Nat, T # {}
    PROVE  \E n \in T : \A k \in T : n <= k
<1> DEFINE R == {ss \in Nat \X Nat : ss[1] < ss[2]}
<1>1. IsWellFoundedOn(R, Nat)
  BY NatLessThanWellFounded, Zenon DEF OpToRel
<1>2. PICK n \in T : \A k \in T : ~(<<k, n>> \in R)
  <2> HIDE DEF R
  <2> QED
    BY <1>1, WFMin
<1>3. ASSUME NEW k \in T, k < n PROVE FALSE
  <2>1. <<k, n>> \in Nat \X Nat /\ <<k, n>>[1] < <<k, n>>[2]
    BY <1>3
  <2>2. <<k, n>> \in R
    BY <2>1
  <2>3. QED
    BY <1>2, <2>2
<1>4. QED
  BY <1>3

\* The socket stop()'s task is at is an open one of the server; at the end none is left.
LEMMA CurrentFacts ==
    TcpTypeOK => /\ Left # {} => Current \in Socks /\ Current \in open
                 /\ Left = {} => \A s \in open : s \notin ToSet(m_socks)
<1> SUFFICES ASSUME TcpTypeOK
             PROVE  /\ Left # {} => Current \in Socks /\ Current \in open
                    /\ Left = {} => \A s \in open : s \notin ToSet(m_socks)
  OBVIOUS
<1>1. m_socks \in Seq(Socks) /\ Left \subseteq Nat /\ DOMAIN m_socks \subseteq Nat
  <2>1. m_socks \in Seq(Socks)
    BY DEF TcpTypeOK
  <2>2. DOMAIN m_socks = 1 .. Len(m_socks) /\ Len(m_socks) \in Nat
    BY <2>1, LenProperties
  <2>3. QED
    BY <2>1, <2>2 DEF Left
<1>2. ASSUME Left # {} PROVE Current \in Socks /\ Current \in open
  <2>1. PICK i \in Left : \A j \in Left : i <= j
    BY <1>1, <1>2, LeastOf
  <2>2. (CHOOSE l \in Left : \A j \in Left : l <= j) \in Left
    BY <2>1
  <2>3. QED
    BY <2>2, <1>1, ElementOfSeq, LenProperties DEF Current, Left
<1>3. Left = {} => \A s \in open : s \notin ToSet(m_socks)
  BY DEF Left, ToSet
<1>4. QED
  BY <1>2, <1>3

-----------------------------------------------------------------------------
(* Types                                                                   *)

Locs == {"none", "test", "accept", "arm", "wait", "cancel", "cancel again", "close", "ended"}

\* The types of what callers and of what the worker's tasks change.
ServerTypes ==
    /\ m_isStop \in BOOLEAN
    /\ m_socks \in Seq(Socks) /\ open \subseteq Socks
    /\ starts \in 0 .. MaxStarts /\ stops \in 0 .. MaxStops
TaskTypes ==
    /\ queue \in Seq(Tasks)
    /\ on \in [Threads -> Tasks \cup {None}]
    /\ at \in [Tasks -> Locs]
    /\ waiter \in [Socks -> AcceptTasks \cup {None}] /\ lost \subseteq AcceptTasks
ClientTypes == client \in [Clients -> Socks \cup {"out", "accepted", "refused"}]

LEMMA TcpTypeParts == TcpTypeOK <=> ServerTypes /\ TaskTypes /\ ClientTypes
BY DEF TcpTypeOK, ServerTypes, TaskTypes, ClientTypes, Locs

LEMMA GotoTypes ==
    ASSUME TaskTypes, NEW t \in Threads, NEW loc \in Locs, Goto(t, loc)
    PROVE  at' \in [Tasks -> Locs] /\ on' \in [Threads -> Tasks \cup {None}]
BY DEF TaskTypes, Goto

LEMMA TriggerTypes ==
    ASSUME TaskTypes, NEW s \in Socks, Trigger(s)
    PROVE  /\ queue' \in Seq(Tasks)
           /\ waiter' \in [Socks -> AcceptTasks \cup {None}]
           /\ Woken(s) \in [Tasks -> Locs]
<1>1. waiter[s] = None \/ waiter[s] \in Tasks
  BY TaskFacts DEF TaskTypes
<1>2. queue' \in Seq(Tasks)
  BY <1>1, AppendProperties DEF TaskTypes, Trigger
<1>3. waiter' \in [Socks -> AcceptTasks \cup {None}]
  BY DEF TaskTypes, Trigger
<1>4. "accept" \in Locs
  BY DEF Locs
<1>5. Woken(s) \in [Tasks -> Locs]
  BY <1>1, <1>4 DEF TaskTypes, Woken
<1>6. QED
  BY <1>2, <1>3, <1>5

LEMMA NewTasks ==
    ASSUME ServerTypes, starts < MaxStarts,
           NEW new, new = [i \in DOMAIN m_socks |-> <<"accept", m_socks[i], starts + 1>>]
    PROVE  /\ new \in Seq(AcceptTasks) /\ new \in Seq(Tasks)
           /\ \A k : Contains(new, k) =>
                 k \in AcceptTasks /\ k[3] = starts + 1 /\ k[2] \in ToSet(m_socks)
           /\ \A i \in DOMAIN new : Contains(new, new[i])
<1>1. m_socks \in Seq(Socks) /\ starts + 1 \in 1 .. MaxStarts
  BY TcpAssumption DEF ServerTypes
<1>2. DOMAIN m_socks = 1 .. Len(m_socks) /\ Len(m_socks) \in Nat
  BY <1>1, LenProperties
<1>3. \A i \in 1 .. Len(m_socks) : m_socks[i] \in Socks /\ new[i] \in AcceptTasks
  BY <1>1, <1>2, ElementOfSeq, TaskFacts
<1>4. new \in Seq(AcceptTasks) /\ Len(new) = Len(m_socks) /\ DOMAIN new = 1 .. Len(m_socks)
  BY <1>2, <1>3
<1>5. new \in Seq(Tasks)
  BY <1>4, SeqMonotonic DEF Tasks
<1>6. ASSUME NEW k, Contains(new, k)
      PROVE  k \in AcceptTasks /\ k[3] = starts + 1 /\ k[2] \in ToSet(m_socks)
  <2>1. PICK i \in 1 .. Len(m_socks) : new[i] = k
    BY <1>4, <1>6 DEF Contains
  <2>2. k = <<"accept", m_socks[i], starts + 1>>
    BY <2>1, <1>2
  <2>3. k[2] = m_socks[i] /\ k[3] = starts + 1
    BY <2>2
  <2>4. QED
    BY <2>1, <2>3, <1>2, <1>3 DEF ToSet
<1>7. QED
  BY <1>4, <1>5, <1>6 DEF Contains

LEMMA ServerTypesStep ==
    ASSUME TcpTypeOK, [TcpNext]_tvars PROVE ServerTypes'
<1>1. ServerTypes
  BY TcpTypeParts
<1> USE <1>1 DEF ServerTypes
<1>2. ASSUME NEW s \in Socks, bind(s) PROVE ServerTypes'
  BY <1>2, AppendProperties DEF bind, uvars
<1>3. CASE bindFails
  BY <1>3 DEF bindFails, uvars
<1>4. CASE start \/ stop
  <2>1. /\ m_isStop' \in BOOLEAN /\ UNCHANGED <<m_socks, open>>
        /\ \/ starts < MaxStarts /\ starts' = starts + 1 /\ stops' = stops
           \/ stops < MaxStops /\ stops' = stops + 1 /\ starts' = starts
    BY <1>4 DEF start, stop
  <2>2. starts' \in 0 .. MaxStarts /\ stops' \in 0 .. MaxStops
    BY <2>1, TcpAssumption
  <2>3. QED
    BY <2>1, <2>2
<1>6. ASSUME NEW s \in Socks, Readable(s) PROVE ServerTypes'
  BY <1>6 DEF Readable, uvars
<1>7. ASSUME NEW c \in Clients, Arrive(c) PROVE ServerTypes'
  BY <1>7 DEF Arrive, uvars
<1>8. ASSUME NEW t \in Threads, Worker(t) PROVE ServerTypes'
  <2>1. CASE Take(t) \/ Test(t) \/ Accept(t) \/ Arm(t) \/ Cancel(t)
    BY <2>1 DEF Take, Test, Accept, Arm, Cancel, uvars
  <2>2. CASE Close(t)
    BY <2>2 DEF Close, uvars
  <2>3. CASE Cleared(t)
    BY <2>3 DEF Cleared, uvars
  <2>4. QED
    BY <1>8, <2>1, <2>2, <2>3 DEF Worker
<1>9. CASE UNCHANGED tvars
  BY <1>9 DEF tvars, uvars
<1>10. QED
  BY <1>2, <1>3, <1>4, <1>6, <1>7, <1>8, <1>9 DEF TcpNext

LEMMA TaskTypesStep ==
    ASSUME TcpTypeOK, [TcpNext]_tvars PROVE TaskTypes'
<1>1. ServerTypes /\ TaskTypes
  BY TcpTypeParts
<1>2. ASSUME NEW s \in Socks, bind(s) PROVE TaskTypes'
  BY <1>1, <1>2 DEF bind, TaskTypes
<1>3. CASE bindFails
  BY <1>1, <1>3 DEF bindFails, TaskTypes
<1>4. CASE start
  <2> DEFINE new == [i \in DOMAIN m_socks |-> <<"accept", m_socks[i], starts + 1>>]
  <2>1. starts < MaxStarts /\ queue' = queue \o new /\ UNCHANGED <<on, waiter, lost>>
        /\ at' = [k \in Tasks |-> IF Contains(new, k) THEN "test" ELSE at[k]]
    BY <1>4 DEF start
  <2>2. new \in Seq(Tasks)
    BY <1>1, <2>1, NewTasks
  <2> HIDE DEF new
  <2>3. queue' \in Seq(Tasks)
    BY <1>1, <2>1, <2>2, ConcatProperties DEF TaskTypes
  <2>4. at' \in [Tasks -> Locs]
    BY <1>1, <2>1 DEF TaskTypes, Locs
  <2>5. QED
    BY <1>1, <2>1, <2>3, <2>4 DEF TaskTypes
<1>5. CASE stop
  <2>1. <<"stop", stops + 1>> \in Tasks /\ "cancel" \in Locs
    BY <1>1, <1>5, TaskFacts, TcpAssumption DEF stop, ServerTypes, Locs
  <2>2. queue' \in Seq(Tasks)
    BY <1>1, <1>5, <2>1, AppendProperties DEF stop, TaskTypes
  <2>3. QED
    BY <1>1, <1>5, <2>1, <2>2 DEF stop, TaskTypes
<1>6. ASSUME NEW s \in Socks, Readable(s) PROVE TaskTypes'
  BY <1>1, <1>6, TriggerTypes DEF Readable, TaskTypes
<1>7. ASSUME NEW c \in Clients, Arrive(c) PROVE TaskTypes'
  BY <1>1, <1>7 DEF Arrive, TaskTypes
<1>8. ASSUME NEW t \in Threads, Take(t) PROVE TaskTypes'
  <2>1. Head(queue) \in Tasks /\ Tail(queue) \in Seq(Tasks)
    BY <1>1, <1>8, HeadTailProperties DEF Take, TaskTypes
  <2>2. QED
    BY <1>1, <1>8, <2>1 DEF Take, TaskTypes
<1>9. ASSUME NEW t \in Threads, Test(t) \/ Accept(t) \/ Arm(t) PROVE TaskTypes'
  <2>1. /\ \E loc \in Locs : Goto(t, loc)
        /\ queue' = queue
        /\ waiter' = waiter \/ (on[t] \in AcceptTasks /\ waiter' = [waiter EXCEPT ![on[t][2]] = on[t]])
    BY <1>9 DEF Test, Accept, Arm, Locs
  <2>2. lost' \subseteq AcceptTasks
    <3>1. CASE Test(t) \/ Accept(t)
      BY <3>1, <1>1 DEF Test, Accept, TaskTypes
    <3>2. CASE Arm(t)
      <4>1. on[t] \in AcceptTasks /\ on[t][2] \in Socks
        BY <3>2, TaskFacts DEF Arm
      <4>2. {waiter[on[t][2]]} \ {None} \subseteq AcceptTasks
        BY <1>1, <4>1 DEF TaskTypes
      <4>3. QED
        BY <1>1, <3>2, <4>1, <4>2 DEF Arm, TaskTypes
    <3>3. QED
      BY <1>9, <3>1, <3>2
  <2>3. QED
    BY <1>1, <2>1, <2>2, GotoTypes DEF TaskTypes
<1>10. ASSUME NEW t \in Threads, Cancel(t) PROVE TaskTypes'
  <2>1. Current \in Socks
    BY <1>10, CurrentFacts DEF Cancel
  <2>2. "cancel again" \in Locs /\ "close" \in Locs
    BY DEF Locs
  <2>3. QED
    BY <1>1, <1>10, <2>1, <2>2, TriggerTypes DEF Cancel, TaskTypes
<1>11. ASSUME NEW t \in Threads, Close(t) \/ Cleared(t) PROVE TaskTypes'
  <2>1. (\E loc \in Locs : Goto(t, loc)) /\ queue' = queue /\ waiter' = waiter /\ lost' = lost
    BY <1>11 DEF Close, Cleared, Locs
  <2>2. QED
    BY <1>1, <2>1, GotoTypes DEF TaskTypes
<1>12. CASE UNCHANGED tvars
  BY <1>1, <1>12 DEF tvars, TaskTypes
<1>13. QED
  BY <1>2, <1>3, <1>4, <1>5, <1>6, <1>7, <1>8, <1>9, <1>10, <1>11, <1>12 DEF TcpNext, Worker

LEMMA ClientTypesStep ==
    ASSUME TcpTypeOK, [TcpNext]_tvars PROVE ClientTypes'
<1>1. ServerTypes /\ ClientTypes
  BY TcpTypeParts
<1>2. ASSUME NEW S PROVE Refused(S) \in [Clients -> Socks \cup {"out", "accepted", "refused"}]
  BY <1>1 DEF ClientTypes, Refused
<1>3. \/ client' = client
      \/ \E S : client' = Refused(S)
      \/ \E c \in Clients : \E s \in Socks \cup {"accepted"} : client' = [client EXCEPT ![c] = s]
  <2>1. CASE \E s \in Socks : bind(s) \/ Readable(s)
    BY <2>1 DEF bind, Readable
  <2>2. CASE bindFails
    BY <2>2 DEF bindFails
  <2>3. CASE start \/ stop
    BY <2>3 DEF start, stop
  <2>4. CASE \E c \in Clients : Arrive(c)
    BY <1>1, <2>4 DEF Arrive, ServerTypes
  <2>5. CASE \E t \in Threads : Take(t) \/ Test(t) \/ Arm(t) \/ Cancel(t) \/ Cleared(t)
    BY <2>5 DEF Take, Test, Arm, Cancel, Cleared
  <2>6. CASE \E t \in Threads : Accept(t)
    BY <2>6 DEF Accept, Waiting
  <2>7. CASE \E t \in Threads : Close(t)
    BY <2>7 DEF Close
  <2>8. CASE UNCHANGED tvars
    BY <2>8 DEF tvars
  <2>9. QED
    BY <2>1, <2>2, <2>3, <2>4, <2>5, <2>6, <2>7, <2>8 DEF TcpNext, Worker
<1>4. QED
  BY <1>1, <1>2, <1>3 DEF ClientTypes

LEMMA TcpTypeStep ==
    ASSUME TcpTypeOK, [TcpNext]_tvars PROVE TcpTypeOK'
<1>1. (TcpTypeOK <=> ServerTypes /\ TaskTypes /\ ClientTypes)'
  BY TcpTypeParts, PTL
<1>2. QED
  BY <1>1, ServerTypesStep, TaskTypesStep, ClientTypesStep

-----------------------------------------------------------------------------
(* The callers                                                             *)

LEMMA InitTcpInv == TcpInit => TcpInv
<1> SUFFICES ASSUME TcpInit PROVE TcpInv
  OBVIOUS
<1> USE DEF TcpInit
<1>1. TcpTypeOK
  BY TcpAssumption DEF TcpTypeOK
<1>2. \A k \in AcceptTasks \cup StopTasks : at[k] = "none"
  BY DEF Tasks
<1>3. QED
  BY <1>1, <1>2 DEF TcpInv, Scheduled, Registered, NoOrphan, OneStop, Cancelled

\* bind, also one that fails: no task is about.
LEMMA QuietTcp ==
    ASSUME TcpInv, Quiet, UNCHANGED <<starts, at, waiter, lost>>, TcpTypeOK'
    PROVE  TcpInv'
<1>1. \A k \in AcceptTasks \cup StopTasks : at[k] \in {"none", "ended"}
  BY DEF Quiet, Tasks
<1>2. QED
  BY <1>1 DEF TcpInv, Scheduled, Registered, NoOrphan, OneStop, Cancelled

\* Steps of the clients, and a thread that takes a task.
LEMMA SameTcp ==
    ASSUME TcpInv, UNCHANGED <<m_socks, open, starts, at, waiter, lost>>, TcpTypeOK'
    PROVE  TcpInv'
<1>1. Left' = Left /\ Current' = Current
  BY DEF Left, Current
<1>2. QED
  BY <1>1 DEF TcpInv, Scheduled, Registered, NoOrphan, OneStop, Cancelled

LEMMA StopTcp ==
    ASSUME TcpInv, stop, TcpTypeOK' PROVE TcpInv'
<1> DEFINE new == <<"stop", stops + 1>>
<1>0. ServerTypes /\ TaskTypes
  BY TcpTypeParts DEF TcpInv
<1>1. new \in StopTasks /\ new \in Tasks /\ new \notin AcceptTasks
  BY <1>0, TaskFacts, TcpAssumption DEF stop, ServerTypes
<1>2. /\ at' = [at EXCEPT ![new] = "cancel"]
      /\ \A k \in StopTasks : at[k] \in {"none", "ended"}
      /\ UNCHANGED <<m_socks, open, starts, waiter, lost>>
  BY DEF stop
<1> HIDE DEF new
<1>3. \A k \in Tasks : at'[k] = IF k = new THEN "cancel" ELSE at[k]
  BY <1>0, <1>1, <1>2 DEF TaskTypes
<1>4. \A k \in AcceptTasks : at'[k] = at[k]
  BY <1>1, <1>3, TaskFacts
<1>5. \A k \in StopTasks : k # new => at'[k] \in {"none", "ended"}
  BY <1>2, <1>3, TaskFacts
<1>6. at'[new] = "cancel"
  BY <1>1, <1>3
<1>7. Scheduled' /\ NoOrphan'
  BY <1>2, <1>4 DEF TcpInv, Scheduled, NoOrphan
<1>8. Registered'
  <2>1. \A s \in Socks : waiter[s] = None \/ waiter[s] \in AcceptTasks
    BY <1>0 DEF TaskTypes
  <2>2. QED
    BY <1>2, <1>4, <2>1 DEF TcpInv, Registered
<1>9. OneStop' /\ Cancelled'
  BY <1>5, <1>6 DEF OneStop, Cancelled
<1>10. QED
  BY <1>7, <1>8, <1>9 DEF TcpInv

\* The tasks of start() are new ones: nobody waits yet.
LEMMA StartTcp ==
    ASSUME TcpInv, start, TcpTypeOK' PROVE TcpInv'
<1> DEFINE new == [i \in DOMAIN m_socks |-> <<"accept", m_socks[i], starts + 1>>]
<1>0. ServerTypes /\ TaskTypes
  BY TcpTypeParts DEF TcpInv
<1>1. /\ starts < MaxStarts /\ starts' = starts + 1
      /\ at' = [k \in Tasks |-> IF Contains(new, k) THEN "test" ELSE at[k]]
      /\ UNCHANGED <<m_socks, open, waiter, lost>>
  BY DEF start
<1>2. \A k : Contains(new, k) => k \in AcceptTasks /\ k[3] = starts + 1
  BY <1>0, <1>1, NewTasks
<1> HIDE DEF new
<1>3. starts \in Nat /\ \A k \in AcceptTasks : k[3] \in Nat /\ k \in Tasks
  BY <1>0, TaskFacts DEF ServerTypes
<1>4. \A k \in AcceptTasks : at[k] # "none" => k[3] <= starts
  BY DEF TcpInv, Scheduled
<1>5. \A k \in AcceptTasks : Contains(new, k) => at[k] = "none"
  BY <1>2, <1>3, <1>4
<1>6. \A k \in Tasks : at'[k] = IF Contains(new, k) THEN "test" ELSE at[k]
  BY <1>1
<1>7. \A k \in AcceptTasks : at'[k] = "wait" <=> at[k] = "wait"
  BY <1>3, <1>5, <1>6
<1>8. \A k \in StopTasks : at'[k] = at[k]
  BY <1>2, <1>6, TaskFacts
<1>9. Scheduled'
  <2> SUFFICES ASSUME NEW k \in AcceptTasks, at'[k] # "none" PROVE k[3] <= starts'
    BY DEF Scheduled
  <2>1. Contains(new, k) \/ at[k] # "none"
    BY <1>3, <1>6
  <2>2. k[3] = starts + 1 \/ k[3] <= starts
    BY <2>1, <1>2, <1>4
  <2>3. QED
    BY <2>2, <1>1, <1>3
<1>10. Registered'
  <2>1. \A s \in Socks : waiter[s] = None \/ waiter[s] \in AcceptTasks
    BY <1>0 DEF TaskTypes
  <2>2. QED
    BY <1>1, <1>7, <2>1 DEF TcpInv, Registered
<1>11. NoOrphan'
  BY <1>1, <1>7 DEF TcpInv, NoOrphan
<1>12. OneStop'
  BY <1>8 DEF TcpInv, OneStop
<1>13. Cancelled'
  <2>1. Left' = Left /\ Current' = Current
    BY <1>1 DEF Left, Current
  <2>2. QED
    BY <1>1, <1>8, <2>1 DEF TcpInv, Cancelled
<1>14. QED
  BY <1>9, <1>10, <1>11, <1>12, <1>13 DEF TcpInv

-----------------------------------------------------------------------------
(* The worker                                                              *)

\* Scheduling the fiber that waits for a socket, whatever else happens to tasks of stop().
LEMMA TriggerTcp ==
    ASSUME TcpInv, NEW s \in Socks, Trigger(s),
           \A k \in AcceptTasks : at'[k] = Woken(s)[k],
           UNCHANGED <<open, starts, lost>>
    PROVE  /\ Scheduled' /\ Registered' /\ NoOrphan'
           /\ \A r \in Socks : waiter'[r] = IF r = s THEN None ELSE waiter[r]
<1>0. TaskTypes
  BY TcpTypeParts DEF TcpInv
<1>1. \A r \in Socks : waiter'[r] = IF r = s THEN None ELSE waiter[r]
  BY <1>0 DEF TaskTypes, Trigger
<1>2. \A k \in AcceptTasks : k \in Tasks /\ k # None /\ k[2] \in Socks
  BY TaskFacts
<1>3. waiter[s] = None \/ waiter[s] \in AcceptTasks
  BY <1>0 DEF TaskTypes
<1>4. \A k \in AcceptTasks : at'[k] = IF waiter[s] = k THEN "accept" ELSE at[k]
  BY <1>0, <1>2, <1>3 DEF Woken, TaskTypes
<1>5. waiter[s] # None => at[waiter[s]] = "wait"
  BY DEF TcpInv, Registered
<1>6. Scheduled'
  <2>1. \A k \in AcceptTasks : at'[k] # "none" => at[k] # "none"
    BY <1>2, <1>4, <1>5
  <2>2. QED
    BY <2>1 DEF TcpInv, Scheduled
<1>7. Registered'
  <2> SUFFICES ASSUME NEW r \in Socks, waiter'[r] # None
               PROVE  at'[waiter'[r]] = "wait" /\ waiter'[r][2] = r
    BY DEF Registered
  <2>1. r # s /\ waiter'[r] = waiter[r] /\ waiter[r] \in AcceptTasks
    BY <1>0, <1>1 DEF TaskTypes
  <2>2. at[waiter[r]] = "wait" /\ waiter[r][2] = r
    BY <2>1 DEF TcpInv, Registered
  <2>3. waiter[s] # waiter[r]
    BY <2>1, <2>2, <1>2 DEF TcpInv, Registered
  <2>4. QED
    BY <1>4, <2>1, <2>2, <2>3
<1>8. NoOrphan'
  <2> SUFFICES ASSUME NEW k \in AcceptTasks, at'[k] = "wait"
               PROVE  (k[2] \in open' /\ waiter'[k[2]] = k) \/ k \in lost'
    BY DEF NoOrphan
  <2>1. at[k] = "wait" /\ waiter[s] # k
    BY <1>4
  <2>2. (k[2] \in open /\ waiter[k[2]] = k) \/ k \in lost
    BY <2>1 DEF TcpInv, NoOrphan
  <2>3. QED
    BY <1>1, <1>2, <2>1, <2>2
<1>9. QED
  BY <1>1, <1>6, <1>7, <1>8

LEMMA ReadableTcp ==
    ASSUME TcpInv, TcpTypeOK', NEW s \in Socks, Readable(s) PROVE TcpInv'
<1>0. TaskTypes
  BY TcpTypeParts DEF TcpInv
<1>1. /\ Trigger(s) /\ at' = Woken(s)
      /\ UNCHANGED <<m_socks, open, starts, lost>> /\ waiter[s] # None
  BY DEF Readable, uvars
<1>2. waiter[s] \in AcceptTasks
  BY <1>0, <1>1 DEF TaskTypes
<1>3. \A k \in StopTasks : at'[k] = at[k]
  BY <1>0, <1>1, <1>2, TaskFacts DEF Woken, TaskTypes
<1>4. /\ Scheduled' /\ Registered' /\ NoOrphan'
      /\ \A r \in Socks : waiter'[r] = IF r = s THEN None ELSE waiter[r]
  BY <1>1, TriggerTcp
<1>5. Cancelled'
  <2>1. Left' = Left /\ Current' = Current
    BY <1>1 DEF Left, Current
  <2>2. Left # {} => Current \in Socks
    BY CurrentFacts DEF TcpInv
  <2>3. QED
    BY <1>1, <1>3, <1>4, <2>1, <2>2 DEF TcpInv, Cancelled
<1>6. OneStop'
  BY <1>3 DEF TcpInv, OneStop
<1>7. QED
  BY <1>4, <1>5, <1>6 DEF TcpInv

LEMMA CancelTcp ==
    ASSUME TcpInv, TcpTypeOK', NEW t \in Threads, Cancel(t) PROVE TcpInv'
<1>0. TaskTypes
  BY TcpTypeParts DEF TcpInv
<1> DEFINE s == Current
           k == on[t]
<1>1. /\ Left # {} /\ k \in StopTasks /\ at[k] \in {"cancel", "cancel again"}
      /\ Trigger(s) /\ UNCHANGED <<m_socks, open, starts, lost>>
      /\ at' = [Woken(s) EXCEPT ![k] = IF @ = "cancel" THEN "cancel again" ELSE "close"]
  BY DEF Cancel, uvars
<1>2. s \in Socks
  BY <1>1, CurrentFacts DEF TcpInv
<1>3. Left' = Left /\ Current' = Current
  BY <1>1 DEF Left, Current
<1> HIDE DEF s
<1>4. waiter[s] = None \/ waiter[s] \in AcceptTasks
  BY <1>0, <1>2 DEF TaskTypes
<1>5. \A l \in StopTasks : Woken(s)[l] = at[l]
  BY <1>0, <1>4, TaskFacts DEF Woken, TaskTypes
<1>6. Woken(s) \in [Tasks -> Locs]
  BY <1>0, <1>1, <1>2, TriggerTypes
<1>7. \A l \in Tasks : at'[l] = IF l = k THEN (IF Woken(s)[k] = "cancel" THEN "cancel again" ELSE "close")
                                ELSE Woken(s)[l]
  BY <1>1, <1>6, TaskFacts
<1>8. \A l \in AcceptTasks : at'[l] = Woken(s)[l]
  BY <1>1, <1>7, TaskFacts
<1>9. \A l \in StopTasks : l = k \/ at'[l] = at[l]
  BY <1>5, <1>7, TaskFacts
<1>10. /\ Scheduled' /\ Registered' /\ NoOrphan'
       /\ \A r \in Socks : waiter'[r] = IF r = s THEN None ELSE waiter[r]
  BY <1>1, <1>2, <1>8, TriggerTcp
<1>11. OneStop'
  <2>1. at[k] \notin {"none", "ended"}
    BY <1>1
  <2>2. \A l \in StopTasks : at[l] \notin {"none", "ended"} => l = k
    BY <1>1, <2>1 DEF TcpInv, OneStop
  <2>3. \A l \in StopTasks : at'[l] \notin {"none", "ended"} => l = k
    BY <1>9, <2>2
  <2>4. QED
    BY <2>3 DEF OneStop
<1>12. Cancelled'
  BY <1>2, <1>3, <1>10 DEF Cancelled, s
<1>13. QED
  BY <1>10, <1>11, <1>12 DEF TcpInv

\* What a task on a thread changes when it goes on.
LEMMA GotoMoves ==
    ASSUME TcpInv, NEW t \in Threads, on[t] \in Tasks, NEW loc, Goto(t, loc)
    PROVE  \A k \in Tasks : at'[k] = IF k = on[t] THEN loc ELSE at[k]
<1>1. TaskTypes
  BY TcpTypeParts DEF TcpInv
<1>2. QED
  BY <1>1 DEF TaskTypes, Goto

\* The loop of startAccept, up to the wait.
LEMMA AcceptTcp ==
    ASSUME TcpInv, TcpTypeOK', NEW t \in Threads, on[t] \in AcceptTasks,
           at[on[t]] \in {"test", "accept", "arm"},
           NEW loc \in {"test", "accept", "arm", "ended"}, Goto(t, loc),
           UNCHANGED <<m_socks, open, starts, waiter, lost>>
    PROVE  TcpInv'
<1>0. TaskTypes
  BY TcpTypeParts DEF TcpInv
<1>1. on[t] \in Tasks /\ on[t] \notin StopTasks
  BY TaskFacts
<1>2. \A l \in Tasks : at'[l] = IF l = on[t] THEN loc ELSE at[l]
  BY <1>1, GotoMoves
<1>3. \A l \in AcceptTasks \cup StopTasks : l \in Tasks
  BY TaskFacts
<1>4. \A l \in StopTasks : at'[l] = at[l]
  BY <1>1, <1>2, <1>3
<1>5. \A l \in AcceptTasks : /\ at'[l] = "wait" <=> at[l] = "wait"
                             /\ at'[l] # "none" => at[l] # "none"
  BY <1>2, <1>3
<1>6. Scheduled' /\ NoOrphan'
  BY <1>5 DEF TcpInv, Scheduled, NoOrphan
<1>7. Registered'
  <2>1. \A s \in Socks : waiter[s] = None \/ waiter[s] \in AcceptTasks
    BY <1>0 DEF TaskTypes
  <2>2. QED
    BY <1>5, <2>1 DEF TcpInv, Registered
<1>8. OneStop' /\ Cancelled'
  <2>1. Left' = Left /\ Current' = Current
    BY DEF Left, Current
  <2>2. QED
    BY <1>4, <2>1 DEF TcpInv, OneStop, Cancelled
<1>9. QED
  BY <1>6, <1>7, <1>8 DEF TcpInv

\* addEvent and swapOut: who was registered is lost, and so is who comes after close()
\* has cancelled.
LEMMA ArmTcp ==
    ASSUME TcpInv, TcpTypeOK', NEW t \in Threads, Arm(t), on[t][2] \in open
    PROVE  TcpInv'
<1> DEFINE k == on[t]
           s == on[t][2]
<1>0. TaskTypes
  BY TcpTypeParts DEF TcpInv
<1>1. /\ k \in AcceptTasks /\ at[k] = "arm" /\ waiter' = [waiter EXCEPT ![s] = k]
      /\ lost' = (lost \ {k}) \cup ({waiter[s]} \ {None}) \cup (IF Closing(s) THEN {k} ELSE {})
      /\ Goto(t, "wait") /\ UNCHANGED <<m_socks, open, starts>>
  BY DEF Arm, uvars
<1>2. k \in Tasks /\ k \notin StopTasks /\ k # None /\ s \in Socks
  BY <1>1, TaskFacts
<1>3. \A l \in Tasks : at'[l] = IF l = k THEN "wait" ELSE at[l]
  BY <1>1, <1>2, GotoMoves
<1>4. \A l \in AcceptTasks \cup StopTasks : l \in Tasks /\ l # None
  BY TaskFacts
<1>5. \A r \in Socks : waiter'[r] = IF r = s THEN k ELSE waiter[r]
  BY <1>0, <1>1 DEF TaskTypes
<1>6. /\ waiter[s] # None => waiter[s] \in lost'
      /\ \A l \in lost : l # k => l \in lost'
      /\ Closing(s) => k \in lost'
  BY <1>1
<1>7. \A r \in Socks : waiter[r] # None => waiter[r] \in AcceptTasks /\ at[waiter[r]] = "wait"
                                           /\ waiter[r] # k /\ waiter[r][2] = r
  <2>1. \A r \in Socks : waiter[r] # None => waiter[r] \in AcceptTasks
    BY <1>0 DEF TaskTypes
  <2>2. QED
    BY <1>1, <2>1 DEF TcpInv, Registered
<1> HIDE DEF k, s
<1>8. Scheduled'
  BY <1>1, <1>3, <1>4 DEF TcpInv, Scheduled
<1>9. Registered'
  <2> SUFFICES ASSUME NEW r \in Socks, waiter'[r] # None
               PROVE  at'[waiter'[r]] = "wait" /\ waiter'[r][2] = r
    BY DEF Registered
  <2>1. CASE r = s
    BY <2>1, <1>2, <1>3, <1>5 DEF s, k
  <2>2. CASE r # s
    BY <2>2, <1>3, <1>4, <1>5, <1>7
  <2>3. QED
    BY <2>1, <2>2
<1>10. NoOrphan'
  <2> SUFFICES ASSUME NEW l \in AcceptTasks, at'[l] = "wait"
               PROVE  (l[2] \in open' /\ waiter'[l[2]] = l) \/ l \in lost'
    BY DEF NoOrphan
  <2>1. CASE l = k
    BY <2>1, <1>1, <1>2, <1>5 DEF s, k
  <2>2. CASE l # k
    <3>1. (l[2] \in open /\ waiter[l[2]] = l) \/ l \in lost
      BY <2>2, <1>3, <1>4 DEF TcpInv, NoOrphan
    <3>2. CASE l \in lost
      BY <2>2, <3>2, <1>6
    <3>3. CASE l[2] \in open /\ waiter[l[2]] = l
      <4>1. l[2] \in Socks /\ l # None
        BY TaskFacts
      <4>2. CASE l[2] = s
        BY <4>1, <4>2, <3>3, <1>6
      <4>3. CASE l[2] # s
        BY <4>1, <4>3, <3>3, <1>1, <1>5
      <4>4. QED
        BY <4>2, <4>3
    <3>4. QED
      BY <3>1, <3>2, <3>3
  <2>3. QED
    BY <2>1, <2>2
<1>11. \A l \in StopTasks : at'[l] = at[l]
  BY <1>2, <1>3, <1>4
<1>12. OneStop'
  BY <1>11 DEF TcpInv, OneStop
<1>13. Cancelled'
  <2>1. Left' = Left /\ Current' = Current
    BY <1>1 DEF Left, Current
  <2> SUFFICES ASSUME NEW l \in StopTasks, at[l] = "close", Left # {}
               PROVE  waiter'[Current] = None \/ waiter'[Current] \in lost'
    BY <1>11, <2>1 DEF Cancelled
  <2>2. Current \in Socks
    BY CurrentFacts DEF TcpInv
  <2>3. CASE s = Current
    <3>1. Closing(s)
      BY <2>3 DEF Closing
    <3>2. QED
      BY <2>2, <2>3, <3>1, <1>5, <1>6
  <2>4. CASE s # Current
    <3>1. waiter'[Current] = waiter[Current]
      BY <2>2, <2>4, <1>5
    <3>2. waiter[Current] = None \/ waiter[Current] \in lost
      BY DEF TcpInv, Cancelled
    <3>3. QED
      BY <2>2, <3>1, <3>2, <1>6, <1>7
  <2>5. QED
    BY <2>3, <2>4
<1>14. QED
  BY <1>8, <1>9, <1>10, <1>12, <1>13 DEF TcpInv

\* stop()'s task closes a socket for which only a lost fiber can have registered, or has
\* closed them all.
LEMMA CloseTcp ==
    ASSUME TcpInv, TcpTypeOK', NEW t \in Threads, Close(t) \/ Cleared(t)
    PROVE  TcpInv'
<1> DEFINE k == on[t]
<1>0. TaskTypes
  BY TcpTypeParts DEF TcpInv
<1>1. /\ k \in StopTasks /\ at[k] \in {"cancel", "close"}
      /\ UNCHANGED <<starts, waiter, lost>>
  BY DEF Close, Cleared, uvars
<1>2. PICK loc \in {"cancel", "ended"} : Goto(t, loc)
  BY DEF Close, Cleared
<1>3. k \in Tasks /\ k \notin AcceptTasks
  BY <1>1, TaskFacts
<1>4. \A l \in Tasks : at'[l] = IF l = k THEN loc ELSE at[l]
  BY <1>2, <1>3, GotoMoves
<1>5. \A l \in AcceptTasks \cup StopTasks : l \in Tasks /\ l # None
  BY TaskFacts
<1>6. \A l \in AcceptTasks : at'[l] = at[l]
  BY <1>3, <1>4, <1>5
<1>7. Scheduled'
  BY <1>1, <1>6 DEF TcpInv, Scheduled
<1>8. Registered'
  <2>1. \A s \in Socks : waiter[s] = None \/ waiter[s] \in AcceptTasks
    BY <1>0 DEF TaskTypes
  <2>2. QED
    BY <1>1, <1>6, <2>1 DEF TcpInv, Registered
<1>9. \A l \in StopTasks : at'[l] \notin {"none", "ended"} => l = k
  <2>1. at[k] \notin {"none", "ended"}
    BY <1>1
  <2>2. \A l \in StopTasks : at[l] \notin {"none", "ended"} => l = k
    BY <1>1, <2>1 DEF TcpInv, OneStop
  <2>3. QED
    BY <1>4, <1>5, <2>2
<1>10. OneStop'
  BY <1>9 DEF OneStop
<1>11. Cancelled'
  <2>1. at'[k] # "close"
    BY <1>3, <1>4
  <2>2. QED
    BY <1>9, <2>1 DEF Cancelled
<1>12. NoOrphan'
  <2>1. CASE Close(t)
    <3>1. at[k] = "close" /\ Left # {} /\ open' = open \ {Current}
      BY <2>1 DEF Close
    <3>2. waiter[Current] = None \/ waiter[Current] \in lost
      BY <1>1, <3>1 DEF TcpInv, Cancelled
    <3>3. QED
      BY <1>1, <1>5, <1>6, <3>1, <3>2 DEF TcpInv, NoOrphan
  <2>2. CASE Cleared(t)
    BY <2>2, <1>1, <1>6 DEF Cleared, TcpInv, NoOrphan
  <2>3. QED
    BY <2>1, <2>2
<1>13. QED
  BY <1>7, <1>8, <1>10, <1>11, <1>12 DEF TcpInv

-----------------------------------------------------------------------------
(* The theorems                                                            *)

LEMMA TcpInvStep ==
    ASSUME TcpInv, [TcpNext]_tvars PROVE TcpInv'
<1>0. TcpTypeOK'
  BY TcpTypeStep DEF TcpInv
<1>1. ASSUME NEW s \in Socks, bind(s) PROVE TcpInv'
  BY <1>0, <1>1, QuietTcp DEF bind, uvars
<1>2. CASE bindFails
  BY <1>0, <1>2, QuietTcp DEF bindFails, uvars
<1>3. ASSUME NEW c \in Clients, Arrive(c) PROVE TcpInv'
  BY <1>0, <1>3, SameTcp DEF Arrive, uvars
<1>4. CASE UNCHANGED tvars
  BY <1>0, <1>4, SameTcp DEF tvars, uvars
<1>5. ASSUME NEW t \in Threads, Test(t) PROVE TcpInv'
  BY <1>0, <1>5, AcceptTcp DEF Test, uvars
<1>6. ASSUME NEW t \in Threads, Accept(t) PROVE TcpInv'
  <2>1. /\ on[t] \in AcceptTasks /\ at[on[t]] = "accept"
        /\ \E loc \in {"test", "arm"} : Goto(t, loc)
        /\ UNCHANGED <<m_socks, open, starts, waiter, lost>>
    BY <1>6 DEF Accept, uvars
  <2>2. QED
    BY <1>0, <2>1, AcceptTcp
<1>7. ASSUME NEW t \in Threads, Arm(t) PROVE TcpInv'
  <2>1. CASE on[t][2] \in open
    BY <1>0, <1>7, <2>1, ArmTcp
  <2>2. CASE on[t][2] \notin open
    BY <1>0, <1>7, <2>2, AcceptTcp DEF Arm, uvars
  <2>3. QED
    BY <2>1, <2>2
<1>8. ASSUME NEW t \in Threads, Take(t) PROVE TcpInv'
  BY <1>0, <1>8, SameTcp DEF Take, uvars
<1>9. ASSUME NEW t \in Threads, Worker(t) PROVE TcpInv'
  BY <1>0, <1>5, <1>6, <1>7, <1>8, <1>9, CancelTcp, CloseTcp DEF Worker
<1>10. QED
  BY <1>0, <1>1, <1>2, <1>3, <1>4, <1>9, StartTcp, StopTcp, ReadableTcp DEF TcpNext

\* The server's variables keep their types, on any number of threads.
THEOREM TcpTypeCorrect == TcpSpec => []TcpTypeOK
<1>1. TcpInit => TcpTypeOK
  BY InitTcpInv DEF TcpInv
<1>2. TcpTypeOK /\ [TcpNext]_tvars => TcpTypeOK'
  BY TcpTypeStep
<1>3. QED
  BY <1>1, <1>2, PTL DEF TcpSpec

\* The inductive invariant of the server.
THEOREM TcpInvariant == TcpSpec => []TcpInv
BY InitTcpInv, TcpInvStep, PTL DEF TcpSpec

\* On any number of accept threads, an accept fiber waits where something is left to wake
\* it, or is one that registered between the last cancelAll and close_f, or was replaced
\* (startAccept and stop(), tcp_server.cc:66-98; close, hook.cc:371-385).
THEOREM NoOrphanAlways == TcpSpec => []NoOrphan
<1>1. TcpInv => NoOrphan
  BY DEF TcpInv
<1>2. QED
  BY <1>1, TcpInvariant, PTL

=============================================================================
