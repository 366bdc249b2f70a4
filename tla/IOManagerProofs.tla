--------------------------- MODULE IOManagerProofs ---------------------------
(***************************************************************************)
(* Proofs about IOManager's events, for any number of descriptors, waiters *)
(* and workers, where each descriptor is used in one direction, with       *)
(* fibers only or with callbacks only, and never by two waiters at once.   *)
(***************************************************************************)
EXTENDS IOManager, FiniteSetTheorems, TLAPS

\* How callers use the descriptors.  None of it can be left out: a stale report of
\* the other direction makes idle() use a null scheduler, triggerEvent leaves an old
\* callback where a later fiber waits, and addEvent overwrites an earlier waiter.
OneDirection == \A fd \in Fds : \E e \in Events : Dirs[fd] = {e}
OneKind == \A fd \in Fds : Kinds[fd] = {"fiber"} \/ Kinds[fd] = {"cb"}
Disciplined == ~Shared /\ OneDirection /\ OneKind

-----------------------------------------------------------------------------
(* The inductive invariant                                                 *)

\* Nothing is recorded or reported but what callers wait for, and errors.
Directed ==
    \A fd \in Fds :
        /\ events[fd] \subseteq Dirs[fd]
        /\ \A w \in Workers : report[w][fd] \subseteq Dirs[fd] \cup {ERR}

\* triggerEvent and addEvent keep the scheduler pointer set exactly while the
\* event is waited for, and no callback is left where fibers wait.
Contexts ==
    \A fd \in Fds : \A e \in Events :
        /\ ctx[fd][e].scheduler <=> e \in events[fd]
        /\ Kinds[fd] = {"fiber"} => ctx[fd][e].cb = NoWaiter

\* Who is registered waits and is not scheduled.
Holding ==
    \A fd \in Fds : \A e \in events[fd] :
        /\ Target(fd, e) \in waiting
        /\ wakes[Target(fd, e)] = 0

\* Nobody is registered twice.
Alone ==
    \A r, q \in Registrations : Target(r[1], r[2]) = Target(q[1], q[2]) => r = q

\* Who waits is registered or scheduled once; nobody else is scheduled.
Woken ==
    \A u \in Waiters :
        /\ wakes[u] \in {0, 1}
        /\ wakes[u] = 1 => u \in waiting
        /\ u \in waiting /\ wakes[u] = 0
             => \E r \in Registrations : Target(r[1], r[2]) = u

\* epoll is asked for nothing but what is recorded.
Listening == \A fd \in Fds : interest[fd] \subseteq events[fd]

\* What holds of the events also when descriptors are closed behind IOManager's back.
Held ==
    /\ TypeOK
    /\ NoNullScheduler
    /\ PendingCount
    /\ Listening
    /\ Directed
    /\ Contexts
    /\ Holding
    /\ Alone

EventInv ==
    /\ Held
    /\ InterestMatches
    /\ NoLostEvent
    /\ Woken

-----------------------------------------------------------------------------
(* Counting                                                                *)

LEMMA RegistrationsFinite == IsFiniteSet(Registrations)
<1>1. IsFiniteSet(Fds \X Events)
  <2>1. IsFiniteSet(Events)
    <3>1. IsFiniteSet({READ} \cup {WRITE})
      BY FS_Singleton, FS_AddElement
    <3>2. Events = {READ} \cup {WRITE}
      BY DEF Events
    <3>3. QED
      BY <3>1, <3>2
  <2>2. QED
    BY <2>1, FS_Product, IOManagerAssumption
<1>2. QED
  BY <1>1, FS_Subset DEF Registrations

\* Waiting for one more event counts one more.
LEMMA OneMore ==
    ASSUME TypeOK, NEW fd \in Fds, NEW e \in Events, e \notin events[fd],
           events' = [events EXCEPT ![fd] = @ \cup {e}]
    PROVE  /\ Registrations' = Registrations \cup {<<fd, e>>}
           /\ Cardinality(Registrations') = Cardinality(Registrations) + 1
<1>1. \A gd \in Fds : events'[gd] = IF gd = fd THEN events[fd] \cup {e} ELSE events[gd]
  BY DEF TypeOK
<1>2. Registrations' = Registrations \cup {<<fd, e>>}
  BY <1>1 DEF Registrations
<1>3. <<fd, e>> \notin Registrations
  BY DEF Registrations
<1>4. QED
  BY <1>2, <1>3, RegistrationsFinite, FS_AddElement

\* Ceasing to wait for an event counts one less.
LEMMA OneLess ==
    ASSUME TypeOK, NEW fd \in Fds, NEW e \in Events, e \in events[fd],
           events' = [events EXCEPT ![fd] = @ \ {e}]
    PROVE  /\ Registrations' = Registrations \ {<<fd, e>>}
           /\ Cardinality(Registrations') = Cardinality(Registrations) - 1
           /\ Cardinality(Registrations') \in Nat
<1>1. \A gd \in Fds : events'[gd] = IF gd = fd THEN events[fd] \ {e} ELSE events[gd]
  BY DEF TypeOK
<1>2. Registrations' = Registrations \ {<<fd, e>>}
  BY <1>1 DEF Registrations
<1>3. <<fd, e>> \in Registrations
  BY DEF Registrations
<1>4. IsFiniteSet(Registrations')
  BY <1>2, RegistrationsFinite, FS_RemoveElement
<1>5. QED
  BY <1>2, <1>3, <1>4, RegistrationsFinite, FS_RemoveElement, FS_CardinalityType

-----------------------------------------------------------------------------
(* Contexts                                                                *)

LEMMA SpentFields ==
    ASSUME NEW c
    PROVE  /\ Spent(c).fiber = c.fiber
           /\ Spent(c).cb = c.cb
           /\ ~Spent(c).scheduler
BY DEF Spent

LEMMA ArmedFields ==
    ASSUME NEW c, NEW u, NEW kind
    PROVE  /\ Armed(c, u, kind).fiber = IF kind = "cb" THEN c.fiber ELSE u
           /\ Armed(c, u, kind).cb = IF kind = "cb" THEN u ELSE c.cb
           /\ Armed(c, u, kind).scheduler
BY DEF Armed

-----------------------------------------------------------------------------
(* One event per descriptor                                                *)

\* A descriptor of one direction waits for its only event or for none.
LEMMA SingleEvent ==
    ASSUME OneDirection, Directed, NEW fd \in Fds, NEW e \in events[fd]
    PROVE  e \in Events /\ events[fd] = {e} /\ Dirs[fd] = {e}
BY DEF OneDirection, Directed

LEMMA TargetType ==
    ASSUME TypeOK, NEW fd \in Fds, NEW e \in Events
    PROVE  Target(fd, e) \in Waiters \cup {NoWaiter}
BY DEF TypeOK, EventContext, Target

\* Triggering the one event schedules its waiter and nobody else.
LEMMA TriggerOne ==
    ASSUME TypeOK, NEW fd \in Fds, NEW e \in Events, Trigger(fd, {e})
    PROVE  \A u \in Waiters :
             wakes'[u] = IF u = Target(fd, e) THEN wakes[u] + 1 ELSE wakes[u]
<1> SUFFICES ASSUME NEW u \in Waiters
    PROVE wakes'[u] = IF u = Target(fd, e) THEN wakes[u] + 1 ELSE wakes[u]
  OBVIOUS
<1>1. wakes'[u] = wakes[u] + Cardinality({x \in {e} : Target(fd, x) = u})
  BY DEF Trigger
<1>2. wakes[u] \in Nat
  BY DEF TypeOK
<1>3. CASE u = Target(fd, e)
  <2>1. {x \in {e} : Target(fd, x) = u} = {e}
    BY <1>3
  <2>2. QED
    BY <1>1, <1>2, <1>3, <2>1, FS_Singleton
<1>4. CASE u # Target(fd, e)
  <2>1. {x \in {e} : Target(fd, x) = u} = {}
    BY <1>4
  <2>2. QED
    BY <1>1, <1>2, <1>4, <2>1, FS_EmptySet
<1>5. QED
  BY <1>3, <1>4

-----------------------------------------------------------------------------
(* The invariant holds initially and after every step                      *)

LEMMA InitInv == Init => EventInv
<1> SUFFICES ASSUME Init PROVE EventInv
  OBVIOUS
<1>1. TypeOK
  BY DEF Init, TypeOK, EventContext, NoReport
<1>2. Registrations = {}
  BY DEF Init, Registrations
<1>3. PendingCount
  BY <1>2, FS_EmptySet DEF Init, PendingCount
<1>4. NoNullScheduler /\ InterestMatches /\ NoLostEvent
  BY DEF Init, NoNullScheduler, InterestMatches, NoLostEvent
<1>5. Directed /\ Contexts /\ Listening
  BY DEF Init, Directed, Contexts, Listening, NoReport
<1>6. Holding /\ Alone /\ Woken
  BY <1>2 DEF Init, Holding, Alone, Woken
<1>7. QED
  BY <1>1, <1>3, <1>4, <1>5, <1>6 DEF EventInv, Held

\* Running or cancelling the one event of a descriptor, as cancelEvent, cancelAll
\* and idle() do, with some of the reports of fd processed.
LEMMA HeldTriggered ==
    ASSUME Held, Disciplined, NEW fd \in Fds, NEW e \in events[fd],
           Trigger(fd, {e}), EpollCtl(fd, {}),
           UNCHANGED <<ready, waiting, crashed>>,
           report' \in [Workers -> [Fds -> SUBSET (Events \cup {ERR})]],
           \A w \in Workers : \A gd \in Fds :
               /\ report'[w][gd] \subseteq report[w][gd]
               /\ gd # fd => report'[w][gd] = report[w][gd]
    PROVE  /\ Held'
           /\ events'[fd] = {} /\ \A gd \in Fds : gd # fd => events'[gd] = events[gd]
           /\ \A v \in Waiters : wakes'[v] = IF v = Target(fd, e) THEN 1 ELSE wakes[v]
           /\ Registrations' = Registrations \ {<<fd, e>>}
           /\ \A gd \in Fds : \A f \in Events : Target(gd, f)' = Target(gd, f)
           /\ Target(fd, e) \in waiting /\ wakes[Target(fd, e)] = 0
<1> DEFINE u == Target(fd, e)
<1>0. e \in Events /\ events[fd] = {e} /\ Dirs[fd] = {e}
  BY SingleEvent DEF Held, Disciplined
<1>1. TypeOK /\ u \in waiting /\ waiting \subseteq Waiters /\ u \in Waiters /\ wakes[u] = 0
  BY DEF Held, Holding, TypeOK
<1>2. events' = [events EXCEPT ![fd] = @ \ {e}]
  BY DEF Trigger
<1>3. /\ Registrations' = Registrations \ {<<fd, e>>}
      /\ Cardinality(Registrations') = Cardinality(Registrations) - 1
      /\ Cardinality(Registrations') \in Nat
  BY <1>0, <1>1, <1>2, OneLess
<1>4. events'[fd] = {} /\ \A gd \in Fds : gd # fd => events'[gd] = events[gd]
  BY <1>0, <1>1, <1>2 DEF TypeOK
<1>5. \A v \in Waiters : wakes'[v] = IF v = u THEN 1 ELSE wakes[v]
  BY <1>0, <1>1, TriggerOne
<1>6. wakes' \in [Waiters -> Nat]
  <2>1. wakes' = [v \in Waiters |-> wakes'[v]]
    BY DEF Trigger
  <2>2. QED
    BY <1>1, <1>5, <2>1 DEF TypeOK
<1>7. PendingCount' /\ m_pendingEventCount' \in Nat
  BY <1>0, <1>1, <1>3, FS_Singleton DEF Held, PendingCount, Trigger
<1>8. Listening' /\ interest' \in [Fds -> SUBSET Events] /\ events' \in [Fds -> SUBSET Events]
  BY <1>0, <1>1, <1>2 DEF Held, Listening, EpollCtl, TypeOK
<1>9. listed' = listed \ {fd}
  BY DEF EpollCtl, Reportable
<1>11. Directed'
  BY <1>4 DEF Held, Directed
<1>12. \A gd \in Fds : \A f \in Events :
         ctx'[gd][f] = IF gd = fd /\ f = e THEN Spent(ctx[gd][f]) ELSE ctx[gd][f]
  BY <1>0, <1>1 DEF Trigger, TypeOK
<1>13. ctx' \in [Fds -> [Events -> EventContext]]
  <2>1. \A gd \in Fds : \A f \in Events : Spent(ctx[gd][f]) \in EventContext
    BY <1>1 DEF TypeOK, EventContext, Spent
  <2>2. QED
    BY <1>0, <1>1, <2>1 DEF Trigger, TypeOK
<1>14. TypeOK'
  BY <1>1, <1>6, <1>7, <1>8, <1>9, <1>13 DEF TypeOK
<1>15. Contexts'
  BY <1>0, <1>4, <1>12, SpentFields DEF Held, Contexts
<1>16. \A gd \in Fds : \A f \in Events : Target(gd, f)' = Target(gd, f)
  BY <1>12, SpentFields DEF Target
<1>17. \A r \in Registrations' :
         /\ r \in Registrations
         /\ Target(r[1], r[2])' = Target(r[1], r[2])
         /\ Target(r[1], r[2]) # u
  <2> SUFFICES ASSUME NEW r \in Registrations'
      PROVE  /\ r \in Registrations
             /\ Target(r[1], r[2])' = Target(r[1], r[2])
             /\ Target(r[1], r[2]) # u
    OBVIOUS
  <2>1. r \in Registrations /\ r # <<fd, e>>
    BY <1>3
  <2>2. r[1] \in Fds /\ r[2] \in Events
    BY <2>1 DEF Registrations
  <2>3. <<fd, e>> \in Registrations
    BY <1>0 DEF Registrations
  <2>4. Target(r[1], r[2]) # u
    BY <2>1, <2>3 DEF Held, Alone
  <2>5. QED
    BY <1>16, <2>1, <2>2, <2>4
<1>18. Holding'
  <2> SUFFICES ASSUME NEW gd \in Fds, NEW f \in events'[gd]
      PROVE Target(gd, f)' \in waiting /\ wakes'[Target(gd, f)'] = 0
    BY DEF Holding
  <2>1. f \in Events /\ <<gd, f>> \in Registrations'
    BY <1>8 DEF Registrations
  <2>2. f \in events[gd] /\ Target(gd, f)' = Target(gd, f) /\ Target(gd, f) # u
    BY <1>17, <2>1 DEF Registrations
  <2>3. Target(gd, f) \in waiting /\ wakes[Target(gd, f)] = 0
    BY <2>2 DEF Held, Holding
  <2>4. QED
    BY <1>1, <1>5, <2>2, <2>3
<1>19. Alone'
  BY <1>17 DEF Held, Alone
<1>20. NoNullScheduler'
  BY DEF Held, NoNullScheduler
<1>21. Held'
  BY <1>7, <1>8, <1>11, <1>14, <1>15, <1>18, <1>19, <1>20 DEF Held
<1>22. QED
  BY <1>1, <1>3, <1>4, <1>5, <1>16, <1>21

LEMMA Triggered ==
    ASSUME EventInv, Disciplined, NEW fd \in Fds, NEW e \in events[fd],
           Trigger(fd, {e}), EpollCtl(fd, {}),
           UNCHANGED <<ready, waiting, crashed>>,
           report' \in [Workers -> [Fds -> SUBSET (Events \cup {ERR})]],
           \A w \in Workers : \A gd \in Fds :
               /\ report'[w][gd] \subseteq report[w][gd]
               /\ gd # fd => report'[w][gd] = report[w][gd]
    PROVE  EventInv'
<1> DEFINE u == Target(fd, e)
<1>1. /\ Held'
      /\ events'[fd] = {} /\ \A gd \in Fds : gd # fd => events'[gd] = events[gd]
      /\ \A v \in Waiters : wakes'[v] = IF v = u THEN 1 ELSE wakes[v]
      /\ Registrations' = Registrations \ {<<fd, e>>}
      /\ \A gd \in Fds : \A f \in Events : Target(gd, f)' = Target(gd, f)
      /\ u \in waiting /\ wakes[u] = 0
  BY HeldTriggered DEF EventInv
<1>2. events[fd] = {e}
  BY SingleEvent DEF EventInv, Held, Disciplined
<1>3. InterestMatches'
  BY <1>2 DEF EventInv, Held, InterestMatches, Trigger, EpollCtl, TypeOK
<1>4. listed' = listed \ {fd}
  BY DEF EpollCtl, Reportable
<1>5. NoLostEvent'
  BY <1>1, <1>4 DEF EventInv, NoLostEvent
<1>6. Woken'
  <2> HIDE DEF u
  <2> SUFFICES ASSUME NEW v \in Waiters
      PROVE /\ wakes'[v] \in {0, 1}
            /\ wakes'[v] = 1 => v \in waiting
            /\ v \in waiting /\ wakes'[v] = 0
                 => \E r \in Registrations' : Target(r[1], r[2])' = v
    BY DEF Woken
  <2>1. CASE v = u
    BY <1>1, <2>1
  <2>2. CASE v # u
    <3>1. wakes'[v] = wakes[v]
      BY <1>1, <2>2
    <3>2. ASSUME NEW r \in Registrations, Target(r[1], r[2]) = v
          PROVE  r \in Registrations' /\ Target(r[1], r[2])' = v
      BY <1>1, <2>2, <3>2 DEF Registrations, u
    <3>3. QED
      BY <3>1, <3>2 DEF EventInv, Woken
  <2>3. QED
    BY <2>1, <2>2
<1>7. QED
  BY <1>1, <1>3, <1>5, <1>6 DEF EventInv

\* addEvent keeps the invariant.
LEMMA HeldAdded ==
    ASSUME Held, Disciplined, NEW fd \in Fds, NEW e \in Events, NEW u \in Waiters,
           NEW kind \in {"fiber", "cb"}, AddEvent(fd, e, u, kind)
    PROVE  /\ Held'
           /\ Registrations' = Registrations \cup {<<fd, e>>}
           /\ Target(fd, e)' = u
           /\ \A r \in Registrations :
                 Target(r[1], r[2])' = Target(r[1], r[2]) /\ Target(r[1], r[2]) # u
           /\ \A gd \in Fds : gd # fd => events'[gd] = events[gd]
           /\ e \notin events[fd] /\ events'[fd] = events[fd] \cup {e}
           /\ listed \subseteq listed' /\ listed' \subseteq listed \cup {fd}
           /\ events'[fd] \cap ready[fd] # {} => fd \in listed'
<1>0. /\ TypeOK /\ e \notin events[fd] /\ u \notin waiting /\ wakes[u] = 0
      /\ Dirs[fd] = {e} /\ kind \in Kinds[fd]
  BY DEF Held, AddEvent, Disciplined, OneDirection
<1>1. events' = [events EXCEPT ![fd] = @ \cup {e}]
  BY DEF AddEvent
<1>2. /\ Registrations' = Registrations \cup {<<fd, e>>}
      /\ Cardinality(Registrations') = Cardinality(Registrations) + 1
  BY <1>0, <1>1, OneMore
<1>3. /\ events'[fd] = events[fd] \cup {e}
      /\ \A gd \in Fds : gd # fd => events'[gd] = events[gd]
  BY <1>0, <1>1 DEF TypeOK
<1>4. UNCHANGED <<ready, report, wakes, crashed>> /\ waiting' = waiting \cup {u}
  BY DEF AddEvent
<1>5. Listening' /\ interest' \in [Fds -> SUBSET Events] /\ events' \in [Fds -> SUBSET Events]
  BY <1>0, <1>1 DEF Held, Listening, AddEvent, EpollCtl, TypeOK
<1>6. PendingCount' /\ m_pendingEventCount' \in Nat
  BY <1>0, <1>2 DEF Held, PendingCount, AddEvent, TypeOK
<1>7. /\ listed \subseteq listed' /\ listed' \subseteq listed \cup {fd}
      /\ events'[fd] \cap ready[fd] # {} => fd \in listed'
  <2>1. listed' = IF Reportable(fd, events[fd] \cup {e}) # {} THEN listed \cup {fd} ELSE listed
    BY DEF AddEvent, EpollCtl
  <2>2. Reportable(fd, events[fd] \cup {e}) = ready[fd] \cap ((events[fd] \cup {e}) \cup {ERR})
    BY DEF Reportable
  <2>3. QED
    BY <1>3, <2>1, <2>2
<1>9. Directed'
  BY <1>0, <1>3, <1>4 DEF Held, Directed
<1>10. \A gd \in Fds : \A f \in Events :
         ctx'[gd][f] = IF gd = fd /\ f = e THEN Armed(ctx[gd][f], u, kind) ELSE ctx[gd][f]
  BY <1>0 DEF AddEvent, TypeOK
<1>11. ctx' \in [Fds -> [Events -> EventContext]]
  <2>1. Armed(ctx[fd][e], u, kind) \in EventContext
    BY <1>0 DEF TypeOK, EventContext, Armed
  <2>2. ctx' = [ctx EXCEPT ![fd][e] = Armed(ctx[fd][e], u, kind)]
    BY <1>0 DEF AddEvent, TypeOK
  <2>3. QED
    BY <1>0, <2>1, <2>2 DEF TypeOK
<1>12. TypeOK'
  BY <1>0, <1>4, <1>5, <1>6, <1>7, <1>11 DEF TypeOK
<1>13. Contexts'
  <2> SUFFICES ASSUME NEW gd \in Fds, NEW f \in Events
      PROVE  /\ ctx'[gd][f].scheduler <=> f \in events'[gd]
             /\ Kinds[gd] = {"fiber"} => ctx'[gd][f].cb = NoWaiter
    BY DEF Contexts
  <2>1. CASE gd = fd /\ f = e
    BY <1>0, <1>3, <1>10, <2>1, ArmedFields DEF Held, Contexts
  <2>2. CASE ~(gd = fd /\ f = e)
    BY <1>3, <1>10, <2>2 DEF Held, Contexts
  <2>3. QED
    BY <2>1, <2>2
<1>14. Target(fd, e)' = u
  <2>1. ctx'[fd][e] = Armed(ctx[fd][e], u, kind)
    BY <1>10
  <2>2. u # NoWaiter
    BY IOManagerAssumption
  <2>3. CASE kind = "cb"
    BY <2>1, <2>2, <2>3, ArmedFields DEF Target
  <2>4. CASE kind = "fiber"
    <3>1. Kinds[fd] = {"fiber"}
      BY <1>0, <2>4 DEF Disciplined, OneKind
    <3>2. ctx[fd][e].cb = NoWaiter
      BY <3>1 DEF Held, Contexts
    <3>3. QED
      BY <2>1, <2>4, <3>2, ArmedFields DEF Target
  <2>5. QED
    BY <2>3, <2>4
<1>15. \A r \in Registrations :
         /\ r[1] \in Fds /\ r[2] \in Events /\ r[2] \in events[r[1]]
         /\ Target(r[1], r[2])' = Target(r[1], r[2])
         /\ Target(r[1], r[2]) \in waiting /\ Target(r[1], r[2]) # u
  <2> SUFFICES ASSUME NEW r \in Registrations
      PROVE  /\ r[1] \in Fds /\ r[2] \in Events /\ r[2] \in events[r[1]]
             /\ Target(r[1], r[2])' = Target(r[1], r[2])
             /\ Target(r[1], r[2]) \in waiting /\ Target(r[1], r[2]) # u
    OBVIOUS
  <2>1. r[1] \in Fds /\ r[2] \in Events /\ r[2] \in events[r[1]]
    BY DEF Registrations
  <2>2. ctx'[r[1]][r[2]] = ctx[r[1]][r[2]]
    BY <1>0, <1>10, <2>1
  <2>3. Target(r[1], r[2])' = Target(r[1], r[2])
    BY <2>2 DEF Target
  <2>4. Target(r[1], r[2]) \in waiting
    BY <2>1 DEF Held, Holding
  <2>5. QED
    BY <1>0, <2>1, <2>3, <2>4
<1>16. Holding'
  <2> SUFFICES ASSUME NEW gd \in Fds, NEW f \in events'[gd]
      PROVE  Target(gd, f)' \in waiting' /\ wakes'[Target(gd, f)'] = 0
    BY DEF Holding
  <2>1. CASE gd = fd /\ f = e
    BY <1>0, <1>4, <1>14, <2>1
  <2>2. CASE ~(gd = fd /\ f = e)
    <3>1. <<gd, f>> \in Registrations
      BY <1>3, <1>5, <2>2 DEF Registrations
    <3>2. f \in events[gd] /\ Target(gd, f)' = Target(gd, f)
      BY <1>15, <3>1
    <3>3. QED
      BY <1>4, <3>2 DEF Held, Holding
  <2>3. QED
    BY <2>1, <2>2
<1>17. Alone'
  <2> SUFFICES ASSUME NEW r \in Registrations', NEW q \in Registrations',
                      Target(r[1], r[2])' = Target(q[1], q[2])'
      PROVE  r = q
    BY DEF Alone
  <2>1. CASE r \in Registrations /\ q \in Registrations
    BY <1>15, <2>1 DEF Held, Alone
  <2>2. CASE r = <<fd, e>> \/ q = <<fd, e>>
    BY <1>2, <1>14, <1>15, <2>2
  <2>3. QED
    BY <1>2, <2>1, <2>2
<1>18. NoNullScheduler'
  BY <1>4 DEF Held, NoNullScheduler
<1>19. Held'
  BY <1>5, <1>6, <1>9, <1>12, <1>13, <1>16, <1>17, <1>18 DEF Held
<1>20. QED
  BY <1>0, <1>2, <1>3, <1>7, <1>14, <1>15, <1>19

LEMMA Added ==
    ASSUME EventInv, Disciplined, NEW fd \in Fds, NEW e \in Events, NEW u \in Waiters,
           NEW kind \in {"fiber", "cb"}, AddEvent(fd, e, u, kind)
    PROVE  EventInv'
<1>1. /\ Held'
      /\ Registrations' = Registrations \cup {<<fd, e>>}
      /\ Target(fd, e)' = u
      /\ \A r \in Registrations : Target(r[1], r[2])' = Target(r[1], r[2])
      /\ \A gd \in Fds : gd # fd => events'[gd] = events[gd]
      /\ events'[fd] = events[fd] \cup {e}
      /\ listed \subseteq listed'
      /\ events'[fd] \cap ready[fd] # {} => fd \in listed'
  BY HeldAdded DEF EventInv
<1>2. UNCHANGED <<ready, report, wakes, crashed>> /\ waiting' = waiting \cup {u} /\ wakes[u] = 0
  BY DEF AddEvent
<1>3. InterestMatches'
  BY DEF EventInv, Held, InterestMatches, AddEvent, EpollCtl, TypeOK
<1>4. NoLostEvent'
  BY <1>1, <1>2 DEF EventInv, NoLostEvent
<1>5. Woken'
  <2> SUFFICES ASSUME NEW v \in Waiters
      PROVE /\ wakes'[v] \in {0, 1}
            /\ wakes'[v] = 1 => v \in waiting'
            /\ v \in waiting' /\ wakes'[v] = 0
                 => \E r \in Registrations' : Target(r[1], r[2])' = v
    BY DEF Woken
  <2>1. CASE v = u
    <3>1. <<fd, e>> \in Registrations' /\ Target(<<fd, e>>[1], <<fd, e>>[2])' = v
      BY <1>1, <2>1
    <3>2. wakes'[v] = 0
      BY <1>2, <2>1
    <3>3. QED
      BY <3>1, <3>2
  <2>2. CASE v # u
    <3>1. v \in waiting' <=> v \in waiting
      BY <1>2, <2>2
    <3>2. \A r \in Registrations : r \in Registrations' /\ Target(r[1], r[2])' = Target(r[1], r[2])
      BY <1>1
    <3>3. wakes' = wakes
      BY <1>2
    <3>4. QED
      BY <3>1, <3>2, <3>3 DEF EventInv, Woken
  <2>3. QED
    BY <2>1, <2>2
<1>6. QED
  BY <1>1, <1>3, <1>4, <1>5 DEF EventInv

\* delEvent keeps the invariant.
LEMMA Deleted ==
    ASSUME EventInv, Disciplined, NEW fd \in Fds, NEW e \in Events, DelEvent(fd, e)
    PROVE  EventInv'
<1> DEFINE u == Target(fd, e)
<1>0. /\ TypeOK /\ e \in events[fd] /\ events[fd] = {e} /\ Dirs[fd] = {e}
      /\ u \in waiting /\ waiting \subseteq Waiters /\ wakes[u] = 0
  <2>1. e \in events[fd] /\ TypeOK
    BY DEF EventInv, Held, DelEvent
  <2>2. events[fd] = {e} /\ Dirs[fd] = {e}
    BY <2>1, SingleEvent DEF EventInv, Held, Disciplined
  <2>3. QED
    BY <2>1, <2>2 DEF EventInv, Held, Holding, TypeOK
<1>1. events' = [events EXCEPT ![fd] = @ \ {e}]
  BY DEF DelEvent
<1>2. /\ Registrations' = Registrations \ {<<fd, e>>}
      /\ Cardinality(Registrations') = Cardinality(Registrations) - 1
      /\ Cardinality(Registrations') \in Nat
  BY <1>0, <1>1, OneLess
<1>3. events'[fd] = {} /\ \A gd \in Fds : gd # fd => events'[gd] = events[gd]
  BY <1>0, <1>1 DEF TypeOK
<1>4. UNCHANGED <<ready, report, wakes, crashed>> /\ waiting' = waiting \ {u}
  BY DEF DelEvent
<1>5. /\ InterestMatches' /\ Listening'
      /\ interest' \in [Fds -> SUBSET Events] /\ events' \in [Fds -> SUBSET Events]
  BY <1>0, <1>1 DEF EventInv, Held, InterestMatches, Listening, DelEvent, EpollCtl, TypeOK
<1>6. PendingCount' /\ m_pendingEventCount' \in Nat
  BY <1>0, <1>2 DEF EventInv, Held, PendingCount, DelEvent
<1>7. listed' = listed \ {fd}
  BY <1>0 DEF DelEvent, EpollCtl, Reportable
<1>8. NoLostEvent'
  BY <1>3, <1>4, <1>7 DEF EventInv, Held, NoLostEvent
<1>9. Directed'
  BY <1>3, <1>4 DEF EventInv, Held, Directed
<1> DEFINE none == [scheduler |-> FALSE, fiber |-> NoWaiter, cb |-> NoWaiter]
<1>10. \A gd \in Fds : \A f \in Events :
         ctx'[gd][f] = IF gd = fd /\ f = e THEN none ELSE ctx[gd][f]
  BY <1>0 DEF DelEvent, TypeOK
<1>11. ctx' \in [Fds -> [Events -> EventContext]]
  <2>1. none \in EventContext
    BY DEF EventContext
  <2>2. ctx' = [ctx EXCEPT ![fd][e] = none]
    BY DEF DelEvent
  <2> HIDE DEF none
  <2>3. QED
    BY <1>0, <2>1, <2>2 DEF TypeOK
<1>12. TypeOK'
  BY <1>0, <1>4, <1>5, <1>6, <1>7, <1>11 DEF TypeOK
<1>13. Contexts'
  <2> SUFFICES ASSUME NEW gd \in Fds, NEW f \in Events
      PROVE  /\ ctx'[gd][f].scheduler <=> f \in events'[gd]
             /\ Kinds[gd] = {"fiber"} => ctx'[gd][f].cb = NoWaiter
    BY DEF Contexts
  <2>0. ~none.scheduler /\ none.cb = NoWaiter
    OBVIOUS
  <2> HIDE DEF none
  <2>1. CASE gd = fd /\ f = e
    BY <1>0, <1>3, <1>10, <2>0, <2>1
  <2>2. CASE ~(gd = fd /\ f = e)
    BY <1>0, <1>3, <1>10, <2>2 DEF EventInv, Held, Contexts
  <2>3. QED
    BY <2>1, <2>2
<1> HIDE DEF none
<1>14. \A r \in Registrations' :
         /\ r \in Registrations
         /\ r[1] \in Fds /\ r[2] \in Events /\ r[2] \in events[r[1]]
         /\ Target(r[1], r[2])' = Target(r[1], r[2])
         /\ Target(r[1], r[2]) # u
  <2> SUFFICES ASSUME NEW r \in Registrations'
      PROVE  /\ r \in Registrations
             /\ r[1] \in Fds /\ r[2] \in Events /\ r[2] \in events[r[1]]
             /\ Target(r[1], r[2])' = Target(r[1], r[2])
             /\ Target(r[1], r[2]) # u
    OBVIOUS
  <2>1. r \in Registrations /\ r # <<fd, e>>
    BY <1>2
  <2>2. r[1] \in Fds /\ r[2] \in Events /\ r[2] \in events[r[1]]
    BY <2>1 DEF Registrations
  <2>3. ctx'[r[1]][r[2]] = ctx[r[1]][r[2]]
    BY <1>10, <2>1, <2>2 DEF Registrations
  <2>4. Target(r[1], r[2])' = Target(r[1], r[2])
    BY <2>3 DEF Target
  <2>5. <<fd, e>> \in Registrations
    BY <1>0 DEF Registrations
  <2>6. Target(r[1], r[2]) # u
    BY <2>1, <2>5 DEF EventInv, Held, Alone
  <2>7. QED
    BY <2>1, <2>2, <2>4, <2>6
<1>15. Holding'
  <2> SUFFICES ASSUME NEW gd \in Fds, NEW f \in events'[gd]
      PROVE  Target(gd, f)' \in waiting' /\ wakes'[Target(gd, f)'] = 0
    BY DEF Holding
  <2>1. <<gd, f>> \in Registrations'
    BY <1>5 DEF Registrations
  <2>2. f \in events[gd] /\ Target(gd, f)' = Target(gd, f) /\ Target(gd, f) # u
    BY <1>14, <2>1
  <2>3. QED
    BY <1>4, <2>2 DEF EventInv, Held, Holding
<1>16. Alone'
  BY <1>14 DEF EventInv, Held, Alone
<1>17. Woken'
  <2> SUFFICES ASSUME NEW v \in Waiters
      PROVE /\ wakes'[v] \in {0, 1}
            /\ wakes'[v] = 1 => v \in waiting'
            /\ v \in waiting' /\ wakes'[v] = 0
                 => \E r \in Registrations' : Target(r[1], r[2])' = v
    BY DEF Woken
  <2>1. CASE v = u
    BY <1>0, <1>4, <2>1
  <2>2. CASE v # u
    <3>1. ASSUME NEW r \in Registrations, Target(r[1], r[2]) = v
          PROVE  r \in Registrations' /\ Target(r[1], r[2])' = v
      <4>1. r \in Registrations'
        BY <1>2, <2>2, <3>1
      <4>2. QED
        BY <1>14, <3>1, <4>1
    <3>2. wakes' = wakes /\ (v \in waiting' <=> v \in waiting)
      BY <1>4, <2>2
    <3>3. QED
      BY <3>1, <3>2 DEF EventInv, Held, Woken
  <2>3. QED
    BY <2>1, <2>2
<1>18. NoNullScheduler'
  BY <1>4 DEF EventInv, Held, NoNullScheduler
<1>19. QED
  BY <1>5, <1>6, <1>8, <1>9, <1>12, <1>13, <1>15, <1>16, <1>17, <1>18 DEF EventInv, Held

\* The parts of the invariant that speak of who waits for what.
LEMMA HeldSame ==
    ASSUME Held, TypeOK', Directed', Listening',
           UNCHANGED <<events, ctx, m_pendingEventCount, crashed>>,
           \A fd \in Fds : \A e \in events[fd] :
               Target(fd, e) \in waiting' /\ wakes'[Target(fd, e)] = 0
    PROVE  /\ Held' /\ Registrations' = Registrations
           /\ \A fd, e : Target(fd, e)' = Target(fd, e)
<1>1. Registrations' = Registrations
  BY DEF Registrations
<1>2. \A fd, e : Target(fd, e)' = Target(fd, e)
  BY DEF Target
<1>3. NoNullScheduler' /\ PendingCount' /\ Contexts'
  BY <1>1 DEF Held, NoNullScheduler, PendingCount, Contexts
<1>4. Holding' /\ Alone'
  BY <1>1, <1>2 DEF Held, Holding, Alone
<1>5. QED
  BY <1>1, <1>2, <1>3, <1>4 DEF Held

LEMMA SameWaiters ==
    ASSUME EventInv, TypeOK', NoLostEvent', Directed',
           UNCHANGED <<events, ctx, m_pendingEventCount, interest, waiting, wakes, crashed>>
    PROVE  EventInv'
<1>1. Listening'
  BY DEF EventInv, Held, Listening
<1>2. /\ Held' /\ Registrations' = Registrations
      /\ \A fd, e : Target(fd, e)' = Target(fd, e)
  <2>1. \A fd \in Fds : \A e \in events[fd] :
            Target(fd, e) \in waiting' /\ wakes'[Target(fd, e)] = 0
    BY DEF EventInv, Held, Holding
  <2>2. QED
    BY <1>1, <2>1, HeldSame DEF EventInv
<1>3. InterestMatches' /\ Woken'
  BY <1>2 DEF EventInv, InterestMatches, Woken
<1>4. QED
  BY <1>2, <1>3 DEF EventInv

\* What the kernel does keeps the invariant: an edge is listed.
LEMMA KernelStep ==
    ASSUME EventInv, NEW fd \in Fds, Kernel(fd)
    PROVE  EventInv'
<1>1. ASSUME NEW c \in Dirs[fd] \cup {ERR}, Arrive(fd, c) PROVE EventInv'
  <2>0. TypeOK /\ c \in Events \cup {ERR}
    BY IOManagerAssumption DEF EventInv, Held
  <2>1. TypeOK'
    BY <1>1, <2>0 DEF Arrive, TypeOK
  <2>2. Directed'
    BY <1>1 DEF EventInv, Held, Arrive, Directed
  <2>3. NoLostEvent'
    BY <1>1, <2>0 DEF EventInv, Held, Arrive, NoLostEvent, InterestMatches, TypeOK
  <2>4. QED
    BY <1>1, <2>1, <2>2, <2>3, SameWaiters DEF Arrive
<1>2. ASSUME NEW e \in Dirs[fd], Consume(fd, e) PROVE EventInv'
  <2>1. TypeOK'
    BY <1>2 DEF EventInv, Held, Consume, TypeOK
  <2>2. Directed'
    BY <1>2 DEF EventInv, Held, Consume, Directed
  <2>3. NoLostEvent'
    BY <1>2 DEF EventInv, Held, Consume, NoLostEvent, TypeOK
  <2>4. QED
    BY <1>2, <2>1, <2>2, <2>3, SameWaiters DEF Consume
<1>3. QED
  BY <1>1, <1>2 DEF Kernel

\* epoll_wait moves the events of the list into one worker's report.
LEMMA HeldEpollWait ==
    ASSUME Held, NEW w \in Workers, EpollWait(w)
    PROVE  /\ TypeOK' /\ Directed'
           /\ \A v \in Workers : \A fd \in Fds :
                report'[v][fd] = IF v # w THEN report[v][fd]
                                 ELSE IF fd \in listed THEN Reportable(fd, interest[fd]) ELSE {}
<1>0. TypeOK /\ Listening
  BY DEF Held
<1>1. \A fd \in Fds : Reportable(fd, interest[fd]) \subseteq Dirs[fd] \cup {ERR}
                      /\ Reportable(fd, interest[fd]) \subseteq Events \cup {ERR}
  BY <1>0 DEF Reportable, Held, Directed, TypeOK, Listening
<1>2. \A v \in Workers : \A fd \in Fds :
        report'[v][fd] = IF v # w THEN report[v][fd]
                         ELSE IF fd \in listed THEN Reportable(fd, interest[fd]) ELSE {}
  BY <1>0 DEF EpollWait, TypeOK
<1>3. TypeOK'
  <2>1. report' \in [Workers -> [Fds -> SUBSET (Events \cup {ERR})]]
    BY <1>0, <1>1 DEF EpollWait, TypeOK
  <2>2. QED
    BY <1>0, <2>1 DEF EpollWait, TypeOK
<1>4. Directed'
  BY <1>1, <1>2 DEF Held, Directed, EpollWait
<1>5. QED
  BY <1>2, <1>3, <1>4

LEMMA EpollWaitStep ==
    ASSUME EventInv, Disciplined, NEW w \in Workers, EpollWait(w)
    PROVE  EventInv'
<1>0. TypeOK /\ interest = events
  BY DEF EventInv, Held, InterestMatches
<1>2. /\ TypeOK' /\ Directed'
      /\ \A v \in Workers : \A fd \in Fds :
           report'[v][fd] = IF v # w THEN report[v][fd]
                            ELSE IF fd \in listed THEN Reportable(fd, interest[fd]) ELSE {}
  BY HeldEpollWait DEF EventInv
<1>5. NoLostEvent'
  <2> SUFFICES ASSUME NEW fd \in Fds, NEW e \in events[fd] \cap ready[fd]
      PROVE  \E v \in Workers : {e, ERR} \cap report'[v][fd] # {}
    BY DEF NoLostEvent, EpollWait
  <2>1. CASE fd \in listed
    <3>1. e \in Reportable(fd, interest[fd])
      BY <1>0 DEF Reportable
    <3>2. QED
      BY <1>2, <2>1, <3>1
  <2>2. CASE fd \notin listed
    <3>1. PICK v \in Workers : {e, ERR} \cap report[v][fd] # {}
      BY <2>2 DEF EventInv, Held, NoLostEvent
    <3>2. v # w
      BY <3>1 DEF EpollWait, NoReport
    <3>3. QED
      BY <1>2, <3>1, <3>2
  <2>3. QED
    BY <2>1, <2>2
<1>6. QED
  BY <1>2, <1>5, SameWaiters DEF EpollWait

\* What idle() works out for a report of the one event of fd: that event, if it is
\* waited for, and its scheduler is there.
LEMMA RealSingle ==
    ASSUME Held, Disciplined, NEW w \in Workers, NEW fd \in Fds,
           NEW e \in events[fd] \cap RealEvents(fd, report[w][fd])
    PROVE  /\ RealEvents(fd, report[w][fd]) = {e} /\ events[fd] = {e}
           /\ ctx[fd][e].scheduler
<1>1. e \in Events /\ events[fd] = {e} /\ Dirs[fd] = {e}
  BY SingleEvent DEF Held, Disciplined
<1>2. report[w][fd] \subseteq {e, ERR}
  BY <1>1 DEF Held, Directed
<1>3. ERR \notin Events
  BY DEF ERR, Events, READ, WRITE
<1>4. RealEvents(fd, report[w][fd]) = {e}
  BY <1>1, <1>2, <1>3 DEF RealEvents
<1>5. QED
  BY <1>1, <1>4 DEF Held, Contexts

\* idle()'s treatment of one reported event runs the event, or drops the report.
LEMMA ProcessTriggers ==
    ASSUME Held, Disciplined, NEW w \in Workers, NEW fd \in Fds, Process(w, fd)
    PROVE  /\ report' \in [Workers -> [Fds -> SUBSET (Events \cup {ERR})]]
           /\ \A v \in Workers : \A gd \in Fds :
                report'[v][gd] = IF v = w /\ gd = fd THEN {} ELSE report[v][gd]
           /\ UNCHANGED <<ready, waiting, crashed>>
           /\ \/ /\ events[fd] \cap RealEvents(fd, report[w][fd]) = {}
                 /\ UNCHANGED <<events, ctx, m_pendingEventCount, interest, listed, wakes>>
              \/ \E e \in events[fd] : Trigger(fd, {e}) /\ EpollCtl(fd, {})
<1> DEFINE real == RealEvents(fd, report[w][fd])
<1>0. TypeOK
  BY DEF Held
<1>1. report' = [report EXCEPT ![w][fd] = {}] /\ UNCHANGED <<ready, waiting>>
  BY DEF Process
<1>2. report' \in [Workers -> [Fds -> SUBSET (Events \cup {ERR})]]
  BY <1>0, <1>1 DEF TypeOK
<1>3. \A v \in Workers : \A gd \in Fds :
        report'[v][gd] = IF v = w /\ gd = fd THEN {} ELSE report[v][gd]
  BY <1>0, <1>1 DEF TypeOK
<1>4. CASE events[fd] \cap real = {}
  BY <1>1, <1>2, <1>3, <1>4 DEF Process
<1>5. CASE events[fd] \cap real # {}
  <2>1. PICK e \in events[fd] : e \in real
    BY <1>5
  <2>2. real = {e} /\ events[fd] = {e} /\ ctx[fd][e].scheduler
    BY <2>1, RealSingle
  <2>3. ~(\E f \in real : ~ctx[fd][f].scheduler)
    BY <2>2
  <2>4. EpollCtl(fd, events[fd] \ real) /\ Trigger(fd, real) /\ UNCHANGED crashed
    BY <1>5, <2>3 DEF Process
  <2>5. EpollCtl(fd, {}) /\ Trigger(fd, {e})
    <3>1. events[fd] \ real = {}
      BY <2>2
    <3>2. QED
      BY <2>2, <2>4, <3>1
  <2>6. QED
    BY <1>1, <1>2, <1>3, <2>4, <2>5
<1>6. QED
  BY <1>4, <1>5

\* idle()'s treatment of one reported event keeps the invariant.
LEMMA ProcessStep ==
    ASSUME EventInv, Disciplined, NEW w \in Workers, NEW fd \in Fds, Process(w, fd)
    PROVE  EventInv'
<1> DEFINE real == RealEvents(fd, report[w][fd])
<1>0. TypeOK
  BY DEF EventInv, Held
<1>1. /\ report' \in [Workers -> [Fds -> SUBSET (Events \cup {ERR})]]
      /\ \A v \in Workers : \A gd \in Fds :
           report'[v][gd] = IF v = w /\ gd = fd THEN {} ELSE report[v][gd]
      /\ UNCHANGED <<ready, waiting, crashed>>
      /\ \/ /\ events[fd] \cap real = {}
            /\ UNCHANGED <<events, ctx, m_pendingEventCount, interest, listed, wakes>>
         \/ \E e \in events[fd] : Trigger(fd, {e}) /\ EpollCtl(fd, {})
  BY ProcessTriggers DEF EventInv
<1>2. CASE /\ events[fd] \cap real = {}
           /\ UNCHANGED <<events, ctx, m_pendingEventCount, interest, listed, wakes>>
  <2>1. TypeOK'
    BY <1>0, <1>1, <1>2 DEF TypeOK
  <2>2. Directed'
    BY <1>1, <1>2 DEF EventInv, Held, Directed
  <2>3. NoLostEvent'
    <3> SUFFICES ASSUME NEW gd \in Fds, NEW e \in events[gd] \cap ready[gd], gd \notin listed
        PROVE  \E v \in Workers : {e, ERR} \cap report'[v][gd] # {}
      BY <1>1, <1>2 DEF NoLostEvent
    <3>1. PICK v \in Workers : {e, ERR} \cap report[v][gd] # {}
      BY DEF EventInv, NoLostEvent
    <3>2. ASSUME v = w, gd = fd PROVE FALSE
      <4>1. e \in Events
        BY <1>0 DEF TypeOK
      <4>2. e \in real
        BY <3>1, <3>2, <4>1 DEF RealEvents
      <4>3. QED
        BY <1>2, <3>2, <4>2
    <3>3. QED
      BY <1>1, <3>1, <3>2
  <2>4. QED
    BY <1>1, <1>2, <2>1, <2>2, <2>3, SameWaiters
<1>3. CASE \E e \in events[fd] : Trigger(fd, {e}) /\ EpollCtl(fd, {})
  <2> HIDE DEF real
  <2>1. QED
    BY <1>1, <1>3, Triggered
<1>4. QED
  BY <1>1, <1>2, <1>3

\* cancelEvent and cancelAll trigger the one event that is waited for.
LEMMA CancelTriggers ==
    ASSUME Held, Disciplined, NEW fd \in Fds,
           CancelAll(fd) \/ \E e \in Events : CancelEvent(fd, e)
    PROVE  /\ \E e \in events[fd] : Trigger(fd, {e}) /\ EpollCtl(fd, {})
           /\ UNCHANGED <<ready, report, waiting, crashed>>
<1>1. CASE CancelAll(fd)
  <2>1. PICK e \in events[fd] : TRUE
    BY <1>1 DEF CancelAll
  <2>2. events[fd] = {e}
    BY SingleEvent DEF Held, Disciplined
  <2>3. QED
    BY <1>1, <2>2 DEF CancelAll
<1>2. ASSUME NEW e \in Events, CancelEvent(fd, e)
      PROVE  /\ \E f \in events[fd] : Trigger(fd, {f}) /\ EpollCtl(fd, {})
             /\ UNCHANGED <<ready, report, waiting, crashed>>
  <2>1. e \in events[fd]
    BY <1>2 DEF CancelEvent
  <2>2. events[fd] = {e}
    BY <2>1, SingleEvent DEF Held, Disciplined
  <2>3. events[fd] \ {e} = {}
    BY <2>2
  <2>4. QED
    BY <1>2, <2>1, <2>3 DEF CancelEvent
<1>3. QED
  BY <1>1, <1>2

\* cancelEvent and cancelAll keep the invariant.
LEMMA Cancelled ==
    ASSUME EventInv, Disciplined, NEW fd \in Fds,
           CancelAll(fd) \/ \E e \in Events : CancelEvent(fd, e)
    PROVE  EventInv'
<1>1. /\ \E e \in events[fd] : Trigger(fd, {e}) /\ EpollCtl(fd, {})
      /\ UNCHANGED <<ready, report, waiting, crashed>>
  BY CancelTriggers DEF EventInv
<1>2. report' \in [Workers -> [Fds -> SUBSET (Events \cup {ERR})]]
  BY <1>1 DEF EventInv, Held, TypeOK
<1>3. QED
  BY <1>1, <1>2, Triggered

\* A scheduled waiter runs.
LEMMA ResumeStep ==
    ASSUME EventInv, NEW u \in Waiters, Resume(u)
    PROVE  EventInv'
<1>0. TypeOK /\ wakes[u] = 1 /\ u \in waiting
  BY DEF EventInv, Held, Woken, Resume
<1>1. /\ wakes' = [wakes EXCEPT ![u] = 0] /\ waiting' = waiting \ {u}
      /\ UNCHANGED <<events, ctx, m_pendingEventCount, interest, ready, listed, report, crashed>>
  BY <1>0 DEF Resume, TypeOK
<1>2. TypeOK'
  BY <1>0, <1>1 DEF TypeOK
<1>3. Registrations' = Registrations /\ \A fd, e : Target(fd, e)' = Target(fd, e)
  BY <1>1 DEF Registrations, Target
<1>4. \A v \in Waiters : wakes'[v] = IF v = u THEN 0 ELSE wakes[v]
  BY <1>0, <1>1 DEF TypeOK
<1>5. /\ NoNullScheduler' /\ PendingCount' /\ InterestMatches' /\ Listening'
      /\ NoLostEvent' /\ Directed' /\ Contexts'
  BY <1>1, <1>3 DEF EventInv, Held, NoNullScheduler, PendingCount, InterestMatches, Listening,
                    NoLostEvent, Directed, Contexts
<1>6. Holding'
  <2> SUFFICES ASSUME NEW fd \in Fds, NEW e \in events[fd]
      PROVE  Target(fd, e) \in waiting' /\ wakes'[Target(fd, e)] = 0
    BY <1>1, <1>3 DEF Holding
  <2>1. Target(fd, e) \in waiting /\ wakes[Target(fd, e)] = 0
    BY DEF EventInv, Held, Holding
  <2>2. QED
    BY <1>0, <1>1, <1>4, <2>1 DEF TypeOK
<1>7. Alone'
  BY <1>3 DEF EventInv, Held, Alone
<1>8. Woken'
  BY <1>0, <1>1, <1>3, <1>4 DEF EventInv, Held, Woken
<1>9. QED
  BY <1>2, <1>5, <1>6, <1>7, <1>8 DEF EventInv, Held

\* Every step keeps the invariant.
LEMMA NextInv == Disciplined /\ EventInv /\ [Next]_vars => EventInv'
<1> SUFFICES ASSUME Disciplined, EventInv, [Next]_vars PROVE EventInv'
  OBVIOUS
<1>1. CASE UNCHANGED vars
  <2>1. TypeOK' /\ NoLostEvent' /\ Directed'
    BY <1>1 DEF vars, EventInv, Held, TypeOK, NoLostEvent, Directed
  <2>2. QED
    BY <1>1, <2>1, SameWaiters DEF vars
<1>2. ASSUME NEW fd \in Fds, Kernel(fd) PROVE EventInv'
  BY <1>2, KernelStep
<1>3. ASSUME NEW fd \in Fds, CancelAll(fd) PROVE EventInv'
  BY <1>3, Cancelled
<1>4. ASSUME NEW fd \in Fds, NEW e \in Events, Caller(fd, e) PROVE EventInv'
  <2>1. ASSUME NEW u \in Waiters, NEW kind \in {"fiber", "cb"}, AddEvent(fd, e, u, kind)
        PROVE  EventInv'
    BY <2>1, Added
  <2>2. CASE DelEvent(fd, e)
    BY <2>2, Deleted
  <2>3. CASE CancelEvent(fd, e)
    BY <2>3, Cancelled
  <2>4. QED
    BY <1>4, <2>1, <2>2, <2>3 DEF Caller
<1>5. ASSUME NEW w \in Workers, EpollWait(w) PROVE EventInv'
  BY <1>5, EpollWaitStep
<1>6. ASSUME NEW w \in Workers, NEW fd \in Fds, Process(w, fd) PROVE EventInv'
  BY <1>6, ProcessStep
<1>7. ASSUME NEW u \in Waiters, Resume(u) PROVE EventInv'
  BY <1>7, ResumeStep
<1>8. QED
  BY <1>1, <1>2, <1>3, <1>4, <1>5, <1>6, <1>7 DEF Next

-----------------------------------------------------------------------------
(* The theorems                                                            *)

\* EventInv holds always: idle(), addEvent, delEvent, cancelEvent and cancelAll in
\* any order, by any number of threads, for any number of descriptors.
THEOREM EventInvariant == ASSUME Disciplined PROVE Spec => []EventInv
<1>1. EventInv /\ [Next]_vars => EventInv'
  BY NextInv
<1>2. QED
  BY InitInv, <1>1, PTL DEF Spec

\* TypeOK: among the rest, the unsigned m_pendingEventCount never wraps.
THEOREM TypeCorrect == ASSUME Disciplined PROVE Spec => []TypeOK
<1>1. EventInv => TypeOK
  BY DEF EventInv, Held
<1>2. QED
  BY <1>1, EventInvariant, PTL

\* NoNullScheduler: triggerEvent never uses a scheduler that was taken away.
THEOREM NeverNull == ASSUME Disciplined PROVE Spec => []NoNullScheduler
<1>1. EventInv => NoNullScheduler
  BY DEF EventInv, Held
<1>2. QED
  BY <1>1, EventInvariant, PTL

\* PendingCount: what stopping() reads is the number of events waited for.
THEOREM CountExact == ASSUME Disciplined PROVE Spec => []PendingCount
<1>1. EventInv => PendingCount
  BY DEF EventInv, Held
<1>2. QED
  BY <1>1, EventInvariant, PTL

\* InterestMatches: epoll and the FdContexts agree.
THEOREM EpollAgrees == ASSUME Disciplined PROVE Spec => []InterestMatches
<1>1. EventInv => InterestMatches
  BY DEF EventInv, Held
<1>2. QED
  BY <1>1, EventInvariant, PTL

\* NoLostEvent: no edge of a descriptor somebody waits for is lost between
\* addEvent, epoll's list and the workers' reports.
THEOREM EdgesKept == ASSUME Disciplined PROVE Spec => []NoLostEvent
<1>1. EventInv => NoLostEvent
  BY DEF EventInv, Held
<1>2. QED
  BY <1>1, EventInvariant, PTL

\* How many events hold u.
LEMMA HeldHolders ==
    ASSUME Held, NEW u \in Waiters
    PROVE  /\ Holders(u) = IF \E r \in Registrations : Target(r[1], r[2]) = u THEN 1 ELSE 0
           /\ \A r \in Registrations : Target(r[1], r[2]) = u => u \in waiting /\ wakes[u] = 0
<1> DEFINE H == {r \in Registrations : Target(r[1], r[2]) = u}
<1>1. Holders(u) = Cardinality(H)
  BY DEF Holders
<1>2. ASSUME NEW r \in Registrations, Target(r[1], r[2]) = u PROVE Holders(u) = 1
  <2>1. \A q \in H : q = r
    BY <1>2 DEF Held, Alone
  <2>2. H = {r}
    BY <1>2, <2>1
  <2>3. QED
    BY <1>1, <2>2, FS_Singleton
<1>3. ASSUME ~\E r \in Registrations : Target(r[1], r[2]) = u PROVE Holders(u) = 0
  <2>1. H = {}
    BY <1>3
  <2>2. QED
    BY <1>1, <2>1, FS_EmptySet
<1>4. ASSUME NEW r \in Registrations, Target(r[1], r[2]) = u
      PROVE  u \in waiting /\ wakes[u] = 0
  <2>1. r[1] \in Fds /\ r[2] \in events[r[1]]
    BY DEF Registrations
  <2>2. QED
    BY <1>4, <2>1 DEF Held, Holding
<1>5. QED
  BY <1>2, <1>3, <1>4

LEMMA HoldersValue ==
    ASSUME EventInv, NEW u \in Waiters
    PROVE  Holders(u) = IF u \in waiting /\ wakes[u] = 0 THEN 1 ELSE 0
<1>1. /\ Holders(u) = IF \E r \in Registrations : Target(r[1], r[2]) = u THEN 1 ELSE 0
      /\ \A r \in Registrations : Target(r[1], r[2]) = u => u \in waiting /\ wakes[u] = 0
  BY HeldHolders DEF EventInv
<1>2. QED
  BY <1>1 DEF EventInv, Woken

\* RunOnce: who waits is run exactly once, and nobody else is.
THEOREM RunExactlyOnce == ASSUME Disciplined PROVE Spec => []RunOnce
<1>1. EventInv => RunOnce
  <2> SUFFICES ASSUME EventInv, NEW u \in Waiters
      PROVE  Holders(u) + wakes[u] = IF u \in waiting THEN 1 ELSE 0
    BY DEF RunOnce
  <2>1. /\ wakes[u] \in {0, 1}
        /\ wakes[u] = 1 => u \in waiting
    BY DEF EventInv, Held, Woken
  <2>2. QED
    BY <2>1, HoldersValue
<1>2. QED
  BY <1>1, EventInvariant, PTL

-----------------------------------------------------------------------------
(* IOManager implements Waker                                              *)

\* Where u is in Waker's terms.
Place(u) == IF wakes[u] = 1 THEN "woken" ELSE IF u \in waiting THEN "held" ELSE "idle"

LEMMA StateIsPlace == EventInv => \A u \in Waiters : WakerState(u) = Place(u)
<1> SUFFICES ASSUME EventInv, NEW u \in Waiters PROVE WakerState(u) = Place(u)
  OBVIOUS
<1>1. /\ wakes[u] \in {0, 1}
      /\ wakes[u] = 1 => u \in waiting
      /\ Holders(u) = IF u \in waiting /\ wakes[u] = 0 THEN 1 ELSE 0
  BY HoldersValue DEF EventInv, Held, Woken
<1>2. QED
  BY <1>1 DEF WakerState, Place

\* A step that moves the waiters of S from one place to another, and nobody else.
LEMMA Moves ==
    ASSUME EventInv, EventInv', NEW S \in SUBSET Waiters, NEW from, NEW to,
           \A u \in S : Place(u) = from /\ Place(u)' = to,
           \A u \in Waiters \ S : Place(u)' = Place(u)
    PROVE  Abstract!Move(S, from, to)
<1>1. \A u \in Waiters : WakerState(u) = Place(u)
  BY StateIsPlace
<1>2. (\A u \in Waiters : WakerState(u) = Place(u))'
  BY StateIsPlace, PTL
<1>3. QED
  BY <1>1, <1>2 DEF Abstract!Move

\* Triggering the one event of a descriptor is Waker's Wake of its waiter.
LEMMA TriggerWakes ==
    ASSUME EventInv, EventInv', Disciplined, NEW fd \in Fds, NEW e \in events[fd],
           Trigger(fd, {e}), UNCHANGED waiting
    PROVE  Abstract!Wake({Target(fd, e)})
<1>1. TypeOK /\ e \in Events
  BY SingleEvent DEF EventInv, Held, Disciplined
<1>2. \A u \in Waiters :
        wakes'[u] = IF u = Target(fd, e) THEN wakes[u] + 1 ELSE wakes[u]
  BY <1>1, TriggerOne
<1>3. Target(fd, e) \in waiting /\ wakes[Target(fd, e)] = 0 /\ Target(fd, e) \in Waiters
  BY <1>1 DEF EventInv, Held, Holding, TypeOK
<1>4. Abstract!Move({Target(fd, e)}, "held", "woken")
  BY <1>2, <1>3, Moves DEF Place
<1>5. QED
  BY <1>4 DEF Abstract!Wake

\* Every step of IOManager is a step of Waker, or none.
LEMMA StepImplements ==
    ASSUME Disciplined, EventInv, EventInv', [Next]_vars
    PROVE  [Abstract!Next]_([u \in Waiters |-> WakerState(u)])
<1> DEFINE bar == [u \in Waiters |-> WakerState(u)]
<1>0. ASSUME UNCHANGED <<waiting, wakes>> PROVE bar' = bar
  <2>1. (\A u \in Waiters : WakerState(u) = Place(u))'
    BY StateIsPlace, PTL
  <2>2. \A u \in Waiters : WakerState(u) = Place(u)
    BY StateIsPlace
  <2>3. QED
    BY <1>0, <2>1, <2>2 DEF Place
<1>w. ASSUME NEW fd \in Fds, NEW e \in events[fd], Trigger(fd, {e}), UNCHANGED waiting
      PROVE  Abstract!Next
  <2>1. Abstract!Wake({Target(fd, e)})
    BY <1>w, TriggerWakes
  <2>2. Target(fd, e) \in Waiters
    BY DEF EventInv, Held, Holding, TypeOK
  <2>3. QED
    BY <2>1, <2>2 DEF Abstract!Next
<1>1. CASE UNCHANGED vars
  BY <1>0, <1>1 DEF vars
<1>2. ASSUME NEW fd \in Fds, Kernel(fd) PROVE bar' = bar
  BY <1>0, <1>2 DEF Kernel, Arrive, Consume
<1>3. ASSUME NEW fd \in Fds, CancelAll(fd) PROVE Abstract!Next
  <2>1. PICK e \in events[fd] : TRUE
    BY <1>3 DEF CancelAll
  <2>2. events[fd] = {e}
    BY SingleEvent DEF EventInv, Held, Disciplined
  <2>3. QED
    BY <1>3, <1>w, <2>2 DEF CancelAll
<1>4. ASSUME NEW fd \in Fds, NEW e \in Events, Caller(fd, e) PROVE Abstract!Next
  <2>1. ASSUME NEW u \in Waiters, NEW kind \in {"fiber", "cb"}, AddEvent(fd, e, u, kind)
        PROVE  Abstract!Next
    <3>1. u \notin waiting /\ wakes[u] = 0 /\ wakes' = wakes /\ waiting' = waiting \cup {u}
      BY <2>1 DEF AddEvent
    <3>2. Abstract!Move({u}, "idle", "held")
      BY <3>1, Moves DEF Place
    <3>3. QED
      BY <3>2 DEF Abstract!Register, Abstract!Next
  <2>2. CASE DelEvent(fd, e)
    <3>1. e \in events[fd] /\ wakes' = wakes /\ waiting' = waiting \ {Target(fd, e)}
      BY <2>2 DEF DelEvent
    <3>2. Target(fd, e) \in waiting /\ wakes[Target(fd, e)] = 0 /\ Target(fd, e) \in Waiters
      BY <3>1 DEF EventInv, Held, Holding, TypeOK
    <3>3. Abstract!Move({Target(fd, e)}, "held", "idle")
      BY <3>1, <3>2, Moves DEF Place
    <3>4. QED
      BY <3>2, <3>3 DEF Abstract!Withdraw, Abstract!Next
  <2>3. CASE CancelEvent(fd, e)
    BY <1>w, <2>3 DEF CancelEvent
  <2>4. QED
    BY <1>4, <2>1, <2>2, <2>3 DEF Caller
<1>5. ASSUME NEW w \in Workers, EpollWait(w) PROVE bar' = bar
  BY <1>0, <1>5 DEF EpollWait
<1>6. ASSUME NEW w \in Workers, NEW fd \in Fds, Process(w, fd)
      PROVE  Abstract!Next \/ bar' = bar
  <2> DEFINE real == RealEvents(fd, report[w][fd])
  <2>1. CASE events[fd] \cap real = {}
    BY <1>0, <1>6, <2>1 DEF Process
  <2>2. CASE events[fd] \cap real # {}
    <3>1. PICK e \in events[fd] : e \in real
      BY <2>2
    <3>2. real = {e} /\ ctx[fd][e].scheduler
      BY <3>1, RealSingle DEF EventInv
    <3>3. ~(\E f \in real : ~ctx[fd][f].scheduler)
      BY <3>2
    <3>4. Trigger(fd, real) /\ UNCHANGED waiting
      BY <1>6, <2>2, <3>3 DEF Process
    <3>5. QED
      BY <1>w, <3>2, <3>4
  <2>3. QED
    BY <2>1, <2>2
<1>7. ASSUME NEW u \in Waiters, Resume(u) PROVE Abstract!Next
  <2>1. wakes[u] = 1 /\ u \in waiting /\ TypeOK
    BY <1>7 DEF EventInv, Held, Woken, Resume
  <2>2. wakes' = [wakes EXCEPT ![u] = 0] /\ waiting' = waiting \ {u}
    BY <1>7, <2>1 DEF Resume, TypeOK
  <2>3. \A v \in Waiters : wakes'[v] = IF v = u THEN 0 ELSE wakes[v]
    BY <2>1, <2>2 DEF TypeOK
  <2>4. Abstract!Move({u}, "woken", "idle")
    BY <2>1, <2>2, <2>3, Moves DEF Place
  <2>5. QED
    BY <2>4 DEF Abstract!Run, Abstract!Next
<1>8. QED
  BY <1>1, <1>2, <1>3, <1>4, <1>5, <1>6, <1>7 DEF Next

\* ImplementsWaker: to those who wait, IOManager is the waker Scheduler relies on.
THEOREM WakerImplemented == ASSUME Disciplined PROVE Spec => ImplementsWaker
<1>1. Init => Abstract!Init
  <2> SUFFICES ASSUME Init PROVE Abstract!Init
    OBVIOUS
  <2>1. EventInv
    BY InitInv
  <2>2. \A u \in Waiters : WakerState(u) = Place(u)
    BY <2>1, StateIsPlace
  <2>3. \A u \in Waiters : Place(u) = "idle"
    BY DEF Init, Place
  <2>4. QED
    BY <2>2, <2>3 DEF Abstract!Init
<1>2. EventInv /\ EventInv' /\ [Next]_vars
        => [Abstract!Next]_([u \in Waiters |-> WakerState(u)])
  BY StepImplements
<1>3. QED
  BY <1>1, <1>2, EventInvariant, PTL DEF Spec, ImplementsWaker, Abstract!Spec

=============================================================================
