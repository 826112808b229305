-------------------------- MODULE EventCoreProofs --------------------------
(***************************************************************************)
(* The event loop keeps its promises for any number of events and delays,  *)
(* as long as m_uid does not wrap: with NoWrap, an event runs at most      *)
(* once, in order, unless it is cancelled in time, and an EventId answers  *)
(* truthfully for ever.                                                    *)
(***************************************************************************)
EXTENDS EventCore, FiniteSetTheorems, SequenceTheorems, WellFoundedInduction, TLAPS

\* Every EventImpl could have a uid of its own.
NoWrap == VALID + MaxEvents < UidMod

LEMMA SmallModulo ==
    ASSUME NEW x \in Nat, NEW m \in Nat, x < m
    PROVE  x % m = x
  OBVIOUS

\* Every set of natural numbers has a least element.
LEMMA LeastNatural ==
    ASSUME NEW S \in SUBSET Nat, S # {}
    PROVE  \E n \in S : \A m \in S : n <= m
<1>1. \E n \in S : \A m \in S : ~(<<m, n>> \in OpToRel(<, Nat))
  BY NatLessThanWellFounded, WFMin
<1>2. \A m, n \in S : ~(<<m, n>> \in OpToRel(<, Nat)) => n <= m
  BY DEF OpToRel
<1> QED
  BY <1>1, <1>2

LEMMA LongerSeq ==
    ASSUME NEW S, NEW T, S \subseteq T, NEW s \in Seq(S)
    PROVE  s \in Seq(T)
  OBVIOUS

LEMMA EntryOfSeq ==
    ASSUME NEW S, NEW s \in Seq(S), NEW i \in DOMAIN s
    PROVE  s[i] \in S
  OBVIOUS

---------------------------------------------------------------------------
(* The inductive invariant                                                 *)

\* Every event created has used up one uid, or will when it is taken over.
UidInv ==
    /\ VALID <= uid /\ uid + Len(pushed) <= VALID + created
    /\ current.uid < uid
    /\ \A e \in queue : VALID <= e.uid /\ e.uid < uid /\ Precedes(current, e)
    /\ \A e, f \in queue : e.uid = f.uid => e = f
    /\ \A id \in ids : id.uid = DESTROY \/ (VALID <= id.uid /\ id.uid < uid)
    /\ \A i \in DOMAIN destroyEvents : destroyEvents[i].uid = DESTROY

\* An EventImpl is in one place, once: pushed, queued, waiting for Destroy, or
\* in the past.
ImplInv ==
    /\ \A i, j \in DOMAIN pushed : pushed[i].impl = pushed[j].impl => i = j
    /\ \A e, f \in queue : e.impl = f.impl => e = f
    /\ \A i, j \in DOMAIN destroyEvents :
            destroyEvents[i].impl = destroyEvents[j].impl => i = j
    /\ \A i, j \in DOMAIN ran : ran[i] = ran[j] => i = j
    /\ \A i \in DOMAIN pushed :
        /\ \A e \in queue : pushed[i].impl # e.impl
        /\ \A j \in DOMAIN destroyEvents : pushed[i].impl # destroyEvents[j].impl
        /\ \A n \in DOMAIN ran : pushed[i].impl # ran[n]
    /\ \A e \in queue :
        /\ \A j \in DOMAIN destroyEvents : e.impl # destroyEvents[j].impl
        /\ \A n \in DOMAIN ran : e.impl # ran[n]
    /\ \A j \in DOMAIN destroyEvents : \A n \in DOMAIN ran : destroyEvents[j].impl # ran[n]

\* An identifier that has neither expired nor been cancelled is in the queue.
IdInv ==
    pc # "gone" => \A id \in ids :
        id.uid # DESTROY => id \in queue \/ ~Precedes(current, id) \/ id.impl \in cancelled

CountInv == IsFiniteSet(queue) /\ (pc # "gone" => unscheduled = Cardinality(queue))

\* Users' events in the queue have their uids in the order of creation.
OrderInv == \A e, f \in queue \cap ids : e.impl < f.impl => e.uid < f.uid

IInv == /\ CoreTypeOK /\ UidInv /\ ImplInv /\ IdInv /\ CountInv /\ OrderInv
        /\ CancelledNeverRuns /\ FlagTellsTheTruth

LEMMA InitInv == Init => IInv
<1> SUFFICES ASSUME Init PROVE IInv
  OBVIOUS
<1>1. CoreTypeOK
  <2>1. stop \in BOOLEAN /\ pushedEmpty \in BOOLEAN
    BY Zenon DEF Init
  <2>2. uid \in 0 .. UidMod - 1 /\ current \in [ts : Nat, uid : 0 .. UidMod - 1]
    BY EventCoreAssumption DEF Init, VALID, INVALID
  <2>3. queue \subseteq EventIds /\ cancelled \subseteq Impls /\ ids \subseteq EventIds
    BY DEF Init
  <2>4. /\ pushed \in Seq([delay : Delays, impl : Impls])
        /\ destroyEvents \in Seq(EventIds) /\ ran \in Seq(Impls)
    BY DEF Init
  <2>5. unscheduled \in Nat /\ created \in 0 .. MaxEvents
    BY EventCoreAssumption DEF Init
  <2> QED
    BY <2>1, <2>2, <2>3, <2>4, <2>5 DEF Init, CoreTypeOK
<1>2. CountInv
  BY FS_EmptySet DEF Init, CountInv
<1> QED
  BY <1>1, <1>2
  DEF Init, IInv, UidInv, ImplInv, IdInv, OrderInv, CancelledNeverRuns, FlagTellsTheTruth,
      VALID, INVALID

LEMMA LeastInQueue ==
    ASSUME IInv, queue # {}
    PROVE  Least \in queue /\ \A e \in queue \ {Least} : Precedes(Least, e)
<1>1. \A e \in queue : e.ts \in Nat /\ e.uid \in Nat
  BY EventCoreAssumption DEF IInv, CoreTypeOK, EventIds
<1>2. PICK t \in {e.ts : e \in queue} : \A s \in {e.ts : e \in queue} : t <= s
  BY <1>1, LeastNatural
<1> DEFINE First == {e \in queue : e.ts = t}
<1>3. PICK u \in {e.uid : e \in First} : \A v \in {e.uid : e \in First} : u <= v
  <2>1. {e.uid : e \in First} \in SUBSET Nat /\ {e.uid : e \in First} # {}
    BY <1>1, <1>2
  <2> QED
    BY <2>1, LeastNatural
<1>4. PICK e \in First : e.uid = u
  BY <1>3
<1>5. \A f \in queue \ {e} : Precedes(e, f)
  <2> TAKE f \in queue \ {e}
  <2>1. t <= f.ts
    BY <1>2
  <2>2. f.ts = t => u <= f.uid
    BY <1>3
  <2>3. f.uid # e.uid
    BY DEF IInv, UidInv
  <2> QED
    BY <1>1, <1>2, <1>4, <2>1, <2>2, <2>3 DEF Precedes
<1> QED
  BY <1>4, <1>5 DEF Least

\* What every step needs of the types
LEMMA Ranges ==
    ASSUME IInv
    PROVE  /\ uid \in Nat /\ created \in Nat /\ created <= MaxEvents /\ unscheduled \in Nat
           /\ Len(pushed) \in Nat
           /\ current.ts \in Nat /\ current.uid \in Nat
           /\ \A e \in queue \cup ids :
                /\ e.ts \in Nat /\ e.uid \in Nat /\ e.impl \in Nat /\ e.impl <= created
           /\ \A i \in DOMAIN pushed :
                /\ pushed[i].delay \in Nat /\ pushed[i].impl \in Impls
                /\ pushed[i].impl \in Nat /\ pushed[i].impl <= created
           /\ \A i \in DOMAIN destroyEvents :
                destroyEvents[i].impl \in Nat /\ destroyEvents[i].impl <= created
           /\ \A i \in DOMAIN ran : ran[i] \in Nat /\ ran[i] <= created
           /\ \A k \in cancelled : k \in Nat /\ k <= created
<1>1. /\ uid \in Nat /\ created \in Nat /\ created <= MaxEvents /\ unscheduled \in Nat
      /\ current.ts \in Nat /\ current.uid \in Nat
  BY EventCoreAssumption DEF IInv, CoreTypeOK
<1>2. \A e \in EventIds : e.ts \in Nat /\ e.uid \in Nat /\ e.impl \in Nat /\ e.impl <= created
  BY <1>1, EventCoreAssumption DEF EventIds, Impls
<1>3. \A k \in Impls : k \in Nat /\ k <= created
  BY <1>1 DEF Impls
<1>4. /\ Len(pushed) \in Nat
      /\ \A i \in DOMAIN pushed : pushed[i].delay \in Nat /\ pushed[i].impl \in Impls
  <2>1. pushed \in Seq([delay : Delays, impl : Impls]) /\ Len(pushed) \in Nat
    BY DEF IInv, CoreTypeOK
  <2>2. \A i \in DOMAIN pushed : pushed[i] \in [delay : Delays, impl : Impls]
    <3> DEFINE P == [delay : Delays, impl : Impls]
    <3>1. pushed \in Seq(P)
      BY <2>1
    <3> HIDE DEF P
    <3>2. \A i \in DOMAIN pushed : pushed[i] \in P
      BY <3>1, EntryOfSeq
    <3> QED
      BY <3>2 DEF P
  <2> QED
    BY <2>1, <2>2, EventCoreAssumption
<1>5. \A i \in DOMAIN destroyEvents : destroyEvents[i] \in EventIds
  BY DEF IInv, CoreTypeOK
<1>6. \A i \in DOMAIN ran : ran[i] \in Impls
  BY DEF IInv, CoreTypeOK
<1>7. queue \cup ids \subseteq EventIds /\ cancelled \subseteq Impls
  BY DEF IInv, CoreTypeOK
<1> QED
  BY <1>1, <1>2, <1>3, <1>4, <1>5, <1>6, <1>7

\* A step that moves the main thread, or calls Stop, and no more
LEMMA ControlStep ==
    ASSUME IInv,
           UNCHANGED <<queue, uid, current, unscheduled, threadVars, destroyEvents, cancelled,
                       historyVars>>,
           pc = "gone" => pc' = "gone", CoreTypeOK'
    PROVE  IInv'
<1>1. UidInv' /\ ImplInv' /\ OrderInv' /\ CancelledNeverRuns' /\ FlagTellsTheTruth'
  BY DEF IInv, UidInv, ImplInv, OrderInv, CancelledNeverRuns, FlagTellsTheTruth, Precedes,
         threadVars, historyVars
<1>2. IdInv'
  BY DEF IInv, IdInv, Precedes, historyVars
<1>3. CountInv'
  BY DEF IInv, CountInv
<1> QED
  BY <1>1, <1>2, <1>3 DEF IInv

LEMMA ControlSteps ==
    IInv /\ (\/ Run \/ HandlerReturns \/ RunReturns \/ Destroy \/ DestroyHandlerReturns
             \/ Stop \/ UNCHANGED vars) => IInv'
<1> SUFFICES ASSUME IInv,
                    \/ Run \/ HandlerReturns \/ RunReturns \/ Destroy
                    \/ DestroyHandlerReturns \/ Stop \/ UNCHANGED vars
             PROVE  IInv'
  OBVIOUS
<1> USE DEF Run, HandlerReturns, RunReturns, Destroy, DestroyHandlerReturns, Stop, UserCode,
            loopVars, threadVars, historyVars, vars
<1>1. UNCHANGED <<queue, uid, current, unscheduled, threadVars, destroyEvents, cancelled,
                  historyVars>>
  OBVIOUS
<1>2. pc = "gone" => pc' = "gone"
  OBVIOUS
<1>3. CoreTypeOK'
  <2>1. stop' \in BOOLEAN
    BY Zenon DEF IInv, CoreTypeOK
  <2>2. pc' \in {"outside", "enter", "loop", "handler", "after", "destroying",
                 "destroyHandler", "gone"}
    BY DEF IInv, CoreTypeOK
  <2> QED
    BY <1>1, <2>1, <2>2 DEF IInv, CoreTypeOK, EventIds, Impls
<1> QED
  BY <1>1, <1>2, <1>3, ControlStep

\* One more EventImpl, and what was typed before still is.
LEMMA OneMore ==
    ASSUME IInv, created < MaxEvents, created' = created + 1
    PROVE  /\ created' \in 0 .. MaxEvents /\ created' \in Impls'
           /\ Impls \subseteq Impls' /\ EventIds \subseteq EventIds'
           /\ queue \subseteq EventIds' /\ ids \subseteq EventIds' /\ cancelled \subseteq Impls'
           /\ pushed \in Seq([delay : Delays, impl : Impls'])
           /\ destroyEvents \in Seq(EventIds') /\ ran \in Seq(Impls')
<1>1. created' \in 0 .. MaxEvents /\ created' \in Impls' /\ Impls \subseteq Impls'
  BY EventCoreAssumption DEF IInv, CoreTypeOK, Impls
<1>2. EventIds \subseteq EventIds'
  BY <1>1 DEF EventIds
<1>3. [delay : Delays, impl : Impls] \subseteq [delay : Delays, impl : Impls']
  BY <1>1
<1>4. pushed \in Seq([delay : Delays, impl : Impls'])
  BY <1>3, LongerSeq DEF IInv, CoreTypeOK
<1>5. destroyEvents \in Seq(EventIds') /\ ran \in Seq(Impls')
  BY <1>1, <1>2, LongerSeq DEF IInv, CoreTypeOK
<1> QED
  BY <1>1, <1>2, <1>4, <1>5 DEF IInv, CoreTypeOK

\* The next uid does not wrap.
LEMMA NextUid ==
    ASSUME NoWrap, IInv, created < MaxEvents
    PROVE  (uid + 1) % UidMod = uid + 1 /\ uid + 1 \in 0 .. UidMod - 1
<1>1. uid + 1 < UidMod
  BY Ranges, EventCoreAssumption DEF NoWrap, IInv, UidInv, VALID, CoreTypeOK
<1>2. uid + 1 \in Nat /\ UidMod \in Nat
  BY Ranges, EventCoreAssumption
<1>3. (uid + 1) % UidMod = uid + 1
  BY <1>1, <1>2, SmallModulo
<1> QED
  BY <1>1, <1>2, <1>3

LEMMA ScheduleStep == NoWrap /\ IInv /\ Schedule => IInv'
<1> SUFFICES ASSUME NoWrap, IInv, Schedule PROVE IInv'
  OBVIOUS
<1>1. PICK d \in Delays :
        /\ queue' = queue \cup {[ts |-> current.ts + d, uid |-> uid, impl |-> created + 1]}
        /\ ids' = ids \cup {[ts |-> current.ts + d, uid |-> uid, impl |-> created + 1]}
  BY DEF Schedule
<1> DEFINE new == [ts |-> current.ts + d, uid |-> uid, impl |-> created + 1]
<1>2. /\ created < MaxEvents /\ created' = created + 1 /\ unscheduled' = unscheduled + 1
      /\ uid' = (uid + 1) % UidMod /\ UserCode
      /\ UNCHANGED <<pc, current, stop, threadVars, destroyEvents, cancelled, ran>>
  BY DEF Schedule
<1>3. uid' = uid + 1 /\ uid' \in 0 .. UidMod - 1
  BY <1>2, NextUid
<1>4. d \in Nat /\ new.ts \in Nat /\ new.ts >= current.ts
  BY EventCoreAssumption, Ranges
<1>5. new \in EventIds'
  BY <1>2, <1>4, OneMore DEF IInv, CoreTypeOK, EventIds
<1>6. CoreTypeOK'
  <2>1. queue' \subseteq EventIds' /\ ids' \subseteq EventIds'
    BY <1>1, <1>2, <1>5, OneMore
  <2> QED
    BY <1>2, <1>3, <2>1, OneMore, Ranges DEF IInv, CoreTypeOK, threadVars
<1>7. UidInv'
  <2>1. /\ VALID <= uid' /\ uid' + Len(pushed') <= VALID + created'
        /\ current'.uid < uid'
    BY <1>2, <1>3, Ranges DEF IInv, UidInv, threadVars, VALID
  <2>2. \A e \in queue' : VALID <= e.uid /\ e.uid < uid' /\ Precedes(current', e)
    <3>1. VALID <= uid /\ Precedes(current, new)
      BY <1>4, Ranges DEF IInv, UidInv, Precedes
    <3>2. \A e \in queue : VALID <= e.uid /\ e.uid < uid' /\ Precedes(current, e)
      BY <1>3, Ranges DEF IInv, UidInv
    <3> QED
      BY <1>1, <1>2, <1>3, <3>1, <3>2, Ranges DEF Precedes
  <2>3. \A e, f \in queue' : e.uid = f.uid => e = f
    BY <1>1, Ranges DEF IInv, UidInv
  <2>4. \A id \in ids' : id.uid = DESTROY \/ (VALID <= id.uid /\ id.uid < uid')
    BY <1>1, <1>3, Ranges DEF IInv, UidInv, VALID
  <2>5. \A i \in DOMAIN destroyEvents' : destroyEvents'[i].uid = DESTROY
    BY <1>2 DEF IInv, UidInv
  <2> QED
    BY <2>1, <2>2, <2>3, <2>4, <2>5 DEF UidInv
<1>8. ImplInv'
  BY <1>1, <1>2, Ranges DEF IInv, ImplInv, threadVars
<1>9. CountInv'
  <2>1. new \notin queue
    BY Ranges
  <2> QED
    BY <1>1, <1>2, <2>1, FS_AddElement DEF IInv, CountInv
<1>10. IdInv' /\ CancelledNeverRuns' /\ FlagTellsTheTruth'
  BY <1>1, <1>2 DEF IInv, IdInv, CancelledNeverRuns, FlagTellsTheTruth, Precedes, threadVars
<1>11. OrderInv'
  <2>1. new \notin queue /\ new \notin ids
    BY Ranges
  <2>2. \A e \in queue : e.uid < uid /\ e.impl <= created /\ e.impl \in Nat
    BY Ranges DEF IInv, UidInv
  <2> QED
    BY <1>1, <2>1, <2>2, Ranges DEF IInv, OrderInv
<1> QED
  BY <1>6, <1>7, <1>8, <1>9, <1>10, <1>11 DEF IInv

LEMMA ScheduleDestroyStep == NoWrap /\ IInv /\ ScheduleDestroy => IInv'
<1> SUFFICES ASSUME NoWrap, IInv, ScheduleDestroy PROVE IInv'
  OBVIOUS
<1> DEFINE new == [ts |-> current.ts, uid |-> DESTROY, impl |-> created + 1]
<1>1. destroyEvents' = Append(destroyEvents, new) /\ ids' = ids \cup {new}
  BY DEF ScheduleDestroy
<1>2. /\ created < MaxEvents /\ created' = created + 1 /\ UserCode
      /\ uid' = (uid + 1) % UidMod
      /\ UNCHANGED <<pc, queue, current, unscheduled, stop, threadVars, cancelled, ran>>
  BY DEF ScheduleDestroy
<1>3. uid' = uid + 1 /\ uid' \in 0 .. UidMod - 1
  BY <1>2, NextUid
<1>4. new \in EventIds'
  <2>1. DESTROY \in 0 .. UidMod - 1
    BY EventCoreAssumption DEF DESTROY, VALID
  <2> QED
    BY <1>2, <2>1, OneMore, Ranges DEF EventIds
<1>5. /\ \A i \in DOMAIN destroyEvents' :
            \/ i \in DOMAIN destroyEvents /\ destroyEvents'[i] = destroyEvents[i]
            \/ i = Len(destroyEvents) + 1 /\ destroyEvents'[i] = new
  BY <1>1 DEF IInv, CoreTypeOK
<1>6. CoreTypeOK'
  <2>1. destroyEvents' \in Seq(EventIds') /\ ids' \subseteq EventIds'
    BY <1>1, <1>2, <1>4, OneMore
  <2> QED
    BY <1>2, <1>3, <2>1, OneMore DEF IInv, CoreTypeOK, threadVars
<1>7. UidInv'
  <2>1. /\ VALID <= uid' /\ uid' + Len(pushed') <= VALID + created'
        /\ current'.uid < uid'
    BY SMTT(30), <1>2, <1>3, Ranges DEF IInv, UidInv, threadVars, VALID
  <2>2. \A e \in queue' : VALID <= e.uid /\ e.uid < uid' /\ Precedes(current', e)
    BY SMTT(30), <1>2, <1>3, Ranges DEF IInv, UidInv, Precedes, VALID
  <2>3. \A e, f \in queue' : e.uid = f.uid => e = f
    BY <1>2 DEF IInv, UidInv
  <2>4. \A id \in ids' : id.uid = DESTROY \/ (VALID <= id.uid /\ id.uid < uid')
    BY <1>1, <1>3, Ranges DEF IInv, UidInv, VALID
  <2>5. \A i \in DOMAIN destroyEvents' : destroyEvents'[i].uid = DESTROY
    BY <1>5 DEF IInv, UidInv
  <2> QED
    BY <2>1, <2>2, <2>3, <2>4, <2>5 DEF UidInv
<1>8. ImplInv'
  <2>1. /\ \A i, j \in DOMAIN pushed' : pushed'[i].impl = pushed'[j].impl => i = j
        /\ \A e, f \in queue' : e.impl = f.impl => e = f
        /\ \A i, j \in DOMAIN ran' : ran'[i] = ran'[j] => i = j
        /\ \A i \in DOMAIN pushed' :
            /\ \A e \in queue' : pushed'[i].impl # e.impl
            /\ \A n \in DOMAIN ran' : pushed'[i].impl # ran'[n]
        /\ \A e \in queue' : \A n \in DOMAIN ran' : e.impl # ran'[n]
    BY <1>2 DEF IInv, ImplInv, threadVars
  <2>2. \A i, j \in DOMAIN destroyEvents' :
            destroyEvents'[i].impl = destroyEvents'[j].impl => i = j
    BY <1>5, Ranges DEF IInv, ImplInv
  <2>3. \A j \in DOMAIN destroyEvents' :
            /\ \A i \in DOMAIN pushed' : pushed'[i].impl # destroyEvents'[j].impl
            /\ \A e \in queue' : e.impl # destroyEvents'[j].impl
            /\ \A n \in DOMAIN ran' : destroyEvents'[j].impl # ran'[n]
    BY <1>2, <1>5, Ranges DEF IInv, ImplInv, threadVars
  <2> QED
    BY <2>1, <2>2, <2>3 DEF ImplInv
<1>9. CountInv' /\ CancelledNeverRuns' /\ FlagTellsTheTruth'
  BY <1>2 DEF IInv, CountInv, CancelledNeverRuns, FlagTellsTheTruth, threadVars
<1>10. IdInv'
  BY <1>1, <1>2 DEF IInv, IdInv, Precedes
<1>11. OrderInv'
  <2>1. new \notin queue
    BY Ranges
  <2> QED
    BY <1>1, <1>2, <2>1 DEF IInv, OrderInv
<1> QED
  BY <1>6, <1>7, <1>8, <1>9, <1>10, <1>11 DEF IInv

\* What can be cancelled has not run: it is still pending.
LEMMA NotExpired ==
    ASSUME IInv, UserCode, NEW id \in ids, ~IsExpired(id)
    PROVE  /\ id.impl \in Impls
           /\ id.uid # DESTROY => id \in queue
           /\ \A n \in DOMAIN ran : ran[n] # id.impl
<1>1. id.impl \in Impls
  BY DEF IInv, CoreTypeOK, EventIds
<1>2. CASE id.uid = DESTROY
  BY <1>1, <1>2 DEF IInv, ImplInv, IsExpired
<1>3. CASE id.uid # DESTROY
  <2>1. id \in queue
    BY <1>3, Ranges DEF IInv, IdInv, IsExpired, IsCancelled, Precedes, UserCode
  <2> QED
    BY <1>1, <2>1 DEF IInv, ImplInv
<1> QED
  BY <1>2, <1>3

LEMMA CancelStep == IInv /\ Cancel => IInv'
<1> SUFFICES ASSUME IInv, Cancel PROVE IInv'
  OBVIOUS
<1>1. PICK id \in ids : ~IsExpired(id) /\ cancelled' = cancelled \cup {id.impl}
  BY DEF Cancel
<1>2. /\ UserCode
      /\ UNCHANGED <<pc, queue, uid, current, unscheduled, stop, pushed, pushedEmpty>>
      /\ UNCHANGED <<destroyEvents, created, ids, ran>>
  BY DEF Cancel, loopVars, threadVars, historyVars
<1>3. id.impl \in Impls /\ \A n \in DOMAIN ran : ran[n] # id.impl
  BY <1>1, <1>2, NotExpired
<1>4. CoreTypeOK'
  BY <1>1, <1>2, <1>3 DEF IInv, CoreTypeOK, EventIds, Impls
<1>5. UidInv' /\ ImplInv' /\ OrderInv' /\ FlagTellsTheTruth'
  BY <1>2 DEF IInv, UidInv, ImplInv, OrderInv, FlagTellsTheTruth, Precedes
<1>6. IdInv' /\ CancelledNeverRuns'
  BY <1>1, <1>2, <1>3 DEF IInv, IdInv, CancelledNeverRuns, Precedes
<1>7. CountInv'
  BY <1>2 DEF IInv, CountInv
<1> QED
  BY <1>4, <1>5, <1>6, <1>7 DEF IInv

LEMMA RemoveStep == IInv /\ Remove => IInv'
<1> SUFFICES ASSUME IInv, Remove PROVE IInv'
  OBVIOUS
<1>1. PICK id \in ids :
        /\ id.uid # DESTROY /\ ~IsExpired(id)
        /\ queue' = {e \in queue : e.ts # id.ts \/ e.uid # id.uid}
        /\ cancelled' = cancelled \cup {id.impl}
  BY DEF Remove
<1>2. /\ UserCode /\ unscheduled' = unscheduled - 1
      /\ UNCHANGED <<pc, uid, current, stop, pushed, pushedEmpty>>
      /\ UNCHANGED <<destroyEvents, created, ids, ran>>
  BY DEF Remove, threadVars, historyVars
<1>3. id.impl \in Impls /\ id \in queue /\ \A n \in DOMAIN ran : ran[n] # id.impl
  BY <1>1, <1>2, NotExpired
<1>4. queue' = queue \ {id}
  BY <1>1, <1>3 DEF IInv, UidInv
<1>5. IsFiniteSet(queue') /\ unscheduled' = Cardinality(queue') /\ Cardinality(queue') \in Nat
  BY <1>2, <1>3, <1>4, FS_RemoveElement, FS_CardinalityType DEF IInv, CountInv, UserCode
<1>6. CoreTypeOK'
  BY <1>1, <1>2, <1>3, <1>4, <1>5 DEF IInv, CoreTypeOK, EventIds, Impls
<1>7. UidInv' /\ FlagTellsTheTruth'
  BY <1>2, <1>4 DEF IInv, UidInv, FlagTellsTheTruth, Precedes
<1>8. ImplInv' /\ OrderInv'
  BY <1>2, <1>4 DEF IInv, ImplInv, OrderInv
<1>9. IdInv' /\ CancelledNeverRuns'
  BY <1>1, <1>2, <1>3, <1>4 DEF IInv, IdInv, CancelledNeverRuns, Precedes
<1>10. CountInv'
  BY <1>5 DEF CountInv
<1> QED
  BY <1>6, <1>7, <1>8, <1>9, <1>10 DEF IInv

\* An event leaves the list of Destroy.
LEMMA EraseFacts ==
    ASSUME NEW S, NEW s \in Seq(S), NEW i \in DOMAIN s
    PROVE  /\ Erase(s, i) \in Seq(S) /\ DOMAIN Erase(s, i) = 1 .. Len(s) - 1
           /\ \A j \in DOMAIN Erase(s, i) :
                /\ j < i => j \in DOMAIN s /\ Erase(s, i)[j] = s[j]
                /\ j >= i => j + 1 \in DOMAIN s /\ Erase(s, i)[j] = s[j + 1]
<1>1. /\ DOMAIN Erase(s, i) = 1 .. Len(s) - 1
      /\ \A j \in DOMAIN Erase(s, i) :
            /\ j < i => j \in DOMAIN s /\ Erase(s, i)[j] = s[j]
            /\ j >= i => j + 1 \in DOMAIN s /\ Erase(s, i)[j] = s[j + 1]
  BY DEF Erase
<1>2. Len(s) - 1 \in Nat
  OBVIOUS
<1>3. \A j \in 1 .. Len(s) - 1 : (IF j < i THEN s[j] ELSE s[j + 1]) \in S
  OBVIOUS
<1>4. Erase(s, i) \in [1 .. Len(s) - 1 -> S]
  BY <1>3 DEF Erase
<1>5. Erase(s, i) \in Seq(S)
  BY <1>2, <1>4
<1> QED
  BY <1>1, <1>5

LEMMA TailErases ==
    ASSUME NEW S, NEW s \in Seq(S), s # << >>
    PROVE  Tail(s) = Erase(s, 1)
<1>1. Len(s) \in Nat /\ Len(s) >= 1 /\ 1 \in DOMAIN s
  OBVIOUS
<1>2. Tail(s) \in Seq(S) /\ Len(Tail(s)) = Len(s) - 1
  OBVIOUS
<1>3. \A i \in 1 .. Len(s) - 1 : Tail(s)[i] = s[i + 1]
  OBVIOUS
<1>4. Erase(s, 1) \in Seq(S) /\ DOMAIN Erase(s, 1) = 1 .. Len(s) - 1
  BY <1>1, EraseFacts
<1>5. \A i \in 1 .. Len(s) - 1 : Erase(s, 1)[i] = s[i + 1]
  BY <1>1 DEF Erase
<1>6. Len(Erase(s, 1)) = Len(s) - 1
  BY <1>1, <1>4
<1>7. DOMAIN Tail(s) = 1 .. Len(s) - 1
  BY <1>2
<1> QED
  BY <1>2, <1>3, <1>4, <1>5, <1>6, SeqEqual

LEMMA OneLess ==
    ASSUME IInv, NEW i \in DOMAIN destroyEvents, destroyEvents' = Erase(destroyEvents, i)
    PROVE  /\ destroyEvents' \in Seq(EventIds)
           /\ \A j \in DOMAIN destroyEvents' : \E k \in DOMAIN destroyEvents :
                k # i /\ destroyEvents'[j] = destroyEvents[k]
           /\ \A j, k \in DOMAIN destroyEvents' :
                destroyEvents'[j].impl = destroyEvents'[k].impl => j = k
<1>1. destroyEvents \in Seq(EventIds)
  BY DEF IInv, CoreTypeOK
<1>2. /\ destroyEvents' \in Seq(EventIds)
      /\ \A j \in DOMAIN destroyEvents' :
            /\ j \in Nat
            /\ j < i => j \in DOMAIN destroyEvents /\ destroyEvents'[j] = destroyEvents[j]
            /\ j >= i => /\ j + 1 \in DOMAIN destroyEvents
                         /\ destroyEvents'[j] = destroyEvents[j + 1]
  BY <1>1, EraseFacts
<1>3. i \in Nat
  BY <1>1
<1>4. \A j, k \in DOMAIN destroyEvents :
            destroyEvents[j].impl = destroyEvents[k].impl => j = k
  BY DEF IInv, ImplInv
<1>5. \A j \in DOMAIN destroyEvents' : \E k \in DOMAIN destroyEvents :
            k # i /\ destroyEvents'[j] = destroyEvents[k]
  <2> TAKE j \in DOMAIN destroyEvents'
  <2>1. CASE j < i
    BY <1>2, <1>3, <2>1
  <2>2. CASE j >= i
    BY <1>2, <1>3, <2>2
  <2> QED
    BY <1>2, <1>3, <2>1, <2>2
<1>6. \A j, k \in DOMAIN destroyEvents' :
            destroyEvents'[j].impl = destroyEvents'[k].impl => j = k
  <2> TAKE j, k \in DOMAIN destroyEvents'
  <2>1. CASE j < i /\ k < i
    BY <1>2, <1>4, <2>1
  <2>2. CASE j < i /\ k >= i
    BY SMTT(30), <1>2, <1>3, <1>4, <2>2
  <2>3. CASE j >= i /\ k < i
    BY <1>2, <1>3, <1>4, <2>3
  <2>4. CASE j >= i /\ k >= i
    BY <1>2, <1>3, <1>4, <2>4
  <2> QED
    BY <1>2, <1>3, <2>1, <2>2, <2>3, <2>4
<1> QED
  BY <1>2, <1>5, <1>6

LEMMA RemoveDestroyStep == IInv /\ RemoveDestroy => IInv'
<1> SUFFICES ASSUME IInv, RemoveDestroy PROVE IInv'
  OBVIOUS
<1>1. PICK i \in DOMAIN destroyEvents : destroyEvents' = Erase(destroyEvents, i)
  BY DEF RemoveDestroy
<1>2. /\ UNCHANGED <<pc, queue, uid, current, unscheduled, stop, pushed, pushedEmpty>>
      /\ UNCHANGED <<cancelled, created, ids, ran>>
  BY DEF RemoveDestroy, loopVars, threadVars, historyVars
<1>3. /\ destroyEvents' \in Seq(EventIds)
      /\ \A j \in DOMAIN destroyEvents' : \E k \in DOMAIN destroyEvents :
            destroyEvents'[j] = destroyEvents[k]
      /\ \A j, k \in DOMAIN destroyEvents' :
            destroyEvents'[j].impl = destroyEvents'[k].impl => j = k
  BY <1>1, OneLess
<1>4. CoreTypeOK'
  BY <1>2, <1>3 DEF IInv, CoreTypeOK, EventIds, Impls
<1>5. UidInv'
  BY <1>2, <1>3 DEF IInv, UidInv, Precedes
<1>6. ImplInv'
  BY <1>2, <1>3 DEF IInv, ImplInv
<1>7. IdInv' /\ OrderInv' /\ CancelledNeverRuns' /\ FlagTellsTheTruth'
  BY <1>2 DEF IInv, IdInv, OrderInv, CancelledNeverRuns, FlagTellsTheTruth, Precedes
<1>8. CountInv'
  BY <1>2 DEF IInv, CountInv
<1> QED
  BY <1>4, <1>5, <1>6, <1>7, <1>8 DEF IInv

LEMMA RunDestroyEventStep == IInv /\ RunDestroyEvent => IInv'
<1> SUFFICES ASSUME IInv, RunDestroyEvent PROVE IInv'
  OBVIOUS
<1>0. destroyEvents \in Seq(EventIds) /\ destroyEvents # << >>
  BY DEF IInv, CoreTypeOK, RunDestroyEvent
<1>1. 1 \in DOMAIN destroyEvents /\ Head(destroyEvents) = destroyEvents[1]
  BY <1>0
<1>2. destroyEvents' = Erase(destroyEvents, 1)
  BY <1>0, TailErases DEF RunDestroyEvent
<1>3. /\ UNCHANGED <<queue, uid, current, unscheduled, stop, pushed, pushedEmpty>>
      /\ UNCHANGED <<cancelled, created, ids>>
      /\ pc = "destroying" /\ pc' \in {"destroying", "destroyHandler"}
      /\ \/ ran' = ran
         \/ /\ ran' = Append(ran, destroyEvents[1].impl)
            /\ destroyEvents[1].impl \notin cancelled
  BY <1>1 DEF RunDestroyEvent, IsCancelled, loopVars, threadVars
<1>4. /\ destroyEvents' \in Seq(EventIds)
      /\ \A j \in DOMAIN destroyEvents' : \E k \in DOMAIN destroyEvents :
            k # 1 /\ destroyEvents'[j] = destroyEvents[k]
      /\ \A j, k \in DOMAIN destroyEvents' :
            destroyEvents'[j].impl = destroyEvents'[k].impl => j = k
  BY <1>1, <1>2, OneLess
<1>5. /\ destroyEvents[1].impl \in Impls /\ ran \in Seq(Impls) /\ ran' \in Seq(Impls)
      /\ \A n \in DOMAIN ran' :
            \/ n \in DOMAIN ran /\ ran'[n] = ran[n]
            \/ n = Len(ran) + 1 /\ ran'[n] = destroyEvents[1].impl
                                /\ destroyEvents[1].impl \notin cancelled
  <2>1. destroyEvents[1].impl \in Impls
    <3>1. destroyEvents[1] \in EventIds
      BY <1>0, <1>1, EntryOfSeq
    <3> QED
      BY <3>1 DEF EventIds
  <2>2. ran \in Seq(Impls)
    BY DEF IInv, CoreTypeOK
  <2> QED
    BY <1>3, <2>1, <2>2
<1>6. CoreTypeOK'
  BY <1>3, <1>4, <1>5 DEF IInv, CoreTypeOK, EventIds, Impls
<1>7. UidInv'
  BY <1>3, <1>4 DEF IInv, UidInv, Precedes
<1>8. ImplInv'
  <2>1. \A k \in DOMAIN destroyEvents :
            k # 1 => destroyEvents[k].impl # destroyEvents[1].impl
    BY <1>1 DEF IInv, ImplInv
  <2>2. \A i, j \in DOMAIN ran' : ran'[i] = ran'[j] => i = j
    BY <1>1, <1>5 DEF IInv, ImplInv
  <2>3. /\ \A e \in queue : \A n \in DOMAIN ran' : e.impl # ran'[n]
        /\ \A i \in DOMAIN pushed : \A n \in DOMAIN ran' : pushed[i].impl # ran'[n]
    BY <1>1, <1>5 DEF IInv, ImplInv
  <2>4. \A j \in DOMAIN destroyEvents' : \A n \in DOMAIN ran' : destroyEvents'[j].impl # ran'[n]
    BY <1>4, <1>5, <2>1 DEF IInv, ImplInv
  <2> QED
    BY <1>3, <1>4, <2>2, <2>3, <2>4 DEF IInv, ImplInv
<1>9. IdInv' /\ OrderInv' /\ FlagTellsTheTruth'
  BY <1>3 DEF IInv, IdInv, OrderInv, FlagTellsTheTruth, Precedes
<1>10. CancelledNeverRuns'
  BY <1>3, <1>5 DEF IInv, CancelledNeverRuns
<1>11. CountInv'
  BY <1>3 DEF IInv, CountInv
<1> QED
  BY <1>6, <1>7, <1>8, <1>9, <1>10, <1>11 DEF IInv

LEMMA DisposeStep == IInv /\ Dispose => IInv'
<1> SUFFICES ASSUME IInv, Dispose PROVE IInv'
  OBVIOUS
<1>1. /\ queue' = {} /\ pushed' = << >> /\ pushedEmpty' = TRUE /\ pc' = "gone"
      /\ UNCHANGED <<uid, current, unscheduled, stop, destroyEvents, cancelled>>
      /\ UNCHANGED <<created, ids, ran>>
  BY DEF Dispose, historyVars
<1>2. CoreTypeOK'
  <2>1. pushedEmpty' \in BOOLEAN /\ pushed' \in Seq([delay : Delays, impl : Impls'])
    BY <1>1
  <2> QED
    BY <1>1, <2>1 DEF IInv, CoreTypeOK, EventIds, Impls
<1>3. UidInv'
  <2>1. Len(pushed') = 0 /\ uid <= VALID + created
    BY <1>1, Ranges DEF IInv, UidInv, VALID
  <2>2. uid' + Len(pushed') <= VALID + created'
    BY <1>1, <2>1, Ranges
  <2> QED
    BY <1>1, <2>2 DEF IInv, UidInv
<1>4. ImplInv' /\ IdInv' /\ OrderInv' /\ CancelledNeverRuns' /\ FlagTellsTheTruth'
  BY <1>1 DEF IInv, ImplInv, IdInv, OrderInv, CancelledNeverRuns, FlagTellsTheTruth
<1>5. CountInv'
  BY <1>1, FS_EmptySet DEF CountInv
<1> QED
  BY <1>2, <1>3, <1>4, <1>5 DEF IInv

LEMMA ScheduleWithContextStep == IInv /\ ScheduleWithContext => IInv'
<1> SUFFICES ASSUME IInv, ScheduleWithContext PROVE IInv'
  OBVIOUS
<1>1. PICK d \in Delays : pushed' = Append(pushed, [delay |-> d, impl |-> created + 1])
  BY DEF ScheduleWithContext
<1>2. /\ created < MaxEvents /\ created' = created + 1 /\ pushedEmpty' = FALSE
      /\ UNCHANGED <<pc, queue, uid, current, unscheduled, stop>>
      /\ UNCHANGED <<destroyEvents, cancelled, ids, ran>>
  BY DEF ScheduleWithContext, loopVars
<1>3. pushed \in Seq([delay : Delays, impl : Impls'])
  BY <1>2, OneMore
<1>4. /\ pushed' \in Seq([delay : Delays, impl : Impls']) /\ Len(pushed') = Len(pushed) + 1
      /\ \A i \in DOMAIN pushed' :
            \/ i \in DOMAIN pushed /\ pushed'[i] = pushed[i]
            \/ i = Len(pushed) + 1 /\ pushed'[i].impl = created + 1
  BY <1>1, <1>2, <1>3, OneMore
<1>5. CoreTypeOK'
  <2>1. pushedEmpty' \in BOOLEAN
    BY <1>2
  <2> QED
    BY <1>2, <1>4, <2>1, OneMore DEF IInv, CoreTypeOK
<1>6. UidInv'
  <2>1. uid' + Len(pushed') <= VALID + created'
    BY <1>2, <1>4, Ranges DEF IInv, UidInv, VALID
  <2> QED
    BY <1>2, <2>1 DEF IInv, UidInv, Precedes
<1>7. ImplInv'
  <2>1. \A i, j \in DOMAIN pushed' : pushed'[i].impl = pushed'[j].impl => i = j
    BY <1>4, Ranges DEF IInv, ImplInv
  <2>2. \A i \in DOMAIN pushed' :
            /\ \A e \in queue : pushed'[i].impl # e.impl
            /\ \A j \in DOMAIN destroyEvents : pushed'[i].impl # destroyEvents[j].impl
            /\ \A n \in DOMAIN ran : pushed'[i].impl # ran[n]
    BY <1>4, Ranges DEF IInv, ImplInv
  <2> QED
    BY <1>2, <2>1, <2>2 DEF IInv, ImplInv
<1>8. IdInv' /\ OrderInv' /\ CancelledNeverRuns' /\ FlagTellsTheTruth'
  BY <1>2 DEF IInv, IdInv, OrderInv, CancelledNeverRuns, FlagTellsTheTruth, Precedes
<1>9. CountInv'
  BY <1>2 DEF IInv, CountInv
<1> QED
  BY <1>5, <1>6, <1>7, <1>8, <1>9 DEF IInv

---------------------------------------------------------------------------
(* The loop                                                                *)

\* The events taken over get the next uids, in their order, one each.
LEMMA TakenFacts ==
    ASSUME NoWrap, IInv
    PROVE  /\ (uid + Len(pushed)) % UidMod = uid + Len(pushed)
           /\ uid + Len(pushed) \in 0 .. UidMod - 1
           /\ Taken = {[ts |-> current.ts + pushed[i].delay, uid |-> uid + i - 1,
                        impl |-> pushed[i].impl] : i \in DOMAIN pushed}
<1>1. uid + Len(pushed) < UidMod /\ uid + Len(pushed) \in Nat /\ UidMod \in Nat
  BY Ranges, EventCoreAssumption DEF NoWrap, IInv, UidInv, VALID
<1>2. (uid + Len(pushed)) % UidMod = uid + Len(pushed)
  BY <1>1, SmallModulo
<1>3. \A i \in DOMAIN pushed : i \in Nat /\ 1 <= i /\ i <= Len(pushed)
  BY DEF IInv, CoreTypeOK
<1>4. \A i \in DOMAIN pushed : (uid + i - 1) % UidMod = uid + i - 1
  <2> TAKE i \in DOMAIN pushed
  <2>1. uid + i - 1 \in Nat /\ uid + i - 1 < UidMod
    BY <1>1, <1>3, Ranges
  <2> QED
    BY <1>1, <2>1, SmallModulo
<1> QED
  BY <1>1, <1>2, <1>4 DEF Taken

LEMMA TakenIsOneEach ==
    ASSUME NoWrap, IInv
    PROVE  IsFiniteSet(Taken) /\ Cardinality(Taken) = Len(pushed)
<1> DEFINE key == [i \in 1 .. Len(pushed) |->
                    [ts |-> current.ts + pushed[i].delay, uid |-> uid + i - 1,
                     impl |-> pushed[i].impl]]
<1>1. DOMAIN pushed = 1 .. Len(pushed) /\ Len(pushed) \in Nat
  BY DEF IInv, CoreTypeOK
<1>2. Taken = {key[i] : i \in 1 .. Len(pushed)}
  BY <1>1, TakenFacts
<1>3. \A i, j \in 1 .. Len(pushed) : key[i] = key[j] => i = j
  <2> SUFFICES ASSUME NEW i \in 1 .. Len(pushed), NEW j \in 1 .. Len(pushed), key[i] = key[j]
               PROVE  i = j
    OBVIOUS
  <2>1. key[i].uid = uid + i - 1 /\ key[j].uid = uid + j - 1
    OBVIOUS
  <2> QED
    BY <2>1, Ranges
<1>4. key \in [1 .. Len(pushed) -> Taken]
  BY <1>2
<1> HIDE DEF key
<1>5. key \in Bijection(1 .. Len(pushed), Taken)
  BY <1>2, <1>3, <1>4 DEF Bijection, Injection, Surjection, IsInjective
<1>6. IsFiniteSet(1 .. Len(pushed)) /\ Cardinality(1 .. Len(pushed)) = Len(pushed)
  <2>1. 1 \in Int /\ Len(pushed) \in Int
    BY <1>1
  <2>2. /\ IsFiniteSet(1 .. Len(pushed))
        /\ Cardinality(1 .. Len(pushed)) =
            IF 1 > Len(pushed) THEN 0 ELSE Len(pushed) - 1 + 1
    BY <2>1, FS_Interval
  <2> QED
    BY <1>1, <2>2
<1> QED
  BY <1>5, <1>6, FS_Bijection DEF ExistsBijection

LEMMA TakeOverStep ==
    ASSUME NoWrap, IInv, pc \in {"enter", "after"},
           ProcessEventsWithContext("loop"), stop' \in BOOLEAN,
           UNCHANGED <<current, destroyEvents, cancelled, historyVars>>
    PROVE  IInv'
<1>0. pc' = "loop" /\ UNCHANGED <<current, destroyEvents, cancelled, created, ids, ran>>
  BY DEF ProcessEventsWithContext, historyVars
<1>1. CASE UNCHANGED <<queue, uid, unscheduled, threadVars>>
  <2>1. CoreTypeOK'
    BY <1>0, <1>1 DEF IInv, CoreTypeOK, EventIds, Impls, threadVars
  <2> QED
    BY <1>0, <1>1, <2>1, ControlStep
<1>2. CASE /\ queue' = queue \cup Taken
           /\ uid' = (uid + Len(pushed)) % UidMod
           /\ unscheduled' = unscheduled + Len(pushed)
           /\ pushed' = << >> /\ pushedEmpty' = TRUE
  <2>1. uid' = uid + Len(pushed) /\ uid' \in 0 .. UidMod - 1 /\ Len(pushed') = 0
    BY <1>2, TakenFacts
  <2>2. \A i \in DOMAIN pushed : i \in Nat /\ 1 <= i /\ i <= Len(pushed)
    BY DEF IInv, CoreTypeOK
  <2>3. \A e \in Taken :
            /\ e \in [ts : Nat, uid : Nat, impl : Impls]
            /\ uid <= e.uid /\ e.uid < uid' /\ e.ts >= current.ts
            /\ \E i \in DOMAIN pushed : e.uid = uid + i - 1 /\ e.impl = pushed[i].impl
    <3> TAKE e \in Taken
    <3>1. PICK i \in DOMAIN pushed :
            e = [ts |-> current.ts + pushed[i].delay, uid |-> uid + i - 1, impl |-> pushed[i].impl]
      BY TakenFacts
    <3>2. pushed[i].delay \in Nat /\ pushed[i].impl \in Impls
      BY Ranges
    <3>3. e.ts \in Nat /\ e.ts >= current.ts
      BY <3>1, <3>2, Ranges
    <3>4. e.uid \in Nat /\ uid <= e.uid /\ e.uid < uid'
      <4>1. i \in Nat /\ 1 <= i /\ i <= Len(pushed)
        BY <2>2
      <4>2. e.uid = uid + i - 1
        BY <3>1
      <4> QED
        BY <2>1, <4>1, <4>2, Ranges
    <3>5. e.uid = uid + i - 1 /\ e.impl = pushed[i].impl
      BY <3>1
    <3>6. e \in [ts : Nat, uid : Nat, impl : Impls]
      BY <3>1, <3>2, <3>3, <3>4
    <3> QED
      BY <3>3, <3>4, <3>5, <3>6
  <2>4. \A e, f \in Taken : e.uid = f.uid => e = f
    <3> SUFFICES ASSUME NEW e \in Taken, NEW f \in Taken, e.uid = f.uid PROVE e = f
      OBVIOUS
    <3>1. PICK i \in DOMAIN pushed :
            e = [ts |-> current.ts + pushed[i].delay, uid |-> uid + i - 1, impl |-> pushed[i].impl]
      BY TakenFacts
    <3>2. PICK j \in DOMAIN pushed :
            f = [ts |-> current.ts + pushed[j].delay, uid |-> uid + j - 1, impl |-> pushed[j].impl]
      BY TakenFacts
    <3>3. i = j
      BY <2>2, <3>1, <3>2, Ranges
    <3> QED
      BY <3>1, <3>2, <3>3
  <2>5. \A e, f \in Taken : e.impl = f.impl => e = f
    <3> SUFFICES ASSUME NEW e \in Taken, NEW f \in Taken, e.impl = f.impl PROVE e = f
      OBVIOUS
    <3>1. PICK i \in DOMAIN pushed : e.uid = uid + i - 1 /\ e.impl = pushed[i].impl
      BY <2>3
    <3>2. PICK j \in DOMAIN pushed : f.uid = uid + j - 1 /\ f.impl = pushed[j].impl
      BY <2>3
    <3>3. i = j
      BY <3>1, <3>2 DEF IInv, ImplInv
    <3> QED
      BY <2>4, <3>1, <3>2, <3>3
  <2>6. \A e \in queue : e.uid < uid /\ e.uid \in Nat
    BY Ranges DEF IInv, UidInv
  <2>7. queue \cap Taken = {}
    BY <2>3, <2>6, Ranges
  <2>8. CoreTypeOK'
    <3>1. Taken \subseteq EventIds
      <4> SUFFICES ASSUME NEW e \in Taken PROVE e \in EventIds
        OBVIOUS
      <4>1. e \in [ts : Nat, uid : Nat, impl : Impls] /\ e.uid < uid'
        BY <2>3
      <4>2. e.uid \in 0 .. UidMod - 1
        BY <2>1, <4>1, EventCoreAssumption
      <4> QED
        BY <4>1, <4>2 DEF EventIds
    <3>2. EventIds' = EventIds /\ Impls' = Impls
      BY <1>0 DEF EventIds, Impls
    <3>3. pushedEmpty' \in BOOLEAN /\ pushed' \in Seq([delay : Delays, impl : Impls'])
      BY <1>2
    <3>4. unscheduled' \in Nat
      BY <1>2, Ranges
    <3> QED
      BY <1>0, <1>2, <2>1, <3>1, <3>2, <3>3, <3>4 DEF IInv, CoreTypeOK
  <2>9. UidInv'
    <3>1. /\ VALID <= uid' /\ uid' + Len(pushed') <= VALID + created'
          /\ current'.uid < uid'
      BY <1>0, <2>1, Ranges DEF IInv, UidInv, VALID
    <3>2. \A e \in queue : VALID <= e.uid /\ e.uid < uid' /\ Precedes(current, e)
      BY <2>1, Ranges DEF IInv, UidInv
    <3>3. \A e \in Taken : VALID <= e.uid /\ e.uid < uid' /\ Precedes(current, e)
      BY SMTT(30), <2>3, Ranges DEF IInv, UidInv, Precedes, VALID
    <3>4. \A e, f \in queue \cup Taken : e.uid = f.uid => e = f
      BY <2>3, <2>4, <2>6, Ranges DEF IInv, UidInv
    <3>5. \A id \in ids : id.uid = DESTROY \/ (VALID <= id.uid /\ id.uid < uid')
      BY <2>1, Ranges DEF IInv, UidInv
    <3> QED
      BY <1>0, <1>2, <3>1, <3>2, <3>3, <3>4, <3>5 DEF IInv, UidInv, Precedes
  <2>10. ImplInv'
    <3>1. \A e, f \in queue \cup Taken : e.impl = f.impl => e = f
      BY <2>3, <2>5 DEF IInv, ImplInv
    <3>2. \A e \in queue \cup Taken :
            /\ \A j \in DOMAIN destroyEvents : e.impl # destroyEvents[j].impl
            /\ \A n \in DOMAIN ran : e.impl # ran[n]
      BY <2>3 DEF IInv, ImplInv
    <3> QED
      BY <1>0, <1>2, <3>1, <3>2 DEF IInv, ImplInv
  <2>11. CountInv'
    <3>1. IsFiniteSet(queue) /\ unscheduled = Cardinality(queue)
      BY DEF IInv, CountInv
    <3>2. /\ IsFiniteSet(queue \cup Taken)
          /\ Cardinality(queue \cup Taken) = Cardinality(queue) + Len(pushed) - Cardinality({})
      BY <2>7, <3>1, TakenIsOneEach, FS_Union
    <3>3. Cardinality({}) = 0
      BY FS_EmptySet
    <3> QED
      BY <1>2, <3>1, <3>2, <3>3, Ranges DEF CountInv
  <2>12. OrderInv'
    <3>1. \A e \in Taken : e \notin ids
      <4>1. \A id \in ids : id.uid < uid
        BY Ranges DEF IInv, UidInv, DESTROY, VALID
      <4> QED
        BY <2>3, <4>1, Ranges
    <3> QED
      BY <1>0, <1>2, <3>1 DEF IInv, OrderInv
  <2>13. IdInv' /\ CancelledNeverRuns' /\ FlagTellsTheTruth'
    BY <1>0, <1>2 DEF IInv, IdInv, CancelledNeverRuns, FlagTellsTheTruth, Precedes
  <2> QED
    BY <2>8, <2>9, <2>10, <2>11, <2>12, <2>13 DEF IInv
<1> QED
  BY <1>1, <1>2 DEF ProcessEventsWithContext

LEMMA ProcessOneEventStep == IInv /\ ProcessOneEvent => IInv'
<1> SUFFICES ASSUME IInv, ProcessOneEvent PROVE IInv'
  OBVIOUS
<1>1. /\ queue' = queue \ {Least} /\ unscheduled' = unscheduled - 1
      /\ current' = [ts |-> Least.ts, uid |-> Least.uid]
      /\ pc = "loop" /\ pc' \in {"after", "handler"}
      /\ \/ ran' = ran
         \/ ran' = Append(ran, Least.impl) /\ Least.impl \notin cancelled
      /\ UNCHANGED <<uid, stop, pushed, pushedEmpty, destroyEvents, cancelled, created, ids>>
  BY DEF ProcessOneEvent, Invoke, IsCancelled, threadVars
<1>2. /\ Least \in queue /\ Least \in EventIds
      /\ \A e \in queue \ {Least} : Precedes(Least, e)
  BY LeastInQueue DEF ProcessOneEvent, IInv, CoreTypeOK
<1>3. Precedes(current, Least) /\ VALID <= Least.uid /\ Least.uid < uid
  BY <1>2 DEF IInv, UidInv
<1>4. IsFiniteSet(queue') /\ unscheduled' = Cardinality(queue') /\ Cardinality(queue') \in Nat
  BY <1>1, <1>2, FS_RemoveElement, FS_CardinalityType DEF IInv, CountInv
<1>5. /\ Least.impl \in Impls /\ ran \in Seq(Impls) /\ ran' \in Seq(Impls)
      /\ \A n \in DOMAIN ran' :
            \/ n \in DOMAIN ran /\ ran'[n] = ran[n]
            \/ n = Len(ran) + 1 /\ ran'[n] = Least.impl /\ Least.impl \notin cancelled
  <2>1. Least.impl \in Impls
    BY <1>2 DEF EventIds
  <2>2. ran \in Seq(Impls)
    BY DEF IInv, CoreTypeOK
  <2> QED
    BY <1>1, <2>1, <2>2
<1>6. CoreTypeOK'
  <2>1. current' \in [ts : Nat, uid : 0 .. UidMod - 1]
    BY <1>1, <1>2 DEF EventIds
  <2> QED
    BY <1>1, <1>4, <1>5, <2>1 DEF IInv, CoreTypeOK, EventIds, Impls
<1>7. UidInv'
  <2>1. \A e \in queue' : Precedes(current', e)
    BY <1>1, <1>2 DEF Precedes
  <2> QED
    BY <1>1, <1>3, <2>1 DEF IInv, UidInv
<1>8. ImplInv'
  <2>1. \A e \in queue' : e.impl # Least.impl
    BY <1>1, <1>2 DEF IInv, ImplInv
  <2>2. \A i, j \in DOMAIN ran' : ran'[i] = ran'[j] => i = j
    BY <1>2, <1>5 DEF IInv, ImplInv
  <2>3. /\ \A e \in queue' : \A n \in DOMAIN ran' : e.impl # ran'[n]
        /\ \A i \in DOMAIN pushed : \A n \in DOMAIN ran' : pushed[i].impl # ran'[n]
        /\ \A j \in DOMAIN destroyEvents : \A n \in DOMAIN ran' : destroyEvents[j].impl # ran'[n]
    BY <1>1, <1>2, <1>5, <2>1 DEF IInv, ImplInv
  <2> QED
    BY <1>1, <2>2, <2>3 DEF IInv, ImplInv
<1>9. IdInv'
  <2> SUFFICES ASSUME NEW id \in ids, id.uid # DESTROY, id \notin queue', id.impl \notin cancelled
               PROVE  ~Precedes(current', id)
    BY <1>1 DEF IdInv
  <2>1. CASE id = Least
    BY <1>1, <2>1, Ranges DEF Precedes
  <2>2. CASE id # Least
    <3>1. ~Precedes(current, id)
      BY <1>1, <2>2 DEF IInv, IdInv
    <3> QED
      BY SMTT(30), <1>1, <1>2, <1>3, <3>1, Ranges DEF Precedes
  <2> QED
    BY <2>1, <2>2
<1>10. CancelledNeverRuns'
  BY <1>1, <1>5 DEF IInv, CancelledNeverRuns
<1>11. CountInv'
  BY <1>4 DEF CountInv
<1>12. OrderInv' /\ FlagTellsTheTruth'
  BY <1>1 DEF IInv, OrderInv, FlagTellsTheTruth
<1> QED
  BY <1>6, <1>7, <1>8, <1>9, <1>10, <1>11, <1>12 DEF IInv

---------------------------------------------------------------------------
(* The theorems                                                            *)

LEMMA StepInv == NoWrap /\ IInv /\ [Next]_vars => IInv'
<1> SUFFICES ASSUME NoWrap, IInv, [Next]_vars PROVE IInv'
  OBVIOUS
<1>1. CASE UNCHANGED vars \/ Gone
  BY <1>1, ControlSteps DEF Gone
<1>2. CASE EnterLoop \/ AfterEvent
  <2>1. /\ pc \in {"enter", "after"} /\ ProcessEventsWithContext("loop")
        /\ UNCHANGED <<current, destroyEvents, cancelled, historyVars>>
    BY <1>2 DEF EnterLoop, AfterEvent
  <2>2. stop' \in BOOLEAN
    BY <1>2, Zenon DEF EnterLoop, AfterEvent, IInv, CoreTypeOK
  <2> QED
    BY <2>1, <2>2, TakeOverStep
<1>3. CASE MainThread
  BY <1>2, <1>3, ControlSteps, ProcessOneEventStep, RunDestroyEventStep, DisposeStep
  DEF MainThread
<1>4. CASE UserCalls
  BY <1>4, ScheduleStep, ScheduleDestroyStep, CancelStep, RemoveDestroyStep, RemoveStep,
     ControlSteps
  DEF UserCalls
<1>5. CASE ScheduleWithContext
  BY <1>5, ScheduleWithContextStep
<1> QED
  BY <1>1, <1>3, <1>4, <1>5 DEF Next

LEMMA Invariance == ASSUME NoWrap PROVE Spec => []IInv
<1>1. NoWrap /\ IInv /\ [Next]_vars => IInv'
  BY StepInv
<1>2. IInv /\ [Next]_vars => IInv'
  BY <1>1
<1> QED
  BY <1>2, InitInv, PTL DEF Spec

\* Types, and that m_unscheduledEvents, which is unsigned here, never falls
\* below 0
THEOREM CoreTypeCorrect == ASSUME NoWrap PROVE Spec => []CoreTypeOK
<1>1. IInv => CoreTypeOK
  BY DEF IInv
<1> QED
  BY <1>1, Invariance, PTL

\* The assertions of ProcessOneEvent and MapScheduler::Insert hold: nothing is
\* queued for the past, and no key is there twice.
THEOREM NeverInThePast == ASSUME NoWrap PROVE Spec => []NothingInThePast
<1>1. IInv => NothingInThePast
  BY DEF IInv, UidInv, NothingInThePast
<1> QED
  BY <1>1, Invariance, PTL

\* The assertion of Run that nothing unscheduled is left when the queue is empty
THEOREM CountIsRight == ASSUME NoWrap PROVE Spec => []UnscheduledMatches
<1>1. IInv => UnscheduledMatches
  BY DEF IInv, CountInv, UnscheduledMatches
<1> QED
  BY <1>1, Invariance, PTL

\* IsExpired is right about every EventId ever returned, whatever became of its
\* event.
THEOREM IdsTellTheTruth == ASSUME NoWrap PROVE Spec => []ExpiredIffDone
<1>1. IInv => ExpiredIffDone
  <2> SUFFICES ASSUME IInv, pc # "gone", NEW id \in ids
               PROVE  IsExpired(id) <=> ~Pending(id)
    BY DEF ExpiredIffDone
  <2>1. CASE id.uid = DESTROY
    <3>1. id \notin queue
      BY <2>1 DEF IInv, UidInv, DESTROY, VALID
    <3> QED
      BY <2>1, <3>1 DEF IsExpired, IsCancelled, Pending
  <2>2. CASE id.uid # DESTROY
    <3>1. \A i \in DOMAIN destroyEvents : destroyEvents[i] # id
      BY <2>2 DEF IInv, UidInv
    <3>2. IsExpired(id) <=> ~Precedes(current, id) \/ id.impl \in cancelled
      BY <2>2, Ranges DEF IsExpired, IsCancelled, Precedes
    <3>3. id \in queue => Precedes(current, id)
      BY DEF IInv, UidInv
    <3> QED
      BY <2>2, <3>1, <3>2, <3>3 DEF IInv, IdInv, Pending
  <2> QED
    BY <2>1, <2>2
<1> QED
  BY <1>1, Invariance, PTL

\* Cancel and Remove are never too late: the event they accept does not run.
THEOREM CancelledStayQuiet == ASSUME NoWrap PROVE Spec => []CancelledNeverRuns
<1>1. IInv => CancelledNeverRuns
  BY DEF IInv
<1> QED
  BY <1>1, Invariance, PTL

\* No EventImpl is invoked twice, whichever list it came from.
THEOREM NothingRunsTwice == ASSUME NoWrap PROVE Spec => []RunsOnce
<1>1. IInv => RunsOnce
  BY DEF IInv, ImplInv, RunsOnce
<1> QED
  BY <1>1, Invariance, PTL

\* Events scheduled for one time keep the order they were scheduled in.
THEOREM FirstComeFirstServed == ASSUME NoWrap PROVE Spec => []Fifo
<1>1. IInv => Fifo
  BY DEF IInv, OrderInv, Fifo, Precedes
<1> QED
  BY <1>1, Invariance, PTL

\* The flag the main thread reads without the lock never hides, once its
\* writers are done, an event another thread has pushed.
THEOREM FlagNeverLies == ASSUME NoWrap PROVE Spec => []FlagTellsTheTruth
<1>1. IInv => FlagTellsTheTruth
  BY DEF IInv
<1> QED
  BY <1>1, Invariance, PTL

=============================================================================
