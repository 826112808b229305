----------------------------- MODULE Simulator -----------------------------
(***************************************************************************)
(* The event loop the scenario program runs in: ns-3's DefaultSimulatorImpl *)
(* with its map scheduler, as one thread uses it.  An event is a record    *)
(* whose key is (ts, uid): the scheduler orders events by time stamp and,  *)
(* for one time stamp, by the order they were scheduled in.  Time is       *)
(* counted in tenths of a second, the granularity of every delay in        *)
(* nr-immortal.cc.                                                         *)
(*                                                                         *)
(* A handler runs to completion, so the objects it calls pass one record,  *)
(* the world, from call to call.  Here the world has the fields now,       *)
(* queue, uid and running; SimulationManager adds its own.                 *)
(***************************************************************************)
EXTENDS Integers

VARIABLES
    now,        \* m_currentTs
    queue,      \* m_events: the set of pending events
    uid,        \* m_uid: the identifier the next event gets
    running     \* FALSE once m_stop is set

simulatorVars == <<now, queue, uid, running>>

\* EventId::UID::VALID, the first identifier Schedule hands out
FirstUid == 4

Event(ts, id, op, arg) == [ts |-> ts, uid |-> id, op |-> op, arg |-> arg]

Precedes(e, f) == \/ e.ts < f.ts
                  \/ e.ts = f.ts /\ e.uid < f.uid

\* Simulator::Schedule: delay is relative to the time of the running event
Schedule(w, delay, op, arg) ==
    [w EXCEPT !.queue = @ \cup {Event(w.now + delay, w.uid, op, arg)},
              !.uid = @ + 1]

\* The event RemoveNext takes, if it calls op
Due(op) == {e \in queue : /\ running
                          /\ e.op = op
                          /\ \A f \in queue \ {e} : Precedes(e, f)}

\* ProcessOneEvent up to the call of the handler
Dequeue(w, e) == [w EXCEPT !.now = e.ts, !.queue = @ \ {e}]

\* Simulator::Stop, called by the event that Stop(delay) schedules
StopLoop(w) == [w EXCEPT !.running = FALSE]

\* Run leaves its loop when nothing is pending or m_stop is set
IsFinished == queue = {} \/ ~running
=============================================================================
