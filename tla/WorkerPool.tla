----------------------------- MODULE WorkerPool -----------------------------
(***************************************************************************)
(* The transcode slots of one source worker (SessionService.#acquire and   *)
(* #release): VOD producers and segment jobs share maxWorkers slots and    *)
(* wait in a bounded queue for one.  All of it is code of one event loop;  *)
(* a step is what runs between two awaits.                                 *)
(***************************************************************************)
EXTENDS Naturals, Sequences, FiniteSets, SequencesExt

CONSTANTS
    Request,     \* callers of #acquire
    maxWorkers,  \* number of slots
    QueueFactor  \* the queue holds maxWorkers * QueueFactor waiters (8 in the code)

VARIABLES
    activeWorkers,  \* #activeWorkers
    waiters,        \* #waiters, the callers whose wake-up functions are queued
    st,             \* where each caller stands
    aborted,        \* history: a waiting caller's signal has aborted
    swallowed,      \* history: wake-ups of callers that had left, not made up for since
    overtaken       \* history: slots that newcomers took from woken callers, still out

vars == <<activeWorkers, waiters, st, aborted, swallowed, overtaken>>
account == <<swallowed, overtaken>>

\* waiting: its promise is pending; woken: resolved, its continuation is queued as
\* a microtask; rejected: refused or aborted.
States == {"new", "waiting", "woken", "holding", "rejected", "done"}
In(s) == {r \in Request : st[r] = s}
Goto(r, s) == st' = [st EXCEPT ![r] = s]
Given == activeWorkers + Cardinality(In("woken"))
Less(n) == IF n = 0 THEN 0 ELSE n - 1

Init ==
    /\ activeWorkers = 0
    /\ waiters = <<>>
    /\ st = [r \in Request |-> "new"]
    /\ aborted = FALSE /\ swallowed = 0 /\ overtaken = 0

---------------------------------------------------------------------------
\* #acquire up to its await: a free slot is taken at once, a full queue refuses.
Acquire(r) ==
    /\ st[r] = "new"
    /\ \/ /\ activeWorkers < maxWorkers
          /\ activeWorkers' = activeWorkers + 1
          /\ Goto(r, "holding")
          /\ IF Given < maxWorkers THEN swallowed' = Less(swallowed) /\ UNCHANGED overtaken
                                   ELSE overtaken' = overtaken + 1 /\ UNCHANGED swallowed
          /\ UNCHANGED waiters
       \/ /\ activeWorkers >= maxWorkers
          /\ Len(waiters) >= maxWorkers * QueueFactor
          /\ Goto(r, "rejected")
          /\ UNCHANGED <<activeWorkers, waiters, account>>
       \/ /\ activeWorkers >= maxWorkers
          /\ Len(waiters) < maxWorkers * QueueFactor
          /\ waiters' = Append(waiters, r)
          /\ Goto(r, "waiting")
          /\ UNCHANGED <<activeWorkers, account>>
    /\ UNCHANGED aborted

\* onAbort looks for the promise's resolve function in #waiters, which holds
\* wrappers of it: nothing is found, nothing is removed, the promise is rejected.
Abort(r) ==
    /\ st[r] = "waiting"
    /\ Goto(r, "rejected")
    /\ aborted' = TRUE
    /\ UNCHANGED <<activeWorkers, waiters, account>>

\* #acquire after its await.
Resume(r) ==
    /\ st[r] = "woken"
    /\ activeWorkers' = activeWorkers + 1
    /\ Goto(r, "holding")
    /\ UNCHANGED <<waiters, aborted, account>>

\* #release frees the slot and calls the first wake-up function of the queue; the
\* one of a rejected promise has no effect.
Woken(w, s) == IF s[w] = "waiting" THEN [s EXCEPT ![w] = "woken"] ELSE s

Release(r) ==
    /\ st[r] = "holding"
    /\ activeWorkers' = Less(activeWorkers)
    /\ LET released == [st EXCEPT ![r] = "done"] IN
       \/ /\ waiters = <<>>
          /\ st' = released /\ overtaken' = Less(overtaken)
          /\ UNCHANGED <<waiters, swallowed>>
       \/ /\ waiters # <<>>
          /\ st' = Woken(Head(waiters), released)
          /\ waiters' = Tail(waiters)
          /\ \/ st[Head(waiters)] = "waiting" /\ UNCHANGED account
             \/ /\ st[Head(waiters)] # "waiting" /\ overtaken' = Less(overtaken)
                /\ swallowed' = IF overtaken = 0 THEN swallowed + 1 ELSE swallowed
    /\ UNCHANGED aborted

\* The caller's next request (a name is used again once no leftover carries it).
Again(r) ==
    /\ st[r] \in {"rejected", "done"}
    /\ r \notin Range(waiters)
    /\ Goto(r, "new")
    /\ UNCHANGED <<activeWorkers, waiters, aborted, account>>

Next == \E r \in Request : Acquire(r) \/ Abort(r) \/ Resume(r) \/ Release(r) \/ Again(r)

Spec == Init /\ [][Next]_vars

---------------------------------------------------------------------------
\* The counter is the number of callers that hold a slot: no path through
\* #acquire, an abort and #release loses a slot or counts it twice.
SlotsConserved == activeWorkers = Cardinality(In("holding"))

\* A slot is given once, but for a newcomer who takes it before the caller that was
\* woken for it resumes: each of these adds one to those that run, and none is lost.
NoSlotTwice == Given <= maxWorkers + overtaken

\* A caller waits only while every slot is held or promised to a woken caller; the
\* entry that an aborted caller leaves behind swallows the one wake-up that reaches it,
\* and no more slots are idle than were lost that way.
NoIdleSlot == In("waiting") # {} => Given + swallowed >= maxWorkers

\* The queue serves its callers: whoever waits gets a slot, unless a signal aborts.
WaiterServed == \A r \in Request : st[r] = "waiting" ~> st[r] # "waiting" \/ aborted

=============================================================================
