------------------------------ MODULE LiveRunner ------------------------------
(***************************************************************************)
(* run_live and what keeps it going: the producer thread that reads the    *)
(* stream and reconnects, the asyncio loop with the consumer, the watchdog *)
(* and the main task, the shutdown, and systemd.                           *)
(*                                                                         *)
(* The loop runs its ready callbacks in the order in which they became     *)
(* ready; the thread only ever appends one (run_coroutine_threadsafe).     *)
(* What process_event does is module LiveTrading's subject; here it is one *)
(* long step in which nothing but the thread moves.                        *)
(***************************************************************************)
EXTENDS Integers, SequencesExt, FiniteSetsExt

CONSTANTS
    FailureWindow,  \* _FAILURE_WINDOW_S, in units of time
    MaxFailures,    \* _MAX_FAILURES_IN_WINDOW
    Backoff,        \* _RECONNECT_BACKOFF
    MaxBacklog      \* bound: callbacks ready and events queued at once

ASSUME RunnerAssumption ==
    /\ FailureWindow \in Nat
    /\ MaxFailures \in Nat \ {0}
    /\ Backoff \in Seq(Nat) /\ Backoff # <<>>
    /\ MaxBacklog \in Nat \ {0}

\* Events are numbered round a ring that the backlog cannot fill.
Ring == MaxBacklog + 2
Dead == Ring

VARIABLES
    trouble,    \* the network, the broker or the machine are in trouble
    proc,       \* the process and its loop
    ready,      \* the loop's ready callbacks
    turn,       \* who runs in the loop's thread
    queue,      \* the asyncio.Queue
    consumer, watchdog, main,   \* the tasks
    stop,       \* stop_event
    producer,   \* the thread
    wait,       \* what is left of its sleep
    failures,   \* ages of the stream failures in iter_events' deque
    sent,       \* number of the next event
    expected,   \* observer: number of the next event to be handled
    history     \* observer: ages of the last failures, none of them pruned

loop == <<ready, turn, queue, consumer, watchdog, main, stop>>
thread == <<producer, wait, failures, history>>
numbers == <<sent, expected>>
vars == <<trouble, proc, loop, thread, numbers>>

Task(name) == [task |-> name, item |-> 0]
Put(item) == [task |-> "put", item |-> item]

\* create_task for the consumer and the watchdog, after the thread's start.
Fresh ==
    /\ ready' = <<Task("consumer"), Task("watchdog")>>
    /\ turn' = "loop" /\ queue' = <<>>
    /\ consumer' = "woken" /\ watchdog' = "woken" /\ main' = "waiting"
    /\ stop' = FALSE
    /\ producer' = "connecting" /\ wait' = 0
    /\ failures' = <<>> /\ history' = <<>>
    /\ sent' = 0 /\ expected' = 0

Init ==
    /\ trouble = FALSE /\ proc = "down"
    /\ ready = <<>> /\ turn = "loop" /\ queue = <<>>
    /\ consumer = "waiting" /\ watchdog = "sleeping" /\ main = "waiting"
    /\ stop = FALSE
    /\ producer = "none" /\ wait = 0 /\ failures = <<>> /\ history = <<>>
    /\ sent = 0 /\ expected = 0

-----------------------------------------------------------------------------
\* ---- the producer thread: iter_events under _run_producer -----------------

Connected ==
    /\ producer = "connecting"
    /\ producer' = "streaming"
    /\ UNCHANGED <<trouble, proc, loop, wait, failures, history, numbers>>

\* An event, unless stop_event is set ...
Event ==
    /\ producer = "streaming"
    /\ Len(ready) + Len(queue) < MaxBacklog
    /\ producer' = IF stop THEN "stopped" ELSE "posting"
    /\ UNCHANGED <<trouble, proc, loop, wait, failures, history, numbers>>

\* ... is handed to the loop; one that has closed meanwhile raises, and then
\* on_dead finds it closed.
Post ==
    /\ producer = "posting"
    /\ IF proc = "closed"
       THEN producer' = "dead" /\ UNCHANGED <<ready, sent>>
       ELSE /\ producer' = "streaming"
            /\ ready' = Append(ready, Put(sent))
            /\ sent' = (sent + 1) % Ring
    /\ UNCHANGED <<trouble, proc, turn, queue, consumer, watchdog, main, stop,
                   wait, failures, history, expected>>

\* Mutant: the thread ends without a word.
DieSilently ==
    /\ producer' = "dead"
    /\ UNCHANGED ready

\* on_dead.
Die ==
    /\ producer' = "dead"
    /\ ready' = IF proc = "closed" THEN ready ELSE Append(ready, Put(Dead))

\* Mutant: a failure as old as the window is no longer counted.
InWindowStrictly(age) == age < FailureWindow

InWindow(age) == age <= FailureWindow

\* The deque is pruned from the left, up to the first that still counts.
Pruned(ages) ==
    SubSeq(ages, Min({n \in DOMAIN ages : InWindow(ages[n])}), Len(ages))

\* A RequestException: counted, and either the last one or slept upon.
StreamFails ==
    /\ producer \in {"connecting", "streaming"} /\ trouble
    /\ failures' = Pruned(Append(failures, 0))
    /\ history' = LET all == Append(history, 0)
                  IN  IF Len(all) > MaxFailures THEN Tail(all) ELSE all
    /\ IF Len(failures') >= MaxFailures
       THEN Die /\ UNCHANGED wait
       ELSE /\ producer' = "backoff"
            /\ wait' = Backoff[Min({Len(failures'), Len(Backoff)})]
            /\ UNCHANGED ready
    /\ UNCHANGED <<trouble, proc, turn, queue, consumer, watchdog, main, stop,
                   numbers>>

\* The broker ends the stream in good order: no failure, no backoff.
StreamEnds ==
    /\ producer = "streaming" /\ trouble
    /\ producer' = "connecting"
    /\ UNCHANGED <<trouble, proc, loop, wait, failures, history, numbers>>

\* Any other exception, a refused token for one, leaves iter_events.
StreamRaises ==
    /\ producer \in {"connecting", "streaming"} /\ trouble
    /\ Die
    /\ UNCHANGED <<trouble, proc, turn, queue, consumer, watchdog, main, stop,
                   wait, failures, history, numbers>>

Retry ==
    /\ producer = "backoff" /\ wait = 0
    /\ producer' = "connecting"
    /\ UNCHANGED <<trouble, proc, loop, wait, failures, history, numbers>>

Older(ages) ==
    [n \in DOMAIN ages |-> Min({ages[n] + 1, FailureWindow + 1})]

Tick ==
    /\ wait' = Max({wait - 1, 0})
    /\ failures' = Older(failures) /\ history' = Older(history)
    /\ UNCHANGED <<trouble, proc, loop, producer, numbers>>

\* ---- the loop -------------------------------------------------------------

IsNext(name) == turn = "loop" /\ ready # <<>> /\ Head(ready).task = name

\* Mutant: the event goes to the front of the queue.
RunPutInFront ==
    /\ IsNext("put")
    /\ queue' = <<Head(ready).item>> \o queue
    /\ IF consumer = "waiting"
       THEN consumer' = "woken" /\ ready' = Append(Tail(ready), Task("consumer"))
       ELSE ready' = Tail(ready) /\ UNCHANGED consumer
    /\ UNCHANGED <<trouble, proc, turn, watchdog, main, stop, thread, numbers>>

\* queue.put, which wakes a consumer that waits.
RunPut ==
    /\ IsNext("put")
    /\ queue' = Append(queue, Head(ready).item)
    /\ IF consumer = "waiting"
       THEN consumer' = "woken" /\ ready' = Append(Tail(ready), Task("consumer"))
       ELSE ready' = Tail(ready) /\ UNCHANGED consumer
    /\ UNCHANGED <<trouble, proc, turn, watchdog, main, stop, thread, numbers>>

RunConsumer ==
    /\ IsNext("consumer")
    /\ ready' = Tail(ready)
    /\ IF consumer = "woken"
       THEN IF queue = <<>>
            THEN consumer' = "waiting" /\ UNCHANGED turn
            ELSE turn' = "consumer" /\ UNCHANGED consumer
       ELSE UNCHANGED <<consumer, turn>>
    /\ UNCHANGED <<trouble, proc, queue, watchdog, main, stop, thread, numbers>>

\* Mutant: the consumer polls and never gives the loop its turn.
HandleAndPoll ==
    /\ turn = "consumer" /\ queue # <<>> /\ Head(queue) # Dead
    /\ queue' = Tail(queue)
    /\ expected' = (expected + 1) % Ring
    /\ UNCHANGED <<consumer, turn>>
    /\ UNCHANGED <<trouble, proc, ready, watchdog, main, stop, thread, sent>>

\* process_event.  queue.get suspends only when the queue is empty.
Handle ==
    /\ turn = "consumer" /\ queue # <<>> /\ Head(queue) # Dead
    /\ queue' = Tail(queue)
    /\ expected' = (expected + 1) % Ring
    /\ IF Tail(queue) = <<>>
       THEN consumer' = "waiting" /\ turn' = "loop"
       ELSE UNCHANGED <<consumer, turn>>
    /\ UNCHANGED <<trouble, proc, ready, watchdog, main, stop, thread, sent>>

WakeMain(callbacks) ==
    IF main = "waiting"
    THEN main' = "woken" /\ ready' = Append(callbacks, Task("main"))
    ELSE ready' = callbacks /\ UNCHANGED main

\* Mutant: the sentinel is logged and the consumer waits for more.
SeeDeadAndWait ==
    /\ turn = "consumer" /\ queue # <<>> /\ Head(queue) = Dead
    /\ queue' = Tail(queue)
    /\ consumer' = "waiting" /\ turn' = "loop"
    /\ UNCHANGED <<trouble, proc, ready, watchdog, main, stop, thread, numbers>>

\* FatalStreamError ends the consumer.
SeeDead ==
    /\ turn = "consumer" /\ queue # <<>> /\ Head(queue) = Dead
    /\ queue' = Tail(queue)
    /\ consumer' = "ended" /\ turn' = "loop"
    /\ WakeMain(ready)
    /\ UNCHANGED <<trouble, proc, watchdog, stop, thread, numbers>>

\* The sleep of the watchdog, or (RuntimeOver) of the max-runtime task, is over.
WatchdogDue ==
    /\ proc = "running" /\ watchdog = "sleeping"
    /\ watchdog' = "woken"
    /\ ready' = Append(ready, Task("watchdog"))
    /\ UNCHANGED <<trouble, proc, turn, queue, consumer, main, stop, thread,
                   numbers>>

RuntimeOver ==
    /\ proc = "running" /\ main = "waiting"
    /\ WakeMain(ready)
    /\ UNCHANGED <<trouble, proc, turn, queue, consumer, watchdog, stop, thread,
                   numbers>>

\* One pass over the open trades; whatever it raises is caught.
RunWatchdog ==
    /\ IsNext("watchdog")
    /\ ready' = Tail(ready)
    /\ watchdog' = IF watchdog = "woken" THEN "sleeping" ELSE watchdog
    /\ UNCHANGED <<trouble, proc, turn, queue, consumer, main, stop, thread,
                   numbers>>

\* Mutant: the shutdown leaves the consumer alone.
RunMainNoCancel ==
    /\ IsNext("main")
    /\ proc' = "stopping" /\ stop' = TRUE
    /\ ready' = Tail(ready)
    /\ watchdog' = "cancelled"
    /\ UNCHANGED <<trouble, turn, queue, consumer, main, thread, numbers>>

\* asyncio.wait returns: stop the thread, cancel the tasks.
RunMain ==
    /\ IsNext("main")
    /\ proc' = "stopping" /\ stop' = TRUE
    /\ ready' = Tail(ready)
    /\ consumer' = IF consumer = "ended" THEN "ended" ELSE "cancelled"
    /\ watchdog' = "cancelled"
    /\ UNCHANGED <<trouble, turn, queue, main, thread, numbers>>

\* asyncio.run drops what is left and closes the loop.
CloseLoop ==
    /\ proc = "stopping" /\ turn = "loop"
    /\ proc' = "closed"
    /\ ready' = <<>> /\ queue' = <<>>
    /\ UNCHANGED <<trouble, turn, consumer, watchdog, main, stop, thread,
                   numbers>>

\* ---- the process ----------------------------------------------------------

\* The thread is a daemon and dies with the process.
Gone ==
    /\ proc' = "down"
    /\ ready' = <<>> /\ turn' = "loop" /\ queue' = <<>>
    /\ consumer' = "waiting" /\ watchdog' = "sleeping" /\ main' = "waiting"
    /\ stop' = FALSE
    /\ producer' = "none" /\ wait' = 0 /\ failures' = <<>> /\ history' = <<>>
    /\ sent' = 0 /\ expected' = 0

Exit ==
    /\ proc = "closed" /\ Gone /\ UNCHANGED trouble

Crash ==
    /\ proc # "down" /\ trouble /\ Gone /\ UNCHANGED trouble

\* systemd.  In trouble, main's account_summary may end it at once: a Crash.
Start ==
    /\ proc = "down"
    /\ proc' = "running"
    /\ Fresh
    /\ UNCHANGED trouble

Weather ==
    /\ trouble' = ~trouble
    /\ UNCHANGED <<proc, loop, thread, numbers>>

Thread == Connected \/ Event \/ Post \/ Retry

Loop ==
    RunPut \/ RunConsumer \/ Handle \/ SeeDead \/ RunWatchdog \/ RunMain

Next ==
    \/ Thread \/ StreamFails \/ StreamEnds \/ StreamRaises \/ Tick
    \/ Loop \/ WatchdogDue \/ RuntimeOver \/ CloseLoop
    \/ Exit \/ Crash \/ Start \/ Weather

Spec == Init /\ [][Next]_vars

\* The thread is scheduled, time passes, the loop runs what is ready and its
\* timers, the interpreter exits, and systemd has Restart=always.
FairSpec ==
    /\ Spec
    /\ WF_vars(Thread) /\ WF_vars(Tick)
    /\ WF_vars(Loop) /\ WF_vars(WatchdogDue) /\ WF_vars(CloseLoop)
    /\ WF_vars(Exit) /\ WF_vars(Start)

-----------------------------------------------------------------------------
\* Every event the thread hands over is handled once and in order, as long as
\* the process runs: the puts are independent coroutines, yet no candle is
\* overtaken, lost or repeated between the thread and the engine.
EveryEventOnceInOrder ==
    [][expected' # expected /\ proc' = proc => Head(queue) = expected]_vars

\* Nothing is handled, and so no trade is entered, once the shutdown began.
NoEventInShutdown ==
    [][expected' # expected /\ proc' # "down" => proc = "running"]_vars

Failed ==
    /\ producer \in {"connecting", "streaming"}
    /\ producer' \in {"backoff", "dead"}
    /\ history' # history

\* stream.py:220: the stream is given up when, and only when, as many as
\* MaxFailures failures lie within the window, whenever they were pruned.
ExhaustedExactly ==
    [][Failed =>
        (producer' = "dead"
            <=> Cardinality({n \in DOMAIN history' : history'[n] <= FailureWindow})
                    >= MaxFailures)]_vars

\* live.py:77: "never die silently".  A stream that is dead ends the process.
DeadStreamRestarts ==
    producer = "dead" /\ proc = "running" ~> proc = "down"

\* The watchdog gets its turn, however many events there are to handle.
WatchdogRuns ==
    watchdog = "woken" ~> watchdog = "sleeping" \/ proc # "running"

\* Once the trouble is over events are handled again and again, whatever was
\* lost or restarted on the way, unless --max-runtime-seconds keeps ending it.
EventsFlowAgain ==
    <>[](~trouble) => []<><<Handle>>_vars \/ []<><<RuntimeOver>>_vars
=============================================================================
