------------------------------ MODULE TelegramLog ------------------------------
(***************************************************************************)
(* Errors of the program in an admin's chat.  Any thread hands a record to *)
(* the event loop, which puts it into a bounded queue; one worker sends    *)
(* what is neither a repetition nor too soon after the last message, and   *)
(* counts the rest for a report.  Shutting down puts a stop signal into    *)
(* the same queue and waits for the worker, both for a limited time.       *)
(***************************************************************************)
EXTENDS Naturals, Sequences, FiniteSets

CONSTANTS
    Fingerprints,   \* of records
    QueueSize,
    RateLimit,      \* rate_limit_seconds, between two messages
    Window,         \* dedup_window_seconds
    ReportEvery,    \* suppression_report_interval
    MaxEmits,       \* bound on the records
    LastTime        \* bound on the clock, which starts at Window

VARIABLES
    time,
    emitted,        \* records handed over
    pending,        \* callbacks of call_soon_threadsafe that have not run
    queue,
    sender,         \* records in the message it is sending, 0 idle; or "off"
    cache,          \* when each fingerprint was sent; 0 long ago
    lastSent, lastReport,
    suppressed,     \* suppressed_count
    shown,          \* history: records sent or counted in a report
    overflowed,     \* history: the queue was full
    stop            \* shutdown: "no", "putting", "waiting", "done"

logVars == <<time, emitted, pending, queue, sender, cache, lastSent, lastReport,
    suppressed, shown, overflowed, stop>>

Stop == "stop"

ASSUME LogAssumption ==
    /\ Stop \notin Fingerprints /\ QueueSize \in Nat \ {0}
    /\ MaxEmits \in Nat /\ Window \in Nat /\ LastTime \in Nat /\ Window <= LastTime

Off == MaxEmits + 1                         \* the worker has ended

LogCountsOK ==
    /\ time \in Window..LastTime /\ emitted \in 0..MaxEmits
    /\ pending \in Seq(Fingerprints) /\ queue \in Seq(Fingerprints \cup {Stop})
    /\ Len(queue) <= QueueSize /\ sender \in 0..Off
    /\ cache \in [Fingerprints -> 0..LastTime]
    /\ lastSent \in 0..LastTime /\ lastReport \in 0..LastTime
    /\ suppressed \in 0..MaxEmits /\ shown \in 0..MaxEmits
    /\ stop \in {"no", "putting", "waiting", "done"}

LogTypeOK == LogCountsOK /\ overflowed \in BOOLEAN

LogInit ==
    /\ time = Window /\ emitted = 0 /\ pending = <<>> /\ queue = <<>> /\ sender = 0
    /\ cache = [f \in Fingerprints |-> 0] /\ lastSent = 0 /\ lastReport = 0
    /\ suppressed = 0 /\ shown = 0 /\ overflowed = FALSE /\ stop = "no"

-----------------------------------------------------------------------------
\* The process is shutting down from the moment shutdown is called.
Emit(f) ==
    /\ stop = "no" /\ emitted < MaxEmits
    /\ emitted' = emitted + 1
    /\ pending' = Append(pending, f)
    /\ UNCHANGED <<time, queue, sender, cache, lastSent, lastReport, suppressed, shown, overflowed,
                   stop>>

\* _try_put: a full queue loses its oldest entry, the stop signal as well.
TryPut ==
    /\ pending # <<>>
    /\ pending' = Tail(pending)
    /\ IF Len(queue) < QueueSize
       THEN queue' = Append(queue, Head(pending)) /\ UNCHANGED overflowed
       ELSE queue' = Append(Tail(queue), Head(pending)) /\ overflowed' = TRUE
    /\ UNCHANGED <<time, emitted, sender, cache, lastSent, lastReport, suppressed, shown, stop>>

Repeated(f) == cache[f] # 0 /\ time - cache[f] < Window
TooSoon == time - lastSent < RateLimit
ReportDue == time - lastReport >= ReportEvery /\ ~TooSoon

\* Mutant: a record that comes too soon is not counted.
OneMoreOfRepeated(f) == suppressed + IF Repeated(f) THEN 1 ELSE 0

OneMore(f) == suppressed + 1

\* A record that is not sent, and the report of such records if it is time.
Suppress(f) ==
    /\ Repeated(f) \/ TooSoon
    /\ IF ReportDue
       THEN /\ sender' = OneMore(f) /\ suppressed' = 0
            /\ lastReport' = time /\ lastSent' = time
       ELSE suppressed' = OneMore(f) /\ UNCHANGED <<sender, lastReport, lastSent>>
    /\ UNCHANGED cache

\* Fingerprints that have expired leave the cache.
Pass(f) ==
    /\ ~Repeated(f) /\ ~TooSoon
    /\ sender' = 1 /\ lastSent' = time
    /\ cache' = [g \in Fingerprints |-> IF g = f THEN time
                                        ELSE IF time - cache[g] > Window THEN 0 ELSE cache[g]]
    /\ UNCHANGED <<suppressed, lastReport>>

ProcessEntry ==
    /\ sender = 0 /\ queue # <<>> /\ Head(queue) # Stop
    /\ queue' = Tail(queue)
    /\ Suppress(Head(queue)) \/ Pass(Head(queue))
    /\ UNCHANGED <<time, emitted, pending, shown, overflowed, stop>>

\* The message is out, or Telegram has refused it, which stderr is told.
SendRawMessage ==
    /\ sender \in 1..MaxEmits
    /\ shown' = shown + sender /\ sender' = 0
    /\ UNCHANGED <<time, emitted, pending, queue, cache, lastSent, lastReport, suppressed, overflowed,
                   stop>>

TakeStop ==
    /\ sender = 0 /\ queue # <<>> /\ Head(queue) = Stop
    /\ queue' = Tail(queue) /\ sender' = Off
    /\ UNCHANGED <<time, emitted, pending, cache, lastSent, lastReport, suppressed, shown, overflowed,
                   stop>>

-----------------------------------------------------------------------------
Shutdown ==
    /\ stop = "no" /\ stop' = "putting"
    /\ UNCHANGED <<time, emitted, pending, queue, sender, cache, lastSent, lastReport, suppressed,
                   shown, overflowed>>

PutStop ==
    /\ stop = "putting" /\ Len(queue) < QueueSize
    /\ queue' = Append(queue, Stop) /\ stop' = "waiting"
    /\ UNCHANGED <<time, emitted, pending, sender, cache, lastSent, lastReport, suppressed, shown,
                   overflowed>>

WorkerEnded ==
    /\ stop = "waiting" /\ sender = Off /\ stop' = "done"
    /\ UNCHANGED <<time, emitted, pending, queue, sender, cache, lastSent, lastReport, suppressed,
                   shown, overflowed>>

\* Mutant: only the put is limited.
TimedOutPut == stop = "putting"

TimedOut == stop \in {"putting", "waiting"}

\* Half of the time each: then the worker is cancelled.
ShutdownTimeout ==
    /\ TimedOut /\ stop' = "done" /\ sender' = Off
    /\ UNCHANGED <<time, emitted, pending, queue, cache, lastSent, lastReport, suppressed, shown,
                   overflowed>>

LogTick ==
    /\ time < LastTime /\ time' = time + 1
    /\ UNCHANGED <<emitted, pending, queue, sender, cache, lastSent, lastReport, suppressed, shown,
                   overflowed, stop>>

ShutdownStep == PutStop \/ WorkerEnded \/ ShutdownTimeout

LogNext ==
    \/ \E f \in Fingerprints : Emit(f)
    \/ TryPut \/ ProcessEntry \/ SendRawMessage \/ TakeStop
    \/ Shutdown \/ ShutdownStep \/ LogTick

LogSpec == LogInit /\ [][LogNext]_logVars /\ WF_logVars(ShutdownStep)

-----------------------------------------------------------------------------
Records(q) == Cardinality({i \in DOMAIN q : q[i] # Stop})
Queued == Len(pending) + Records(queue)
Sending == IF sender = Off THEN 0 ELSE sender

\* A record is on its way, sent, or counted for a report; none is lost unless
\* the queue was full or the handler is stopped while it sends.
LogAccounted ==
    \/ emitted = Queued + Sending + shown + suppressed
    \/ emitted > Queued + Sending + shown + suppressed /\ (overflowed \/ stop = "done")

\* Shutting down ends, even if its stop signal has been pushed out of the queue.
ShutdownEnds == stop = "putting" ~> stop = "done"
===============================================================================
