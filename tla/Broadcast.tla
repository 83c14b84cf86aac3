------------------------------- MODULE Broadcast -------------------------------
(***************************************************************************)
(* Announcements to clients.  A wizard fills a draft in the FSM data; its  *)
(* buttons work in any state, on any old screen.  Confirming records what  *)
(* the draft is by then and starts a task, which is known by admin and     *)
(* second, walks the recipients and saves its counters now and then.       *)
(***************************************************************************)
EXTENDS Naturals, FiniteSets

CONSTANTS
    Recipients,
    Drafts,             \* what the wizard makes: [audience, blank]
    MaxBroadcasts,      \* bound on the rows of broadcast_messages
    SaveEvery,          \* STATS_SAVE_INTERVAL
    Seconds             \* bound on the clock

ASSUME BroadcastAssumption ==
    /\ IsFiniteSet(Recipients) /\ \A d \in Drafts : d.audience \subseteq Recipients
    /\ MaxBroadcasts \in Nat \ {0} /\ Seconds \in Nat \ {0}

Broadcasts == 1..MaxBroadcasts

VARIABLES
    draft,          \* content in the FSM data
    clock,          \* the second the last task started in
    status,         \* status of each row
    saved,          \* its counters: sent, and failed or blocked
    content,        \* what the task sends
    taskId,         \* the second in its task_id
    active,         \* active_broadcasts: the last task of each task_id
    flag,           \* tasks whose flag says cancelled
    at,             \* where each task is
    rest,           \* recipients not processed yet
    got,            \* recipients the message was sent to
    stops           \* stop buttons: "no", "shown", "pressed", "done"

dialogue == <<draft, clock>>
records == <<status, saved>>
registry == <<taskId, active, flag, stops>>
task == <<content, at, rest, got>>
broadcastVars == <<dialogue, records, registry, task>>

\* from_dict of nothing: no text, to everybody.
Blank == [audience |-> Recipients, blank |-> TRUE]
Contents == Drafts \cup {Blank}
Statuses == {"none", "scheduled", "sending", "completed", "cancelled", "failed"}
Over == {"done", "lost"}

BroadcastTypeOK ==
    /\ draft \in Contents /\ clock \in 1..Seconds
    /\ status \in [Broadcasts -> Statuses]
    /\ saved \in [Broadcasts -> [sent : 0..Cardinality(Recipients), bad : 0..Cardinality(Recipients)]]
    /\ content \in [Broadcasts -> Contents] /\ taskId \in [Broadcasts -> 0..Seconds]
    /\ active \in [1..Seconds -> SUBSET Broadcasts] /\ flag \subseteq Broadcasts
    /\ at \in [Broadcasts -> {"idle", "record", "start", "loop", "save", "complete"} \cup Over]
    /\ rest \in [Broadcasts -> SUBSET Recipients] /\ got \in [Broadcasts -> SUBSET Recipients]
    /\ stops \in [Broadcasts -> {"no", "shown", "pressed", "done"}]

BroadcastInit ==
    /\ draft = Blank /\ clock = 1
    /\ status = [b \in Broadcasts |-> "none"]
    /\ saved = [b \in Broadcasts |-> [sent |-> 0, bad |-> 0]]
    /\ content = [b \in Broadcasts |-> Blank] /\ taskId = [b \in Broadcasts |-> 0]
    /\ active = [s \in 1..Seconds |-> {}] /\ flag = {}
    /\ at = [b \in Broadcasts |-> "idle"]
    /\ rest = [b \in Broadcasts |-> {}] /\ got = [b \in Broadcasts |-> {}]
    /\ stops = [b \in Broadcasts |-> "no"]

GoOn(b, l) == at' = [at EXCEPT ![b] = l]
SetStatus(b, v) == status' = [status EXCEPT ![b] = v]

\* Any step of the wizard; or the dialogue is cleared, or its data expires.
\* Edits after the last confirmation the bound allows are left out.
Edit(d) ==
    /\ at[MaxBroadcasts] = "idle"
    /\ d # draft /\ draft' = d
    /\ UNCHANGED <<clock, records, registry, task>>

\* The confirm button of any preview sends the draft as it is now.
ConfirmDraft(b) ==
    /\ at[b] = "idle" /\ \A c \in 1..(b - 1) : at[c] # "idle"
    /\ content' = [content EXCEPT ![b] = draft]
    /\ SetStatus(b, "scheduled")
    /\ GoOn(b, "record")
    /\ UNCHANGED <<dialogue, saved, registry, rest, got>>

\* Mutant: the task is not entered in active_broadcasts.
LaunchUnregistered(b) ==
    /\ at[b] = "record"
    /\ clock' \in {clock, clock + 1} /\ clock' <= Seconds
    /\ taskId' = [taskId EXCEPT ![b] = clock']
    /\ active' = active
    /\ stops' = [stops EXCEPT ![b] = "shown"]
    /\ GoOn(b, "start")
    /\ UNCHANGED <<draft, records, flag, content, rest, got>>

\* The progress message is there; the task is made and entered.
LaunchTask(b) ==
    /\ at[b] = "record"
    /\ clock' \in {clock, clock + 1} /\ clock' <= Seconds
    /\ taskId' = [taskId EXCEPT ![b] = clock']
    /\ active' = [active EXCEPT ![clock'] = {b}]
    /\ stops' = [stops EXCEPT ![b] = "shown"]
    /\ GoOn(b, "start")
    /\ UNCHANGED <<draft, records, flag, content, rest, got>>

NoMessage(b) ==
    /\ at[b] = "record"
    /\ GoOn(b, "lost")
    /\ UNCHANGED <<dialogue, records, registry, content, rest, got>>

Begin(b) ==
    /\ at[b] = "start"
    /\ SetStatus(b, "sending")
    /\ rest' = [rest EXCEPT ![b] = content[b].audience]
    /\ GoOn(b, "loop")
    /\ UNCHANGED <<dialogue, saved, registry, content, got>>

Processed(b) == Cardinality(content[b].audience \ rest[b])
Counters(b) == [sent |-> Cardinality(got[b]), bad |-> Processed(b) - Cardinality(got[b])]

\* One recipient: sent, or failed, blocked or told to wait, which is not
\* tried again.
SendOne(b, x) ==
    /\ at[b] = "loop" /\ b \notin flag /\ x \in rest[b]
    /\ rest' = [rest EXCEPT ![b] = @ \ {x}]
    /\ got' \in {got, [got EXCEPT ![b] = @ \cup {x}]}
    /\ UNCHANGED <<dialogue, status, registry, content, at>>
    /\ saved' = IF Processed(b)' % SaveEvery = 0
                THEN [saved EXCEPT ![b] = Counters(b)'] ELSE saved

\* The flag is looked at before the next recipient, if there is one.
NoticeCancel(b) ==
    /\ at[b] = "loop" /\ b \in flag /\ rest[b] # {}
    /\ SetStatus(b, "cancelled")
    /\ GoOn(b, "save")
    /\ UNCHANGED <<dialogue, saved, registry, content, rest, got>>

\* Mutant: a task stopped after its last recipient does not leave.
LeaveLoopUnstopped(b) ==
    /\ at[b] = "loop" /\ rest[b] = {} /\ b \notin flag
    /\ GoOn(b, "save")
    /\ UNCHANGED <<dialogue, records, registry, content, rest, got>>

LeaveLoop(b) ==
    /\ at[b] = "loop" /\ rest[b] = {}
    /\ GoOn(b, "save")
    /\ UNCHANGED <<dialogue, records, registry, content, rest, got>>

\* Mutant: a stopped task completes.
SaveStatsThenComplete(b) ==
    /\ at[b] = "save"
    /\ saved' = [saved EXCEPT ![b] = Counters(b)]
    /\ GoOn(b, "complete")
    /\ UNCHANGED <<dialogue, status, registry, content, rest, got>>

SaveStats(b) ==
    /\ at[b] = "save"
    /\ saved' = [saved EXCEPT ![b] = Counters(b)]
    /\ GoOn(b, IF b \in flag THEN "done" ELSE "complete")
    /\ UNCHANGED <<dialogue, status, registry, content, rest, got>>

Complete(b) ==
    /\ at[b] = "complete"
    /\ SetStatus(b, "completed")
    /\ GoOn(b, "done")
    /\ UNCHANGED <<dialogue, saved, registry, content, rest, got>>

\* An error of the database ends the task; recording that may fail as well.
Fail(b) ==
    /\ at[b] \in {"start", "loop", "save", "complete"}
    /\ status' \in {status, [status EXCEPT ![b] = "failed"]}
    /\ GoOn(b, "done")
    /\ UNCHANGED <<dialogue, saved, registry, content, rest, got>>

\* The stop button finds the task by its task_id: flag first, then the row.
PressStop(b) ==
    /\ stops[b] = "shown"
    /\ flag' = flag \cup active[taskId[b]]
    /\ stops' = [stops EXCEPT ![b] = IF active[taskId[b]] = {} THEN "done" ELSE "pressed"]
    /\ UNCHANGED <<dialogue, records, taskId, active, task>>

RecordStop(b) ==
    /\ stops[b] = "pressed"
    /\ status' = [c \in Broadcasts |-> IF c \in active[taskId[b]] THEN "cancelled" ELSE status[c]]
    /\ stops' = [stops EXCEPT ![b] = "done"]
    /\ UNCHANGED <<dialogue, saved, taskId, active, flag, task>>

CrashBroadcasts ==
    /\ \E b \in Broadcasts : at[b] \notin {"idle"} \cup Over
    /\ at' = [b \in Broadcasts |-> IF at[b] \in {"idle"} \cup Over THEN at[b] ELSE "lost"]
    /\ active' = [s \in 1..Seconds |-> {}]
    /\ flag' = {}
    /\ stops' = [b \in Broadcasts |-> IF stops[b] = "pressed" THEN "done" ELSE stops[b]]
    /\ UNCHANGED <<dialogue, records, taskId, content, rest, got>>

RunTask(b) ==
    \/ Begin(b) \/ NoticeCancel(b) \/ LeaveLoop(b) \/ SaveStats(b) \/ Complete(b)
    \/ \E x \in Recipients : SendOne(b, x)

BroadcastNext ==
    \/ CrashBroadcasts
    \/ \E d \in Contents : Edit(d)
    \/ \E b \in Broadcasts : \/ ConfirmDraft(b) \/ LaunchTask(b) \/ NoMessage(b) \/ RunTask(b)
                             \/ Fail(b) \/ PressStop(b) \/ RecordStop(b)

BroadcastFairness == \A b \in Broadcasts : WF_broadcastVars(RunTask(b))

BroadcastSpec == BroadcastInit /\ [][BroadcastNext]_broadcastVars /\ BroadcastFairness

-----------------------------------------------------------------------------
\* A row that says completed has been through all recipients, and its
\* counters account for each of them.
CompletedCoversAll ==
    \A b \in DOMAIN status : status[b] = "completed" =>
        /\ rest[b] = {}
        /\ saved[b] = Counters(b)

\* A stop button reaches its own task, unless another was started in the same
\* second.
StopIsHeard ==
    \A b \in DOMAIN stops : stops[b] \in {"pressed", "done"} /\ at[b] \notin Over =>
        \/ b \in flag
        \/ \E c \in DOMAIN taskId : c # b /\ taskId[c] = taskId[b]

\* A task that has started ends: walked, stopped, failed, or lost in a crash.
BroadcastEnds == \A b \in Broadcasts : at[b] = "start" ~> at[b] \in Over
===============================================================================
