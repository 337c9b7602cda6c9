-------------------------------- MODULE AiTurns --------------------------------
(***************************************************************************)
(* The AI assistant on one ticket (ai/): the consumer that queues a turn   *)
(* for a customer's message, the turn job that reads, thinks without a     *)
(* transaction and writes, staff replies, take-over and hand-back, and the *)
(* reply mode.                                                             *)
(*                                                                         *)
(* What the model is asked, and what it says, are left out: a turn comes   *)
(* to any decision, or fails.  Writers of the conversation hold the ticket *)
(* row's lock, so that a transaction is one step.                          *)
(***************************************************************************)
EXTENDS Naturals, Sequences, FiniteSets

CONSTANTS
    Runs,                \* slots of the worker's "ai" queue
    MaxAttempts,         \* TURN_ATTEMPTS
    MaxEntries,          \* bound: people act while the history is shorter
    MaxIncidents         \* bound: changes of the reply mode, pauses, resumptions and
                         \* failures of a job in a behaviour

VARIABLES
    history,             \* what happened on the ticket, in the order it was committed
    mode, paused,        \* the tenant's reply mode, and its pause
    stopped, replied,    \* ai_ticket_state: stopped_reason, and agent_replied_at is set
    turns,               \* ai_turns: the trigger messages, by their place in history
    draft,               \* the open draft's turn, 0 when there is none
    triggers, replies,   \* message.created events the two consumers have not handled
    waiting,             \* waiting[n]: turn jobs to be run with n attempts made
    run,                 \* run[r]: the turn in slot r
    owed,                \* ghost: messages a turn was queued for, and nothing ended that since
    incidents

AiConstants == MaxAttempts \in Nat \ {0} /\ MaxEntries \in Nat /\ MaxIncidents \in Nat

settings == <<mode, paused>>
state    == <<stopped, replied>>
vars     == <<history, settings, state, turns, draft, triggers, replies, waiting, run, owed, incidents>>

NoRun == [step |-> "idle", trigger |-> 0, mode |-> "off", made |-> 0, decision |-> "none"]

Init ==
    /\ history = << >> /\ mode \in {"auto", "drafts"} /\ paused = FALSE
    /\ stopped = "none" /\ replied = FALSE /\ turns = {} /\ draft = 0
    /\ triggers = {} /\ replies = {} /\ waiting = [n \in 0..(MaxAttempts - 1) |-> 0]
    /\ run = [r \in Runs |-> NoRun] /\ owed = {} /\ incidents = 0

\* An entry is who or what, and of an assistant's message also its trigger.
Entry(what)      == [what |-> what, of |-> 0]
Add(e)           == history' = Append(history, e)
ByPerson(e)      == Len(history) < MaxEntries /\ Add(e)
Entries(kinds)   == {i \in DOMAIN history : history[i].what \in kinds}
Persons          == {"customer", "staff"}
LatestCustomer   == {i \in Entries({"customer"}) : \A j \in Entries({"customer"}) : j <= i}
NewerPublic(m)   == \E i \in Entries(Persons) : i > m

Incident == incidents < MaxIncidents /\ incidents' = incidents + 1

isStopped == stopped # "none" \/ replied
Blocks    == IF mode = "auto" THEN isStopped ELSE stopped = "handoff"
Active    == mode # "off" /\ ~paused
Handling  == Active /\ ~Blocks

-------------------------------------------------------------------------------
(* People and the administrator. *)

work   == <<turns, waiting, run>>
others == <<work, incidents>>

CustomerWrites ==
    /\ ByPerson(Entry("customer"))
    /\ triggers' = triggers \cup {Len(history) + 1} /\ owed' = {}
    /\ UNCHANGED <<settings, state, draft, replies, others>>

StaffReplies ==
    /\ ByPerson(Entry("staff"))
    /\ replies' = replies \cup {Len(history) + 1} /\ owed' = {}
    /\ UNCHANGED <<settings, state, draft, triggers, others>>

TakeOver ==
    /\ stopped # "taken_over"
    /\ ByPerson(Entry("taken_over")) /\ stopped' = "taken_over" /\ owed' = {}
    /\ UNCHANGED <<settings, replied, draft, triggers, replies, others>>

HandBack ==
    /\ mode = "auto" /\ ~paused /\ isStopped
    /\ ByPerson(Entry("handed_back")) /\ stopped' = "none" /\ replied' = FALSE
    /\ UNCHANGED <<settings, draft, triggers, replies, owed, others>>

SetMode ==
    /\ Incident /\ \E m \in {"auto", "drafts", "off"} : m # mode /\ mode' = m
    /\ UNCHANGED <<history, paused, state, draft, triggers, replies, work>>
    /\ owed' = IF Handling' THEN owed ELSE {}

Resume ==
    /\ Incident /\ paused /\ paused' = FALSE
    /\ UNCHANGED <<history, mode, state, draft, triggers, replies, owed, work>>

DiscardDraft ==
    /\ draft # 0 /\ draft' = 0
    /\ UNCHANGED <<history, settings, state, triggers, replies, owed, others>>

-------------------------------------------------------------------------------
(* The consumers, some time after the messages. *)

\* AiTriggerConsumer: the job that is still delayed is replaced.
Trigger ==
    /\ \E m \in triggers :
          /\ triggers' = triggers \ {m}
          /\ owed' = IF Handling /\ ~NewerPublic(m) /\ m \notin turns THEN {m} ELSE owed
    /\ waiting' = IF Handling THEN [waiting EXCEPT ![0] = 1] ELSE waiting
    /\ UNCHANGED <<history, settings, state, turns, draft, replies, run, incidents>>

\* StaffReplyConsumer: an earlier reason is kept, and the open draft is closed.
StaffReplySeen ==
    /\ \E m \in replies : replies' = replies \ {m}
    /\ replied' = TRUE
    /\ stopped' = IF stopped = "none" THEN "agent_replied" ELSE stopped
    /\ draft' = 0
    /\ UNCHANGED <<history, settings, turns, triggers, waiting, run, incidents>>
    /\ owed' = IF Handling' THEN owed ELSE {}

-------------------------------------------------------------------------------
(* The turn job. *)

rest == <<settings, triggers, replies>>

Settle(r) == run' = [run EXCEPT ![r] = NoRun]

\* read(): the latest customer message, unless there is nothing to answer or to answer with.
Read(r, n) ==
    /\ run[r] = NoRun /\ waiting[n] > 0
    /\ waiting' = [waiting EXCEPT ![n] = @ - 1]
    /\ \/ /\ Handling
          /\ \E m \in LatestCustomer \ turns :
                /\ ~NewerPublic(m)
                /\ run' = [run EXCEPT ![r] = [step |-> "think", trigger |-> m, mode |-> mode,
                                              made |-> n, decision |-> "none"]]
       \/ /\ ~Handling \/ \A m \in LatestCustomer : m \in turns \/ NewerPublic(m)
          /\ UNCHANGED run
    /\ UNCHANGED <<history, state, turns, draft, owed, incidents, rest>>

\* Mutant for OwedIsPaid: the last attempt throws like the others.
NoLastAttempt(r) == FALSE
Last(r) == run[r].made + 1 >= MaxAttempts

\* think(): an answer, which in Drafts mode is a draft, or a hand-off; a failure on the last
\* attempt is a hand-off too.
Think(r) ==
    /\ run[r].step = "think"
    /\ \E d \in {IF run[r].mode = "auto" THEN "answer" ELSE "draft", "handoff"} :
          run' = [run EXCEPT ![r].step = "write", ![r].decision = d]
    /\ UNCHANGED <<history, state, turns, draft, owed, waiting, incidents, rest>>

Retry(r) ==
    IF run[r].made + 1 < MaxAttempts
    THEN waiting' = [waiting EXCEPT ![run[r].made + 1] = @ + 1]
    ELSE UNCHANGED waiting

ThinkFails(r) ==
    /\ run[r].step = "think" /\ ~Last(r)
    /\ Retry(r) /\ Settle(r)
    /\ UNCHANGED <<history, state, turns, draft, owed, incidents, rest>>

\* The provider refuses the key or the account: the tenant's AI is paused, the job is over.
ThinkPauses(r) ==
    /\ run[r].step = "think" /\ Settle(r) /\ Incident
    /\ paused' = TRUE /\ owed' = {}
    /\ UNCHANGED <<history, mode, state, turns, draft, triggers, replies, waiting>>

\* Mutant for AnswersInPlace: the conversation is not looked at again.
StillRead(m) == Handling
\* Mutant for SilentWhenStopped: the stop is not looked at again.
StillUnanswered(m) == Active /\ ~NewerPublic(m)
\* What write() re-checks under the ticket's lock.
Still(m) == Handling /\ ~NewerPublic(m)

\* write(): nothing, a hand-off (with a notice in Auto-reply), a draft or an answer.
Write(r) ==
    /\ run[r].step = "write" /\ Settle(r)
    /\ LET m == run[r].trigger
           d == run[r].decision
       IN \/ (~Still(m) \/ m \in turns) /\ UNCHANGED <<history, state, turns, draft, owed>>
          \/ /\ Still(m) /\ m \notin turns
             /\ turns' = turns \cup {m} /\ owed' = owed \ {m}
             /\ \/ /\ d = "handoff" /\ Add([what |-> "handoff", of |-> m])
                   /\ stopped' = "handoff" /\ UNCHANGED <<replied, draft>>
                \/ /\ d # "handoff" /\ (d = "draft" \/ mode = "drafts")
                   /\ draft' = m /\ UNCHANGED <<history, state>>
                \/ /\ d = "answer" /\ mode = "auto" /\ Add([what |-> "answer", of |-> m])
                   /\ UNCHANGED <<state, draft>>
    /\ UNCHANGED <<waiting, incidents, rest>>

\* A transaction fails, or the worker dies: no attempt is used up, or one, or the last.
Fail(r) ==
    /\ run[r] # NoRun /\ Incident /\ Settle(r)
    /\ \/ waiting' = [waiting EXCEPT ![run[r].made] = @ + 1] /\ UNCHANGED owed
       \/ ~Last(r) /\ Retry(r) /\ UNCHANGED owed
       \/ Last(r) /\ UNCHANGED waiting /\ owed' = owed \ {run[r].trigger}
    /\ UNCHANGED <<history, state, turns, draft, rest>>

Thinking(r) == Think(r) \/ ThinkFails(r) \/ ThinkPauses(r)

Next ==
    \/ CustomerWrites \/ StaffReplies \/ TakeOver \/ HandBack
    \/ SetMode \/ Resume \/ DiscardDraft \/ Trigger \/ StaffReplySeen
    \/ \E r \in Runs :
          Thinking(r) \/ Write(r) \/ Fail(r) \/ \E n \in DOMAIN waiting : Read(r, n)

Spec == Init /\ [][Next]_vars

-------------------------------------------------------------------------------
(* Properties. *)

Places == 0..(2 * MaxEntries)

TypeOK ==
    /\ history \in Seq([what : Persons \cup {"taken_over", "handed_back", "handoff", "answer"}, of : Places])
    /\ Len(history) \in Places
    /\ mode \in {"auto", "drafts", "off"} /\ paused \in BOOLEAN
    /\ stopped \in {"none", "agent_replied", "taken_over", "handoff"} /\ replied \in BOOLEAN
    /\ turns \subseteq Places /\ draft \in Places /\ owed \subseteq Places
    /\ triggers \subseteq Places /\ replies \subseteq Places
    /\ waiting \in [0..(MaxAttempts - 1) -> Nat] /\ incidents \in 0..MaxIncidents
    /\ run \in [Runs -> [step : {"idle", "think", "write"}, trigger : Places,
                         mode : {"auto", "drafts", "off"}, made : 0..(MaxAttempts - 1),
                         decision : {"none", "answer", "draft", "handoff"}]]

\* Nobody who wrote meanwhile is talked over, and nobody is answered twice: between a
\* customer's message and the assistant's answer or hand-off to it no person's message stands,
\* and there is one of them (ai-turn.job.ts:186), although the answer was thought up with no
\* lock held, by jobs that are retried, replaced and run side by side.
AnswersInPlace ==
    \A i \in Entries({"answer", "handoff"}) :
        /\ \A j \in Entries(Persons) : j <= history[i].of \/ j > i
        /\ \A j \in Entries({"answer", "handoff"}) : history[j].of = history[i].of => i = j

\* "A turn that is thinking meanwhile finds the stop or the new message in its write phase and
\* discards its answer" (ai-takeover.service.ts:26): after a take-over or a hand-off the
\* assistant says nothing until the ticket is handed back to it.  In Drafts mode a take-over
\* still lets it draft, and a draft may turn out a hand-off.
SilentWhenStopped ==
    \A i \in Entries({"answer"}), j \in Entries({"taken_over", "handoff"}) :
        j < i => \E k \in Entries({"handed_back"}) : j < k /\ k < i

\* A message a turn was queued for is answered, drafted for or handed off in the end, unless a
\* newer one, a stop, the mode or a pause came first, or the database failed the last attempt:
\* also if every call of the model fails
\* ("instead of the turn failing silently", ai-turn.job.ts:113).
OwedIsPaid == []<>(owed = {})

\* "The assistant answers from the next customer message, never the old ones"
\* (ai-takeover.service.ts:35).
AnswersFromTheNext ==
    \A i \in Entries({"answer"}), k \in Entries({"handed_back"}) : k < i => history[i].of > k
===============================================================================
