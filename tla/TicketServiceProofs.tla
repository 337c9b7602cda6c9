-------------------------- MODULE TicketServiceProofs --------------------------
(***************************************************************************)
(* Proofs about the services that act on a ticket by themselves: the AI    *)
(* assistant, the automation rules and the SLA timers.                     *)
(***************************************************************************)
EXTENDS TicketServices, TLAPS

-------------------------------------------------------------------------------
(* The AI assistant. *)

Modes   == {"auto", "drafts", "off"}
Entries == [what : {"customer", "staff", "taken_over", "handed_back", "handoff", "answer"},
            of : Nat]
Turns   == [step : {"idle", "think", "write"}, trigger : Nat, mode : Modes, made : Nat,
            decision : {"none", "answer", "draft", "handoff"}]

AiTypes ==
    /\ history \in Seq(Entries) /\ mode \in Modes
    /\ DOMAIN turnJobs \subseteq Nat
    /\ turn \in [AiRuns -> Turns]

Said  == Ai!Entries({"answer", "handoff"})
Stops == Ai!Entries({"taken_over", "handoff"})

\* A message that has been answered or handed off is one of a turn that is over.
AnsweredInv == \A i \in Said : history[i].of \in turns

\* The row of the ticket says that the assistant is stopped as long as its history does.
StoppedInv == stopped = "none" => \A j \in Stops : \E k \in Ai!Entries({"handed_back"}) : j < k

AiInv == AiTypes /\ AnsweredInv /\ StoppedInv /\ Ai!AnswersInPlace /\ Ai!SilentWhenStopped

LEMMA AiInvInit == ASSUME Ai!AiConstants, Ai!Init PROVE AiInv
<1> USE DEF Ai!AiConstants, Ai!Init
<1>1. AiTypes
  BY DEF AiTypes, Ai!NoRun, Turns, Modes
<1>2. \A kinds : Ai!Entries(kinds) = {}
  BY DEF Ai!Entries
<1> QED
  BY <1>1, <1>2
  DEF AiInv, AnsweredInv, StoppedInv, Said, Stops, Ai!AnswersInPlace, Ai!SilentWhenStopped

\* What an entry more is: the last one, after all the others.
LEMMA AddEntry ==
    ASSUME AiTypes, NEW e \in Entries, Ai!Add(e)
    PROVE  /\ history' \in Seq(Entries) /\ Len(history) \in Nat
           /\ history'[Len(history) + 1] = e
           /\ \A i \in DOMAIN history : history'[i] = history[i]
           /\ \A kinds : (Ai!Entries(kinds))' =
                 Ai!Entries(kinds) \cup (IF e.what \in kinds THEN {Len(history) + 1} ELSE {})
           /\ \A kinds : Ai!Entries(kinds) \subseteq 1..Len(history)
<1>1. history \in Seq(Entries) /\ history' = Append(history, e)
  BY DEF AiTypes, Ai!Add
<1>2. /\ history' \in Seq(Entries) /\ Len(history) \in Nat /\ DOMAIN history = 1..Len(history)
      /\ DOMAIN history' = 1..(Len(history) + 1)
      /\ history'[Len(history) + 1] = e /\ \A i \in DOMAIN history : history'[i] = history[i]
  BY <1>1
<1>3. DOMAIN history' = DOMAIN history \cup {Len(history) + 1}
  BY <1>2
<1> QED
  BY <1>2, <1>3 DEF Ai!Entries

\* A step that says nothing, and changes the state of the ticket only as the history allows.
LEMMA NothingSaid ==
    ASSUME AiInv, AiTypes', UNCHANGED history, turns' = turns,
           stopped' = "none" => stopped = "none"
    PROVE  AiInv'
<1>1. \A kinds : (Ai!Entries(kinds))' = Ai!Entries(kinds)
  BY DEF Ai!Entries
<1> QED
  BY <1>1 DEF AiInv, AnsweredInv, StoppedInv, Said, Stops, Ai!AnswersInPlace,
              Ai!SilentWhenStopped, Ai!Persons

\* An entry of a person: nothing that was said comes after it.
LEMMA PersonActs ==
    ASSUME AiInv, AiTypes', turns' = turns,
           NEW what \in {"customer", "staff", "taken_over", "handed_back"},
           Ai!Add(Ai!Entry(what)),
           stopped' = "none" => what = "handed_back" \/ (what # "taken_over" /\ stopped = "none")
    PROVE  AiInv'
<1> DEFINE e == Ai!Entry(what)
           last == Len(history) + 1
<1>1. e \in Entries /\ e.what = what
  BY DEF Entries, Ai!Entry
<1>2. /\ Len(history) \in Nat
      /\ \A i \in DOMAIN history : history'[i] = history[i]
      /\ \A kinds : (Ai!Entries(kinds))' =
            Ai!Entries(kinds) \cup (IF e.what \in kinds THEN {last} ELSE {})
      /\ \A kinds : Ai!Entries(kinds) \subseteq 1..Len(history)
  BY <1>1, AddEntry DEF AiInv
<1> HIDE DEF e
<1>3. Said' = Said /\ Ai!Entries({"answer"})' = Ai!Entries({"answer"})
  BY <1>1, <1>2 DEF Said
<1>4. \A i \in Said : i \in DOMAIN history /\ history'[i] = history[i] /\ i < last /\ i \in Nat
  BY <1>2 DEF Said, Ai!Entries
<1>5. AnsweredInv'
  BY <1>3, <1>4 DEF AiInv, AnsweredInv
<1>6. \A j \in Stops' : j \in Stops \/ (j = last /\ what = "taken_over")
  BY <1>1, <1>2 DEF Stops
<1>7. StoppedInv'
  <2>1. CASE what = "handed_back"
    <3>1. last \in Ai!Entries({"handed_back"})' /\ Stops' = Stops
      BY <1>1, <1>2, <2>1 DEF Stops
    <3>2. \A j \in Stops : j < last
      BY <1>2 DEF Stops
    <3> QED
      BY <3>1, <3>2 DEF StoppedInv
  <2>2. CASE what # "handed_back"
    BY <1>1, <1>2, <1>6, <2>2 DEF AiInv, StoppedInv
  <2> QED
    BY <2>1, <2>2
<1>8. Ai!AnswersInPlace'
  <2>1. \A j \in Ai!Entries(Ai!Persons)' : j \in Ai!Entries(Ai!Persons) \/ j = last
    BY <1>1, <1>2
  <2> QED
    BY <1>3, <1>4, <2>1 DEF AiInv, Ai!AnswersInPlace, Said
<1>9. Ai!SilentWhenStopped'
  <2>1. \A k \in Ai!Entries({"handed_back"}) : k \in Ai!Entries({"handed_back"})'
    BY <1>2
  <2>2. \A i \in Ai!Entries({"answer"}) : i < last
    BY <1>2
  <2>3. ASSUME NEW i \in Ai!Entries({"answer"})', NEW j \in Stops', j < i
        PROVE  \E k \in Ai!Entries({"handed_back"})' : j < k /\ k < i
    <3>1. i \in Ai!Entries({"answer"}) /\ i \in Nat /\ last \in Nat
      BY <1>2, <1>3
    <3>2. j \in Stops
      BY <1>6, <2>2, <2>3, <3>1
    <3> QED
      BY <2>1, <2>3, <3>1, <3>2 DEF AiInv, Ai!SilentWhenStopped, Stops
  <2> QED
    BY <2>3 DEF Ai!SilentWhenStopped, Stops
<1> QED
  BY <1>5, <1>7, <1>8, <1>9 DEF AiInv

\* An entry of the assistant: it answers the latest of what persons wrote, once, and not when
\* it is stopped.
LEMMA AssistantSpeaks ==
    ASSUME AiInv, AiTypes', NEW m \in Nat, NEW what \in {"handoff", "answer"},
           ~Ai!NewerPublic(m), m \notin turns, turns' = turns \cup {m},
           Ai!Add([what |-> what, of |-> m]),
           what = "answer" => stopped = "none" /\ stopped' = stopped,
           what = "handoff" => stopped' = "handoff"
    PROVE  AiInv'
<1> DEFINE e == [what |-> what, of |-> m]
           last == Len(history) + 1
<1>1. e \in Entries /\ e.what = what /\ e.of = m
  BY DEF Entries
<1>2. /\ Len(history) \in Nat
      /\ history'[last] = e
      /\ \A i \in DOMAIN history : history'[i] = history[i]
      /\ \A kinds : (Ai!Entries(kinds))' =
            Ai!Entries(kinds) \cup (IF e.what \in kinds THEN {last} ELSE {})
      /\ \A kinds : Ai!Entries(kinds) \subseteq 1..Len(history)
  BY <1>1, AddEntry DEF AiInv
<1> HIDE DEF e
<1>3. Said' = Said \cup {last}
  BY <1>1, <1>2 DEF Said
<1>4. \A i \in Said : /\ i \in DOMAIN history /\ history'[i] = history[i] /\ i < last /\ i \in Nat
                      /\ history[i].of \in turns
  BY <1>2 DEF Said, Ai!Entries, AiInv, AnsweredInv
<1>5. AnsweredInv'
  BY <1>1, <1>2, <1>3, <1>4 DEF AnsweredInv
<1>6. StoppedInv'
  <2>1. CASE what = "handoff"
    BY <2>1 DEF StoppedInv
  <2>2. CASE what = "answer"
    <3>1. Stops' = Stops
      BY <1>1, <1>2, <2>2 DEF Stops
    <3>2. Ai!Entries({"handed_back"})' = Ai!Entries({"handed_back"})
      BY <1>1, <1>2, <2>2
    <3> QED
      BY <2>2, <3>1, <3>2 DEF AiInv, StoppedInv
  <2> QED
    BY <2>1, <2>2
<1>7. Ai!AnswersInPlace'
  <2>1. Ai!Entries(Ai!Persons)' = Ai!Entries(Ai!Persons)
    BY <1>1, <1>2 DEF Ai!Persons
  <2>2. \A j \in Ai!Entries(Ai!Persons) : j <= m
    <3>1. \A j \in Ai!Entries(Ai!Persons) : j \in Nat /\ ~(j > m)
      BY <1>2 DEF Ai!NewerPublic
    <3> QED
      BY <3>1
  <2>3. ASSUME NEW i \in Said', NEW j \in Ai!Entries(Ai!Persons)'
        PROVE  j <= history'[i].of \/ j > i
    BY <1>1, <1>2, <1>3, <1>4, <2>1, <2>2, <2>3 DEF AiInv, Ai!AnswersInPlace, Said
  <2>4. ASSUME NEW i \in Said', NEW j \in Said', history'[i].of = history'[j].of PROVE i = j
    <3>1. CASE i = last
      BY <1>1, <1>2, <1>3, <1>4, <2>4, <3>1
    <3>2. CASE i # last
      BY <1>1, <1>2, <1>3, <1>4, <2>4, <3>2 DEF AiInv, Ai!AnswersInPlace, Said
    <3> QED
      BY <3>1, <3>2
  <2> QED
    BY <2>3, <2>4 DEF Ai!AnswersInPlace, Said
<1>8. Ai!SilentWhenStopped'
  <2>1. Ai!Entries({"handed_back"})' = Ai!Entries({"handed_back"})
    BY <1>1, <1>2
  <2>2. ASSUME NEW i \in Ai!Entries({"answer"})', NEW j \in Stops', j < i
        PROVE  \E k \in Ai!Entries({"handed_back"}) : j < k /\ k < i
    <3>1. i \in Nat /\ j \in Nat /\ i <= last /\ j <= last
      BY <1>2 DEF Stops
    <3>2. CASE i = last
      <4>1. what = "answer" /\ j \in Stops
        BY <1>1, <1>2, <2>2, <3>1, <3>2 DEF Stops
      <4>2. PICK k \in Ai!Entries({"handed_back"}) : j < k
        BY <4>1 DEF AiInv, StoppedInv
      <4> QED
        BY <1>2, <3>2, <4>2
    <3>3. CASE i # last
      <4>1. i \in Ai!Entries({"answer"}) /\ j \in Stops
        BY <1>1, <1>2, <2>2, <3>1, <3>3 DEF Stops
      <4> QED
        BY <2>2, <4>1 DEF AiInv, Ai!SilentWhenStopped, Stops
    <3> QED
      BY <3>2, <3>3
  <2> QED
    BY <2>1, <2>2 DEF Ai!SilentWhenStopped, Stops
<1> QED
  BY <1>5, <1>6, <1>7, <1>8 DEF AiInv

LEMMA AiTypesKept ==
    ASSUME Ai!AiConstants, AiTypes, [Ai!Next]_(Ai!vars) PROVE AiTypes'
<1> USE DEF AiTypes
<1>1. ASSUME NEW r \in AiRuns PROVE turn[r] \in Turns /\ Ai!NoRun \in Turns
  BY <1>1 DEF Ai!NoRun, Turns, Modes
<1>2. ASSUME NEW what \in {"customer", "staff", "taken_over", "handed_back"}, Ai!Add(Ai!Entry(what))
      PROVE  history' \in Seq(Entries)
  BY <1>2, AddEntry DEF Ai!Entry, Entries
<1>3. ASSUME NEW m \in Nat, NEW what \in {"handoff", "answer"}, Ai!Add([what |-> what, of |-> m])
      PROVE  history' \in Seq(Entries)
  BY <1>3, AddEntry DEF Entries
<1>4. CASE Ai!CustomerWrites \/ Ai!StaffReplies \/ Ai!TakeOver \/ Ai!HandBack
  <2>1. history' \in Seq(Entries)
    BY <1>2, <1>4 DEF Ai!CustomerWrites, Ai!StaffReplies, Ai!TakeOver, Ai!HandBack, Ai!ByPerson
  <2> QED
    BY <1>4, <2>1 DEF Ai!CustomerWrites, Ai!StaffReplies, Ai!TakeOver, Ai!HandBack, Ai!settings,
                      Ai!others, Ai!work
<1>5. CASE Ai!SetMode \/ Ai!Resume \/ Ai!DiscardDraft \/ Ai!StaffReplySeen
  BY <1>5 DEF Ai!SetMode, Ai!Resume, Ai!DiscardDraft, Ai!StaffReplySeen, Ai!settings, Ai!others,
              Ai!work, Modes
<1>6. CASE Ai!Trigger
  BY <1>6 DEF Ai!Trigger, Ai!settings
<1>7. ASSUME NEW r \in AiRuns, NEW n \in DOMAIN turnJobs, Ai!Read(r, n) PROVE AiTypes'
  <2>1. UNCHANGED <<history, mode>> /\ DOMAIN turnJobs' \subseteq Nat
    BY <1>7 DEF Ai!Read, Ai!rest, Ai!settings
  <2>2. ASSUME NEW m \in Ai!LatestCustomer,
               turn' = [turn EXCEPT ![r] = [step |-> "think", trigger |-> m, mode |-> mode,
                                          made |-> n, decision |-> "none"]]
        PROVE  turn' \in [AiRuns -> Turns]
    <3>1. m \in Nat
      BY DEF Ai!LatestCustomer, Ai!Entries
    <3> QED
      BY <2>2, <3>1 DEF Turns
  <2>3. turn' \in [AiRuns -> Turns]
    BY <1>7, <2>2 DEF Ai!Read
  <2> QED
    BY <2>1, <2>3
<1>8. ASSUME NEW r \in AiRuns, Ai!Think(r) PROVE AiTypes'
  <2>1. PICK d \in {"answer", "draft", "handoff"} :
            turn' = [turn EXCEPT ![r].step = "write", ![r].decision = d]
    BY <1>8 DEF Ai!Think
  <2>2. turn' = [turn EXCEPT ![r] = [turn[r] EXCEPT !.step = "write", !.decision = d]]
    BY <1>1, <2>1
  <2>3. [turn[r] EXCEPT !.step = "write", !.decision = d] \in Turns
    BY <1>1 DEF Turns
  <2> QED
    BY <1>8, <2>2, <2>3 DEF Ai!Think, Ai!rest, Ai!settings
<1>9. ASSUME NEW r \in AiRuns, Ai!ThinkFails(r) \/ Ai!ThinkPauses(r) \/ Ai!Fail(r) PROVE AiTypes'
  <2>1. turn' \in [AiRuns -> Turns]
    BY <1>1, <1>9 DEF Ai!ThinkFails, Ai!ThinkPauses, Ai!Fail, Ai!Settle
  <2> QED
    BY <1>9, <2>1 DEF Ai!ThinkFails, Ai!ThinkPauses, Ai!Fail, Ai!Retry, Ai!rest, Ai!settings
<1>10. ASSUME NEW r \in AiRuns, Ai!Write(r) PROVE AiTypes'
  <2>1. turn' \in [AiRuns -> Turns] /\ UNCHANGED <<turnJobs, mode>>
    BY <1>1, <1>10 DEF Ai!Write, Ai!Settle, Ai!rest, Ai!settings
  <2>2. turn[r].trigger \in Nat
    BY <1>1 DEF Turns
  <2>3. history' = history \/ \E what \in {"handoff", "answer"} :
                                  Ai!Add([what |-> what, of |-> turn[r].trigger])
    BY <1>10 DEF Ai!Write
  <2>4. history' \in Seq(Entries)
    BY <1>3, <2>2, <2>3
  <2> QED
    BY <2>1, <2>4
<1>11. CASE UNCHANGED Ai!vars
  BY <1>11 DEF Ai!vars, Ai!settings
<1> QED
  BY <1>4, <1>5, <1>6, <1>7, <1>8, <1>9, <1>10, <1>11 DEF Ai!Next, Ai!Thinking

LEMMA AiInvKept ==
    ASSUME Ai!AiConstants, AiInv, [Ai!Next]_(Ai!vars) PROVE AiInv'
<1>0. AiTypes /\ AiTypes'
  BY AiTypesKept DEF AiInv
<1>1. CASE Ai!CustomerWrites
  BY <1>0, <1>1, PersonActs DEF Ai!CustomerWrites, Ai!ByPerson, Ai!state, Ai!others, Ai!work
<1>2. CASE Ai!StaffReplies
  BY <1>0, <1>2, PersonActs DEF Ai!StaffReplies, Ai!ByPerson, Ai!state, Ai!others, Ai!work
<1>3. CASE Ai!TakeOver
  BY <1>0, <1>3, PersonActs DEF Ai!TakeOver, Ai!ByPerson, Ai!others, Ai!work
<1>4. CASE Ai!HandBack
  BY <1>0, <1>4, PersonActs DEF Ai!HandBack, Ai!ByPerson, Ai!others, Ai!work
<1>5. CASE Ai!SetMode \/ Ai!Resume \/ Ai!DiscardDraft \/ Ai!Trigger
  BY <1>0, <1>5, NothingSaid DEF Ai!SetMode, Ai!Resume, Ai!DiscardDraft, Ai!Trigger, Ai!state,
                                 Ai!work, Ai!others
<1>6. CASE Ai!StaffReplySeen
  BY <1>0, <1>6, NothingSaid DEF Ai!StaffReplySeen
<1>7. ASSUME NEW r \in AiRuns,
             Ai!Think(r) \/ Ai!ThinkFails(r) \/ Ai!ThinkPauses(r) \/ Ai!Fail(r)
             \/ \E n \in DOMAIN turnJobs : Ai!Read(r, n)
      PROVE  AiInv'
  <2>1. UNCHANGED <<history, turns, stopped>>
    BY <1>7 DEF Ai!Think, Ai!ThinkFails, Ai!ThinkPauses, Ai!Fail, Ai!Read, Ai!state
  <2> QED
    BY <1>0, <2>1, NothingSaid
<1>8. ASSUME NEW r \in AiRuns, Ai!Write(r) PROVE AiInv'
  <2> DEFINE m == turn[r].trigger
             d == turn[r].decision
  <2>0. m \in Nat
    BY <1>0 DEF AiTypes, Turns
  <2>1. CASE UNCHANGED <<history, turns, stopped>>
    BY <1>0, <2>1, NothingSaid
  <2>2. CASE /\ Ai!Still(m) /\ m \notin turns /\ turns' = turns \cup {m}
             /\ Ai!Add([what |-> "handoff", of |-> m]) /\ stopped' = "handoff"
    BY <1>0, <2>0, <2>2, AssistantSpeaks DEF Ai!Still
  <2>3. CASE turns' = turns \cup {m} /\ UNCHANGED <<history, stopped>>
    <3>1. \A kinds : (Ai!Entries(kinds))' = Ai!Entries(kinds)
      BY <2>3 DEF Ai!Entries
    <3> QED
      BY <1>0, <2>3, <3>1 DEF AiInv, AnsweredInv, StoppedInv, Said, Stops, Ai!AnswersInPlace,
                              Ai!SilentWhenStopped, Ai!Persons
  <2>4. CASE /\ Ai!Still(m) /\ m \notin turns /\ turns' = turns \cup {m} /\ mode = "auto"
             /\ Ai!Add([what |-> "answer", of |-> m]) /\ stopped' = stopped
    <3>1. stopped = "none" /\ ~Ai!NewerPublic(m)
      BY <2>4 DEF Ai!Still, Ai!Handling, Ai!Blocks, Ai!isStopped
    <3> QED
      BY <1>0, <2>0, <2>4, <3>1, AssistantSpeaks
  <2> QED
    BY <1>8, <2>1, <2>2, <2>3, <2>4 DEF Ai!Write, Ai!state
<1>9. CASE UNCHANGED Ai!vars
  BY <1>0, <1>9, NothingSaid DEF Ai!vars, Ai!state
<1> QED
  BY <1>1, <1>2, <1>3, <1>4, <1>5, <1>6, <1>7, <1>8, <1>9 DEF Ai!Next, Ai!Thinking

LEMMA AiInvariant == Ai!Spec => []AiInv
<1>1. Ai!Init => AiInv
  BY TicketAssumption, AiInvInit
<1>2. AiInv /\ [Ai!Next]_(Ai!vars) => AiInv'
  BY TicketAssumption, AiInvKept
<1> QED
  BY <1>1, <1>2, PTL DEF Ai!Spec

\* However many jobs think about a ticket, with whatever retries: nobody who wrote meanwhile is
\* talked over, and no message is answered twice (ai-turn.job.ts:186).
THEOREM NobodyIsTalkedOver == Ai!Spec => []AnswersInPlace
<1>1. AiInv => AnswersInPlace
  BY DEF AiInv, AnswersInPlace
<1> QED
  BY <1>1, AiInvariant, PTL

\* And after a take-over or a hand-off nothing is said before the ticket is handed back
\* (ai-takeover.service.ts:26).
THEOREM StoppedMeansSilent == Ai!Spec => []SilentWhenStopped
<1>1. AiInv => SilentWhenStopped
  BY DEF AiInv, SilentWhenStopped
<1> QED
  BY <1>1, AiInvariant, PTL

\* The rest of what a state of the assistant can be.
Customers == Ai!Entries({"customer"})
Reasons   == {"none", "agent_replied", "taken_over", "handoff"}

\* When people have filled the history, one entry more is an answer or hand-off to the latest
\* customer's message, and no other follows it.
LengthInv ==
    \/ Len(history) <= ChatEntries
    \/ Len(history) = ChatEntries + 1 /\ Len(history) \in Said

\* What is queued, owed, drafted or answered is a message of the customer.
PlacesInv ==
    /\ turns \subseteq Customers /\ owed \subseteq Customers /\ triggers \subseteq Customers
    /\ draft \in turns \cup {0} /\ staffReplies \subseteq DOMAIN history
    /\ \A i \in DOMAIN history : history[i].of \in turns \cup {0}
    /\ \A r \in AiRuns :
          turn[r] = Ai!NoRun \/ (turn[r].trigger \in Customers /\ turn[r].made < AiAttempts)

StateInv ==
    /\ paused \in BOOLEAN /\ replied \in BOOLEAN /\ stopped \in Reasons
    /\ turnJobs \in [0..(AiAttempts - 1) -> Nat] /\ incidents \in 0..AiIncidents

AiTypedInv == AiInv /\ LengthInv /\ PlacesInv /\ StateInv

LEMMA AiTypedInit == ASSUME Ai!AiConstants, Ai!Init PROVE AiTypedInv
<1> USE DEF Ai!AiConstants, Ai!Init
<1>1. AiInv
  BY AiInvInit
<1>2. LengthInv /\ PlacesInv
  BY DEF LengthInv, PlacesInv
<1>3. paused \in BOOLEAN /\ replied \in BOOLEAN
  OBVIOUS
<1>4. StateInv
  BY <1>3 DEF StateInv, Reasons
<1> QED
  BY <1>1, <1>2, <1>4 DEF AiTypedInv

\* A job is put back to the queue.
LEMMA OneMoreJob ==
    ASSUME StateInv, NEW n, turnJobs' = [turnJobs EXCEPT ![n] = turnJobs[n] + 1]
    PROVE  turnJobs' \in [0..(AiAttempts - 1) -> Nat]
<1>1. turnJobs \in [0..(AiAttempts - 1) -> Nat]
  BY DEF StateInv
<1>2. \A k \in 0..(AiAttempts - 1) : turnJobs'[k] \in Nat
  <2> TAKE k \in 0..(AiAttempts - 1)
  <2>1. turnJobs[k] \in Nat
    BY <1>1
  <2> QED
    BY <1>1, <2>1
<1> QED
  BY <1>1, <1>2

LEMMA StateKept ==
    ASSUME Ai!AiConstants, AiTypedInv, [Ai!Next]_(Ai!vars) PROVE StateInv'
<1>0. StateInv /\ AiTypes
  BY DEF AiTypedInv, AiInv
<1> USE DEF Ai!AiConstants, Ai!settings, Ai!state, Ai!others, Ai!work, Ai!rest, Ai!Incident
<1>1. CASE Ai!CustomerWrites \/ Ai!StaffReplies \/ Ai!TakeOver \/ Ai!HandBack \/ Ai!DiscardDraft
  <2>1. replied' = FALSE \/ replied' = replied
    BY <1>1 DEF Ai!CustomerWrites, Ai!StaffReplies, Ai!TakeOver, Ai!HandBack, Ai!DiscardDraft
  <2>2. UNCHANGED <<paused, turnJobs, incidents>> /\ stopped' \in Reasons
    BY <1>0, <1>1 DEF Ai!CustomerWrites, Ai!StaffReplies, Ai!TakeOver, Ai!HandBack,
                      Ai!DiscardDraft, StateInv, Reasons
  <2> QED
    BY <1>0, <2>1, <2>2 DEF StateInv
<1>2. CASE Ai!SetMode \/ Ai!Resume
  <2>1. paused' = FALSE \/ paused' = paused
    BY <1>2 DEF Ai!SetMode, Ai!Resume
  <2>2. UNCHANGED <<replied, stopped, turnJobs>> /\ incidents' \in 0..AiIncidents
    BY <1>0, <1>2 DEF Ai!SetMode, Ai!Resume, StateInv
  <2> QED
    BY <1>0, <2>1, <2>2 DEF StateInv
<1>3. CASE Ai!Trigger
  <2>1. turnJobs' \in [0..(AiAttempts - 1) -> Nat]
    BY <1>0, <1>3 DEF Ai!Trigger, StateInv
  <2> QED
    BY <1>0, <1>3, <2>1 DEF Ai!Trigger, StateInv
<1>4. CASE Ai!StaffReplySeen
  <2>1. stopped' \in Reasons /\ UNCHANGED <<paused, turnJobs, incidents>>
    BY <1>0, <1>4 DEF Ai!StaffReplySeen, StateInv, Reasons
  <2>2. replied' = TRUE
    BY <1>4 DEF Ai!StaffReplySeen
  <2> QED
    BY <1>0, <2>1, <2>2 DEF StateInv
<1>5. ASSUME NEW r \in AiRuns, NEW n \in DOMAIN turnJobs, Ai!Read(r, n) PROVE StateInv'
  <2>1. turnJobs[n] > 0 /\ turnJobs' = [turnJobs EXCEPT ![n] = turnJobs[n] - 1]
    BY <1>5 DEF Ai!Read
  <2>2. turnJobs \in [0..(AiAttempts - 1) -> Nat]
    BY <1>0 DEF StateInv
  <2>3. turnJobs[n] - 1 \in Nat
    BY <2>1, <2>2
  <2>4. turnJobs' \in [0..(AiAttempts - 1) -> Nat]
    BY <2>1, <2>2, <2>3
  <2>5. UNCHANGED <<paused, replied, stopped, incidents>>
    BY <1>5 DEF Ai!Read
  <2> QED
    BY <1>0, <2>4, <2>5 DEF StateInv
<1>6. ASSUME NEW r \in AiRuns, Ai!Think(r) PROVE StateInv'
  BY <1>0, <1>6 DEF Ai!Think, StateInv
<1>7. ASSUME NEW r \in AiRuns, Ai!ThinkFails(r) PROVE StateInv'
  <2> DEFINE n == turn[r].made + 1
  <2>1. turnJobs' = turnJobs \/ turnJobs' = [turnJobs EXCEPT ![n] = turnJobs[n] + 1]
    BY <1>7 DEF Ai!ThinkFails, Ai!Retry
  <2> HIDE DEF n
  <2>2. turnJobs' \in [0..(AiAttempts - 1) -> Nat]
    BY <1>0, <2>1, OneMoreJob DEF StateInv
  <2>3. UNCHANGED <<paused, replied, stopped, incidents>>
    BY <1>7 DEF Ai!ThinkFails
  <2> QED
    BY <1>0, <2>2, <2>3 DEF StateInv
<1>8. ASSUME NEW r \in AiRuns, Ai!ThinkPauses(r) PROVE StateInv'
  <2>1. paused' = TRUE
    BY <1>8 DEF Ai!ThinkPauses
  <2>2. UNCHANGED <<replied, stopped, turnJobs>> /\ incidents' \in 0..AiIncidents
    BY <1>0, <1>8 DEF Ai!ThinkPauses, StateInv
  <2> QED
    BY <1>0, <2>1, <2>2 DEF StateInv
<1>9. ASSUME NEW r \in AiRuns, Ai!Write(r) PROVE StateInv'
  <2>1. stopped' \in {stopped, "handoff"}
    BY <1>9 DEF Ai!Write
  <2>2. UNCHANGED <<paused, replied, turnJobs, incidents>>
    BY <1>9 DEF Ai!Write
  <2> QED
    BY <1>0, <2>1, <2>2 DEF StateInv, Reasons
<1>10. ASSUME NEW r \in AiRuns, Ai!Fail(r) PROVE StateInv'
  <2>1. \/ turnJobs' = turnJobs
        \/ \E n \in {turn[r].made, turn[r].made + 1} :
              turnJobs' = [turnJobs EXCEPT ![n] = turnJobs[n] + 1]
    BY <1>10 DEF Ai!Fail, Ai!Retry
  <2>2. turnJobs' \in [0..(AiAttempts - 1) -> Nat]
    BY <1>0, <2>1, OneMoreJob DEF StateInv
  <2>3. incidents' \in 0..AiIncidents
    BY <1>0, <1>10 DEF Ai!Fail, StateInv
  <2> QED
    BY <1>0, <1>10, <2>2, <2>3 DEF Ai!Fail, StateInv
<1>11. CASE UNCHANGED Ai!vars
  BY <1>0, <1>11 DEF Ai!vars, StateInv
<1> QED
  BY <1>1, <1>2, <1>3, <1>4, <1>5, <1>6, <1>7, <1>8, <1>9, <1>10, <1>11 DEF Ai!Next, Ai!Thinking

\* An entry more, or none: the customer's messages keep their places.
LEMMA HistoryGrows ==
    ASSUME AiTypes, [Ai!Next]_(Ai!vars)
    PROVE  /\ DOMAIN history \subseteq DOMAIN history' /\ Customers \subseteq Customers'
           /\ \A i \in DOMAIN history : history'[i] = history[i]
           /\ \A i \in DOMAIN history' \ DOMAIN history :
                 i = Len(history) + 1 /\ history' = Append(history, history'[i])
<1>1. ASSUME NEW e \in Entries, Ai!Add(e)
      PROVE  /\ DOMAIN history \subseteq DOMAIN history' /\ Customers \subseteq Customers'
             /\ \A i \in DOMAIN history : history'[i] = history[i]
             /\ \A i \in DOMAIN history' \ DOMAIN history :
                   i = Len(history) + 1 /\ history' = Append(history, history'[i])
  <2>1. DOMAIN history = 1..Len(history) /\ DOMAIN history' = 1..(Len(history) + 1)
        /\ Len(history) \in Nat
    BY <1>1 DEF AiTypes, Ai!Add
  <2>2. /\ history'[Len(history) + 1] = e /\ history' = Append(history, e)
        /\ \A i \in DOMAIN history : history'[i] = history[i]
        /\ Customers \subseteq Customers'
    BY <1>1, AddEntry DEF Customers, Ai!Add
  <2> QED
    BY <2>1, <2>2
<1>2. ASSUME NEW m \in Nat, NEW what \in {"handoff", "answer"}
      PROVE  [what |-> what, of |-> m] \in Entries
  BY DEF Entries
<1>3. ASSUME NEW what \in {"customer", "staff", "taken_over", "handed_back"}
      PROVE  Ai!Entry(what) \in Entries
  BY DEF Entries, Ai!Entry
<1>4. CASE history' = history
  BY <1>4 DEF Customers, Ai!Entries
<1>5. CASE Ai!CustomerWrites \/ Ai!StaffReplies \/ Ai!TakeOver \/ Ai!HandBack
  <2>1. \E e \in Entries : Ai!Add(e)
    BY <1>3, <1>5 DEF Ai!CustomerWrites, Ai!StaffReplies, Ai!TakeOver, Ai!HandBack, Ai!ByPerson
  <2> QED
    BY <1>1, <2>1
<1>6. ASSUME NEW r \in AiRuns, Ai!Write(r), history' # history PROVE \E e \in Entries : Ai!Add(e)
  <2>1. turn[r].trigger \in Nat
    BY DEF AiTypes, Turns
  <2>2. \E what \in {"handoff", "answer"} : Ai!Add([what |-> what, of |-> turn[r].trigger])
    BY <1>6 DEF Ai!Write
  <2> QED
    BY <1>2, <2>1, <2>2
<1>7. CASE Ai!SetMode \/ Ai!Resume \/ Ai!DiscardDraft \/ Ai!Trigger \/ Ai!StaffReplySeen
  BY <1>4, <1>7 DEF Ai!SetMode, Ai!Resume, Ai!DiscardDraft, Ai!Trigger, Ai!StaffReplySeen
<1>8. ASSUME NEW r \in AiRuns,
             Ai!Think(r) \/ Ai!ThinkFails(r) \/ Ai!ThinkPauses(r) \/ Ai!Fail(r)
             \/ \E n \in DOMAIN turnJobs : Ai!Read(r, n)
      PROVE  history' = history
  BY <1>8 DEF Ai!Think, Ai!ThinkFails, Ai!ThinkPauses, Ai!Fail, Ai!Read
<1>9. ASSUME UNCHANGED Ai!vars PROVE history' = history
  BY <1>9 DEF Ai!vars
<1> QED
  BY <1>1, <1>4, <1>5, <1>6, <1>7, <1>8, <1>9 DEF Ai!Next, Ai!Thinking

LEMMA PlacesKept ==
    ASSUME Ai!AiConstants, AiTypedInv, [Ai!Next]_(Ai!vars) PROVE PlacesInv'
<1>0. PlacesInv /\ AiTypes /\ StateInv
  BY DEF AiTypedInv, AiInv
<1>1. /\ DOMAIN history \subseteq DOMAIN history' /\ Customers \subseteq Customers'
      /\ \A i \in DOMAIN history : history'[i] = history[i]
      /\ \A i \in DOMAIN history' \ DOMAIN history :
            i = Len(history) + 1 /\ history' = Append(history, history'[i])
  BY <1>0, HistoryGrows
<1>2. history \in Seq(Entries) /\ Len(history) \in Nat /\ DOMAIN history = 1..Len(history)
  BY <1>0 DEF AiTypes
<1> USE DEF Ai!settings, Ai!state, Ai!others, Ai!work, Ai!rest, Ai!Incident
<1>3. ASSUME turns' = turns, draft' \in {draft, 0}, owed' \subseteq owed \cup triggers,
             triggers' \subseteq triggers, staffReplies' \subseteq staffReplies,
             history' = history \/ \E what : Ai!Add(Ai!Entry(what)),
             \A r \in AiRuns : turn'[r] \in {turn[r], Ai!NoRun}
      PROVE  PlacesInv'
  <2>1. \A i \in DOMAIN history' : history'[i].of \in turns' \cup {0}
    <3>1. CASE history' = history
      BY <1>0, <1>3, <3>1 DEF PlacesInv
    <3>2. ASSUME NEW what, Ai!Add(Ai!Entry(what))
          PROVE  \A i \in DOMAIN history' : history'[i].of = 0 \/ i \in DOMAIN history
      BY <1>2, <3>2 DEF Ai!Add, Ai!Entry
    <3> QED
      BY <1>0, <1>1, <1>3, <3>1, <3>2 DEF PlacesInv
  <2>2. \A r \in AiRuns : turn'[r] = Ai!NoRun
            \/ (turn'[r].trigger \in Customers' /\ turn'[r].made < AiAttempts)
    BY <1>0, <1>1, <1>3 DEF PlacesInv
  <2> QED
    BY <1>0, <1>1, <1>3, <2>1, <2>2 DEF PlacesInv
<1>4. CASE Ai!CustomerWrites \/ Ai!StaffReplies
  <2>1. PICK what \in {"customer", "staff"} :
           /\ Ai!Add(Ai!Entry(what))
           /\ triggers' \subseteq triggers \cup {Len(history) + 1}
           /\ what = "staff" => triggers' = triggers
           /\ staffReplies' \subseteq staffReplies \cup {Len(history) + 1}
    BY <1>4 DEF Ai!CustomerWrites, Ai!StaffReplies, Ai!ByPerson
  <2>2. UNCHANGED <<turns, draft, turn>> /\ owed' = {}
    BY <1>4 DEF Ai!CustomerWrites, Ai!StaffReplies
  <2>3. Ai!Entry(what) \in Entries /\ Ai!Entry(what).what = what /\ Ai!Entry(what).of = 0
    BY DEF Entries, Ai!Entry
  <2>4. what = "customer" => Len(history) + 1 \in Customers'
    BY <1>0, <2>1, <2>3, AddEntry DEF Customers
  <2>5. triggers' \subseteq Customers'
    BY <1>0, <1>1, <2>1, <2>4 DEF PlacesInv
  <2>6. staffReplies' \subseteq DOMAIN history'
    BY <1>0, <1>1, <1>2, <2>1 DEF PlacesInv, Ai!Add
  <2>7. \A i \in DOMAIN history' : history'[i].of \in turns' \cup {0}
    <3>1. \A i \in DOMAIN history' : history'[i].of = 0 \/ i \in DOMAIN history
      BY <1>2, <2>1, <2>3 DEF Ai!Add
    <3> QED
      BY <1>0, <1>1, <2>2, <3>1 DEF PlacesInv
  <2> QED
    BY <1>0, <1>1, <2>2, <2>5, <2>6, <2>7 DEF PlacesInv
<1>5. CASE Ai!TakeOver \/ Ai!HandBack
  BY <1>3, <1>5 DEF Ai!TakeOver, Ai!HandBack, Ai!ByPerson
<1>6. CASE Ai!SetMode \/ Ai!Resume \/ Ai!DiscardDraft \/ Ai!StaffReplySeen
  BY <1>3, <1>6 DEF Ai!SetMode, Ai!Resume, Ai!DiscardDraft, Ai!StaffReplySeen
<1>7. CASE Ai!Trigger
  BY <1>3, <1>7 DEF Ai!Trigger
<1>8. ASSUME NEW r \in AiRuns, Ai!ThinkFails(r) \/ Ai!ThinkPauses(r) \/ Ai!Fail(r)
      PROVE  PlacesInv'
  <2>1. \A s \in AiRuns : turn'[s] \in {turn[s], Ai!NoRun}
    BY <1>0, <1>8 DEF Ai!ThinkFails, Ai!ThinkPauses, Ai!Fail, Ai!Settle, AiTypes
  <2> QED
    BY <1>3, <1>8, <2>1 DEF Ai!ThinkFails, Ai!ThinkPauses, Ai!Fail
<1>9. ASSUME NEW r \in AiRuns, NEW n \in DOMAIN turnJobs, Ai!Read(r, n) PROVE PlacesInv'
  <2>1. UNCHANGED <<history, turns, draft, owed, triggers, staffReplies>>
    BY <1>9 DEF Ai!Read
  <2>2. CASE turn' = turn
    BY <1>3, <2>1, <2>2
  <2>3. ASSUME NEW m \in Ai!LatestCustomer,
               turn' = [turn EXCEPT ![r] = [step |-> "think", trigger |-> m, mode |-> mode,
                                            made |-> n, decision |-> "none"]]
        PROVE  PlacesInv'
    <3>1. m \in Customers
      BY DEF Ai!LatestCustomer, Customers
    <3>2. n < AiAttempts
      BY <1>0 DEF StateInv, Ai!AiConstants
    <3>3. /\ turn'[r].trigger = m /\ turn'[r].made = n
          /\ \A s \in AiRuns \ {r} : turn'[s] = turn[s]
      BY <1>0, <2>3 DEF AiTypes
    <3> QED
      BY <1>0, <1>1, <2>1, <3>1, <3>2, <3>3 DEF PlacesInv
  <2> QED
    BY <1>9, <2>2, <2>3 DEF Ai!Read
<1>10. ASSUME NEW r \in AiRuns, Ai!Think(r) PROVE PlacesInv'
  <2>1. UNCHANGED <<history, turns, draft, owed, triggers, staffReplies>> /\ turn[r].step = "think"
    BY <1>10 DEF Ai!Think
  <2>2. turn[r] # Ai!NoRun
    BY <2>1 DEF Ai!NoRun
  <2>3. /\ turn'[r].trigger = turn[r].trigger /\ turn'[r].made = turn[r].made
        /\ \A s \in AiRuns \ {r} : turn'[s] = turn[s]
    BY <1>0, <1>10 DEF Ai!Think, AiTypes, Turns
  <2> QED
    BY <1>0, <1>1, <2>1, <2>2, <2>3 DEF PlacesInv
<1>11. ASSUME NEW r \in AiRuns, Ai!Write(r) PROVE PlacesInv'
  <2> DEFINE m == turn[r].trigger
  <2>1. UNCHANGED <<triggers, staffReplies>> /\ turn[r].step = "write"
    BY <1>11 DEF Ai!Write
  <2>2. m \in Customers
    BY <1>0, <2>1 DEF PlacesInv, Ai!NoRun
  <2>3. \A s \in AiRuns : turn'[s] \in {turn[s], Ai!NoRun}
    BY <1>0, <1>11 DEF Ai!Write, Ai!Settle, AiTypes
  <2> HIDE DEF m
  <2>4. /\ turns' \in {turns, turns \cup {m}} /\ owed' \subseteq owed
        /\ draft' = draft \/ (draft' = m /\ m \in turns')
        /\ history' = history
           \/ (m \in turns' /\ \E what : Ai!Add([what |-> what, of |-> m]))
    BY <1>11 DEF Ai!Write, m
  <2>5. \A i \in DOMAIN history' : history'[i].of \in turns' \cup {0}
    <3>1. CASE history' = history
      BY <1>0, <2>4, <3>1 DEF PlacesInv
    <3>2. ASSUME NEW what, Ai!Add([what |-> what, of |-> m])
          PROVE  \A i \in DOMAIN history' : history'[i].of = m \/ i \in DOMAIN history
      BY <1>2, <3>2 DEF Ai!Add
    <3> QED
      BY <1>0, <1>1, <2>4, <3>1, <3>2 DEF PlacesInv
  <2>6. \A s \in AiRuns : turn'[s] = Ai!NoRun
            \/ (turn'[s].trigger \in Customers' /\ turn'[s].made < AiAttempts)
    BY <1>0, <1>1, <2>3 DEF PlacesInv
  <2> QED
    BY <1>0, <1>1, <2>1, <2>2, <2>4, <2>5, <2>6 DEF PlacesInv
<1>12. CASE UNCHANGED Ai!vars
  BY <1>3, <1>12 DEF Ai!vars
<1> QED
  BY <1>4, <1>5, <1>6, <1>7, <1>8, <1>9, <1>10, <1>11, <1>12 DEF Ai!Next, Ai!Thinking

\* Only the assistant adds to a history that people have filled, and it does so once: what it
\* would answer next is what it has answered.
LEMMA LengthKept ==
    ASSUME Ai!AiConstants, AiTypedInv, [Ai!Next]_(Ai!vars) PROVE LengthInv'
<1>0. PlacesInv /\ LengthInv /\ AiInv /\ AiTypes
  BY DEF AiTypedInv, AiInv
<1>1. history \in Seq(Entries) /\ Len(history) \in Nat /\ DOMAIN history = 1..Len(history)
  BY <1>0 DEF AiTypes
<1>2. CASE history' = history
  BY <1>0, <1>2 DEF LengthInv, Said, Ai!Entries
<1>3. CASE Ai!CustomerWrites \/ Ai!StaffReplies \/ Ai!TakeOver \/ Ai!HandBack
  <2>1. Len(history) < ChatEntries /\ Len(history') = Len(history) + 1
    BY <1>1, <1>3 DEF Ai!CustomerWrites, Ai!StaffReplies, Ai!TakeOver, Ai!HandBack, Ai!ByPerson,
                      Ai!Add
  <2> QED
    BY <1>1, <2>1 DEF LengthInv, Ai!AiConstants
<1>4. ASSUME NEW r \in AiRuns, Ai!Write(r), history' # history PROVE LengthInv'
  <2> DEFINE m == turn[r].trigger
             last == Len(history) + 1
  <2>1. /\ m \in Customers /\ m \in DOMAIN history
        /\ history[m].what = "customer"
    <3>1. turn[r].step = "write"
      BY <1>4 DEF Ai!Write
    <3> QED
      BY <1>0, <3>1 DEF PlacesInv, Ai!NoRun, Customers, Ai!Entries
  <2>2. /\ m \notin turns /\ ~Ai!NewerPublic(m)
        /\ \E what \in {"handoff", "answer"} : Ai!Add([what |-> what, of |-> m])
    BY <1>4 DEF Ai!Write, Ai!Still, Ai!state
  <2>3. PICK what \in {"handoff", "answer"} : Ai!Add([what |-> what, of |-> m])
    BY <2>2
  <2> HIDE DEF m
  <2>4. Len(history') = last /\ last \in Said'
    <3>1. [what |-> what, of |-> m] \in Entries
      BY <1>1, <2>1 DEF Entries
    <3> QED
      BY <1>0, <1>1, <2>3, <3>1, AddEntry DEF Said, Ai!Add
  <2>5. CASE Len(history) <= ChatEntries
    BY <1>1, <2>4, <2>5 DEF LengthInv, Ai!AiConstants
  <2>6. CASE Len(history) \in Said
    <3> DEFINE n == history[Len(history)].of
    <3>1. n \in turns /\ n \in Customers
      BY <1>0, <2>6 DEF AiInv, AnsweredInv, PlacesInv
    <3>2. Customers \subseteq Ai!Entries(Ai!Persons) /\ Customers \subseteq DOMAIN history
      BY DEF Customers, Ai!Entries, Ai!Persons
    <3>3. n <= m
      BY <1>1, <2>1, <2>2, <3>1, <3>2 DEF Ai!NewerPublic
    <3>4. m <= n
      BY <1>0, <1>1, <2>1, <2>6, <3>2 DEF AiInv, Ai!AnswersInPlace, Said
    <3>5. n = m
      BY <1>1, <2>1, <3>1, <3>2, <3>3, <3>4
    <3> QED
      BY <2>2, <3>1, <3>5
  <2> QED
    BY <1>0, <2>5, <2>6 DEF LengthInv
<1>5. CASE Ai!SetMode \/ Ai!Resume \/ Ai!DiscardDraft \/ Ai!Trigger \/ Ai!StaffReplySeen
  BY <1>2, <1>5 DEF Ai!SetMode, Ai!Resume, Ai!DiscardDraft, Ai!Trigger, Ai!StaffReplySeen
<1>6. ASSUME NEW r \in AiRuns,
             Ai!Think(r) \/ Ai!ThinkFails(r) \/ Ai!ThinkPauses(r) \/ Ai!Fail(r)
             \/ \E n \in DOMAIN turnJobs : Ai!Read(r, n)
      PROVE  history' = history
  BY <1>6 DEF Ai!Think, Ai!ThinkFails, Ai!ThinkPauses, Ai!Fail, Ai!Read
<1>7. ASSUME UNCHANGED Ai!vars PROVE history' = history
  BY <1>7 DEF Ai!vars
<1> QED
  BY <1>2, <1>3, <1>4, <1>5, <1>6, <1>7 DEF Ai!Next, Ai!Thinking

LEMMA AiTypedImplies == ASSUME Ai!AiConstants, AiTypedInv PROVE Ai!TypeOK
<1>0. PlacesInv /\ LengthInv /\ StateInv /\ AiTypes
  BY DEF AiTypedInv, AiInv
<1>1. history \in Seq(Entries) /\ Len(history) \in Nat /\ DOMAIN history = 1..Len(history)
  BY <1>0 DEF AiTypes
<1>2. Len(history) \in Ai!Places
  <2>1. CASE Len(history) <= ChatEntries
    BY <1>1, <2>1 DEF Ai!Places, Ai!AiConstants
  <2>2. CASE Len(history) = ChatEntries + 1 /\ Len(history) \in Said
    <3> DEFINE n == history[Len(history)].of
    <3>1. n \in Customers
      BY <1>0, <2>2 DEF AiTypedInv, AiInv, AnsweredInv, PlacesInv
    <3>2. n # Len(history)
      BY <2>2, <3>1 DEF Said, Customers, Ai!Entries
    <3>3. ChatEntries >= 1
      BY <1>1, <2>2, <3>1, <3>2 DEF Customers, Ai!Entries, Ai!AiConstants
    <3> QED
      BY <2>2, <3>3 DEF Ai!Places, Ai!AiConstants
  <2> QED
    BY <1>0, <2>1, <2>2 DEF LengthInv
<1>3. DOMAIN history \subseteq Ai!Places /\ 0 \in Ai!Places
  BY <1>1, <1>2 DEF Ai!Places, Ai!AiConstants
<1>4. Customers \subseteq Ai!Places
  BY <1>3 DEF Customers, Ai!Entries
<1> DEFINE Placed == [what : Ai!Persons \cup {"taken_over", "handed_back", "handoff", "answer"},
                      of : Ai!Places]
<1>5. history \in Seq(Placed)
  <2>1. ASSUME NEW i \in 1..Len(history) PROVE history[i] \in Placed
    <3>1. history[i] \in Entries /\ history[i].of \in Ai!Places
      BY <1>0, <1>1, <1>3, <1>4 DEF PlacesInv
    <3> HIDE DEF Ai!Places
    <3> QED
      BY <3>1 DEF Entries, Ai!Persons
  <2> HIDE DEF Placed
  <2> QED
    BY <1>1, <2>1
<1>6. turn \in [AiRuns -> [step : {"idle", "think", "write"}, trigger : Ai!Places,
                           mode : {"auto", "drafts", "off"}, made : 0..(AiAttempts - 1),
                           decision : {"none", "answer", "draft", "handoff"}]]
  <2>1. ASSUME NEW r \in AiRuns
        PROVE  turn[r] \in Turns /\ turn[r].trigger \in Ai!Places
               /\ turn[r].made \in 0..(AiAttempts - 1)
    <3>1. turn[r] \in Turns
      BY <1>0 DEF AiTypes
    <3>2. CASE turn[r] = Ai!NoRun
      BY <1>3, <3>1, <3>2 DEF Ai!NoRun, Ai!AiConstants
    <3>3. CASE turn[r].trigger \in Customers /\ turn[r].made < AiAttempts
      BY <1>4, <3>1, <3>3 DEF Turns, Ai!AiConstants
    <3> QED
      BY <1>0, <3>1, <3>2, <3>3 DEF PlacesInv
  <2> HIDE DEF Ai!Places
  <2> QED
    BY <1>0, <2>1 DEF AiTypes, Turns, Modes
<1>7. turns \subseteq Ai!Places /\ draft \in Ai!Places /\ owed \subseteq Ai!Places
      /\ triggers \subseteq Ai!Places /\ staffReplies \subseteq Ai!Places
  BY <1>0, <1>3, <1>4 DEF PlacesInv
<1>8. paused \in BOOLEAN /\ replied \in BOOLEAN
  BY <1>0 DEF StateInv
<1> QED
  BY <1>0, <1>2, <1>5, <1>6, <1>7, <1>8 DEF Ai!TypeOK, StateInv, Reasons, AiTypes, Modes

\* The assistant's state is of its types: in particular it adds at most one entry to what people
\* wrote to the bound, and whatever it queues, drafts or owes is a message that was written.
LEMMA AssistantTyped == Ai!Spec => []Ai!TypeOK
<1>1. Ai!Init => AiTypedInv
  BY TicketAssumption, AiTypedInit
<1>2. AiTypedInv /\ [Ai!Next]_(Ai!vars) => AiTypedInv'
  BY TicketAssumption, AiInvKept, StateKept, PlacesKept, LengthKept DEF AiTypedInv
<1>3. AiTypedInv => Ai!TypeOK
  BY TicketAssumption, AiTypedImplies
<1> QED
  BY <1>1, <1>2, <1>3, PTL DEF Ai!Spec

-------------------------------------------------------------------------------
(* The automation rules. *)

TriggerKeys == {"event", "since"} \X Nat
RuleJobs    == [rule : Rules, key : TriggerKeys, depth : 1..MaxDepth]
InSlot      == [step : {"idle", "check", "apply", "refused"}, job : RuleJobs \cup {Automation!Idle.job}]
Changed     == [by : Rules \cup {Nobody}, depth : 0..MaxDepth, cause : Nat]

AutoTypes ==
    /\ changed \in Seq(Changed) /\ autoReplies \in Seq(Rules \X TriggerKeys)
    /\ enabled \subseteq Rules /\ since \in Nat
    /\ runJobs \subseteq RuleJobs /\ pending \subseteq DOMAIN changed
    /\ \A s \in RuleSlots : ruleRun[s] = Automation!Idle \/ ruleRun[s].job \in RuleJobs
    /\ ruleRun \in [RuleSlots -> InSlot]

\* A job for an event is one link further than the event, which another rule or a person caused.
Follows(j) ==
    j.key[1] = "event" =>
        /\ j.key[2] \in DOMAIN changed
        /\ j.depth = changed[j.key[2]].depth + 1 /\ changed[j.key[2]].by # j.rule

RuleJobsInv ==
    /\ \A j \in runJobs : Follows(j)
    /\ \A s \in RuleSlots : ruleRun[s] = Automation!Idle \/ Follows(ruleRun[s].job)

\* What a rule caused is one link further than the event that triggered it.
DepthInv ==
    \A i \in DOMAIN changed :
        /\ changed[i].by # Nobody => changed[i].depth > 0
        /\ changed[i].cause \in 0..(i - 1)
        /\ changed[i].cause > 0 => /\ changed[i].depth = changed[changed[i].cause].depth + 1
                                  /\ changed[changed[i].cause].by # changed[i].by

AutoInv == AutoTypes /\ RuleJobsInv /\ DepthInv /\ Automation!RepliesOnce

LEMMA AutoInvInit == ASSUME Automation!AutomationConstants, Automation!Init PROVE AutoInv
<1> USE DEF Automation!AutomationConstants, Automation!Init
<1>1. AutoTypes
  BY DEF AutoTypes, Automation!Idle, InSlot
<1>2. RuleJobsInv /\ DepthInv /\ Automation!RepliesOnce
  BY DEF RuleJobsInv, DepthInv, Automation!RepliesOnce
<1> QED
  BY <1>1, <1>2 DEF AutoInv

\* An event more, of a person or of a run: the jobs there are follow what they followed.
LEMMA SetKeeps ==
    ASSUME Automation!AutomationConstants, AutoInv,
           NEW v, NEW by \in Rules \cup {Nobody}, NEW depth \in 0..MaxDepth, NEW cause \in Nat,
           Automation!Set(v, by, depth, cause),
           by # Nobody => depth > 0,
           cause > 0 => /\ cause \in DOMAIN changed /\ depth = changed[cause].depth + 1
                        /\ changed[cause].by # by
    PROVE  /\ changed' \in Seq(Changed) /\ pending' \subseteq DOMAIN changed' /\ DepthInv'
           /\ \A j : Follows(j) => Follows(j)'
<1> DEFINE e == [by |-> by, depth |-> depth, cause |-> cause]
<1>0. AutoTypes /\ DepthInv
  BY DEF AutoInv
<1>1. CASE UNCHANGED <<value, changed, pending>>
  BY <1>0, <1>1 DEF AutoTypes, DepthInv, Follows
<1>2. CASE changed' = Append(changed, e) /\ pending' = pending \cup {Len(changed) + 1}
  <2>0. e \in Changed /\ e.by = by /\ e.depth = depth /\ e.cause = cause
    BY DEF Changed
  <2> HIDE DEF e
  <2>1. /\ changed' \in Seq(Changed) /\ Len(changed) \in Nat
        /\ DOMAIN changed = 1..Len(changed) /\ DOMAIN changed' = 1..(Len(changed) + 1)
        /\ changed'[Len(changed) + 1] = e
        /\ \A i \in DOMAIN changed : changed'[i] = changed[i] /\ i \in DOMAIN changed'
    BY <1>0, <1>2, <2>0 DEF AutoTypes
  <2>2. pending' \subseteq DOMAIN changed'
    BY <1>0, <1>2, <2>1 DEF AutoTypes
  <2>3. \A j : Follows(j) => Follows(j)'
    BY <2>1 DEF Follows
  <2>4. ASSUME NEW i \in DOMAIN changed'
        PROVE  /\ changed'[i].by # Nobody => changed'[i].depth > 0
               /\ changed'[i].cause \in 0..(i - 1)
               /\ changed'[i].cause > 0 =>
                     /\ changed'[i].depth = changed'[changed'[i].cause].depth + 1
                     /\ changed'[changed'[i].cause].by # changed'[i].by
    <3>1. CASE i = Len(changed) + 1
      <4>1. changed'[i] = e /\ i \in Nat
        BY <2>1, <3>1
      <4>2. cause > 0 => changed'[cause] = changed[cause] /\ cause < i
        BY <2>1, <3>1
      <4>3. cause \in 0..(i - 1)
        BY <2>1, <3>1, <4>2
      <4> QED
        BY <2>0, <4>1, <4>2, <4>3
    <3>2. CASE i # Len(changed) + 1
      <4>1. i \in DOMAIN changed /\ changed'[i] = changed[i]
        BY <2>1, <3>2
      <4>2. changed[i].cause \in 0..(i - 1)
        BY <1>0, <4>1 DEF DepthInv
      <4>3. changed[i].cause > 0 => changed[i].cause \in DOMAIN changed
        BY <2>1, <4>1, <4>2
      <4>4. changed[i].cause > 0 => changed'[changed[i].cause] = changed[changed[i].cause]
        BY <2>1, <4>3
      <4> QED
        BY <1>0, <4>1, <4>2, <4>4 DEF DepthInv
    <3> QED
      BY <3>1, <3>2
  <2> QED
    BY <2>1, <2>2, <2>3, <2>4 DEF DepthInv
<1> QED
  BY <1>1, <1>2 DEF Automation!Set

\* Jobs that follow are added, and the slots stay as they are.
LEMMA AddKeeps ==
    ASSUME AutoInv, NEW J \in SUBSET RuleJobs, \A j \in J : Follows(j), Automation!Add(J),
           UNCHANGED <<changed, autoReplies, since, enabled, ruleRun>>, pending' \subseteq pending
    PROVE  AutoInv'
<1>1. runJobs' \subseteq runJobs \cup J
  BY DEF Automation!Add
<1>2. \A j : Follows(j)' <=> Follows(j)
  BY DEF Follows
<1>3. AutoTypes'
  BY <1>1 DEF AutoInv, AutoTypes
<1>4. RuleJobsInv'
  BY <1>1, <1>2 DEF AutoInv, RuleJobsInv
<1> QED
  BY <1>3, <1>4 DEF AutoInv, DepthInv, Automation!RepliesOnce

\* A slot goes on with its job, is free again, or takes a queued one; the ticket is left alone.
LEMMA SlotKeeps ==
    ASSUME AutoInv, NEW s \in RuleSlots,
           UNCHANGED <<changed, autoReplies, since, pending>>, enabled' \subseteq enabled,
           runJobs' \subseteq runJobs \cup {ruleRun[s].job},
           ruleRun[s] # Automation!Idle \/ runJobs' \subseteq runJobs,
           \/ ruleRun' = ruleRun
           \/ ruleRun' = [ruleRun EXCEPT ![s] = Automation!Idle]
           \/ \E next \in {"check", "apply", "refused"} :
                 ruleRun' = [ruleRun EXCEPT ![s].step = next] /\ ruleRun[s] # Automation!Idle
           \/ \E j \in runJobs : ruleRun' = [ruleRun EXCEPT ![s] = [step |-> "check", job |-> j]]
    PROVE  AutoInv'
<1>0. AutoTypes /\ RuleJobsInv
  BY DEF AutoInv
<1>1. \A j : Follows(j)' <=> Follows(j)
  BY DEF Follows
<1>2. /\ ruleRun' \in [RuleSlots -> InSlot]
      /\ \A t \in RuleSlots :
            ruleRun'[t] = Automation!Idle \/ (ruleRun'[t].job \in RuleJobs /\ Follows(ruleRun'[t].job))
  <2>0. /\ ruleRun \in [RuleSlots -> InSlot]
        /\ \A t \in RuleSlots :
              ruleRun[t] = Automation!Idle \/ (ruleRun[t].job \in RuleJobs /\ Follows(ruleRun[t].job))
    BY <1>0 DEF AutoTypes, RuleJobsInv
  <2>1. CASE ruleRun' = ruleRun
    BY <2>0, <2>1
  <2>2. CASE ruleRun' = [ruleRun EXCEPT ![s] = Automation!Idle]
    <3>1. Automation!Idle \in InSlot
      BY DEF Automation!Idle, InSlot
    <3> QED
      BY <2>0, <2>2, <3>1
  <2>3. ASSUME NEW next \in {"check", "apply", "refused"},
               ruleRun' = [ruleRun EXCEPT ![s].step = next], ruleRun[s] # Automation!Idle
        PROVE  <1>2!1 /\ <1>2!2
    <3>1. /\ ruleRun'[s].job = ruleRun[s].job /\ ruleRun'[s].step = next
          /\ \A t \in RuleSlots \ {s} : ruleRun'[t] = ruleRun[t]
          /\ ruleRun' \in [RuleSlots -> InSlot]
      BY <2>0, <2>3 DEF InSlot
    <3> QED
      BY <2>0, <2>3, <3>1
  <2>4. ASSUME NEW j \in runJobs, ruleRun' = [ruleRun EXCEPT ![s] = [step |-> "check", job |-> j]]
        PROVE  <1>2!1 /\ <1>2!2
    <3>1. j \in RuleJobs /\ Follows(j)
      BY <1>0 DEF AutoTypes, RuleJobsInv
    <3> QED
      BY <2>0, <2>4, <3>1 DEF InSlot
  <2> QED
    BY <2>1, <2>2, <2>3, <2>4
<1>3. AutoTypes'
  BY <1>0, <1>2 DEF AutoTypes
<1>4. RuleJobsInv'
  BY <1>0, <1>1, <1>2 DEF RuleJobsInv
<1> QED
  BY <1>3, <1>4 DEF AutoInv, DepthInv, Automation!RepliesOnce

\* The runs an event triggers are one link further than it.
LEMMA RunsAreJobs ==
    ASSUME Automation!AutomationConstants, AutoInv, NEW i \in pending
    PROVE  \A j \in Automation!RunsFor(i) : j \in RuleJobs /\ Follows(j)
<1>0. AutoTypes
  BY DEF AutoInv
<1>1. i \in DOMAIN changed /\ changed[i] \in Changed /\ i \in Nat
  BY <1>0 DEF AutoTypes
<1>2. ASSUME NEW j \in Automation!RunsFor(i) PROVE j \in RuleJobs /\ Follows(j)
  <2>1. PICK r \in Automation!Triggered(i) :
            j = [rule |-> r, key |-> <<"event", i>>, depth |-> changed[i].depth + 1]
    BY DEF Automation!RunsFor
  <2>2. r \in Rules /\ r # changed[i].by /\ ~(changed[i].depth >= MaxDepth)
    BY <1>0 DEF Automation!Triggered, AutoTypes
  <2>3. changed[i].depth + 1 \in 1..MaxDepth
    BY <1>1, <2>2 DEF Changed, Automation!AutomationConstants
  <2>4. j.key = <<"event", i>> /\ j.rule = r /\ j.depth = changed[i].depth + 1
    BY <2>1
  <2>5. j.key \in TriggerKeys /\ j.key[2] = i
    BY <1>1, <2>4 DEF TriggerKeys
  <2>6. j \in RuleJobs
    BY <2>1, <2>2, <2>3, <2>4, <2>5 DEF RuleJobs
  <2> QED
    BY <1>1, <2>2, <2>4, <2>5, <2>6 DEF Follows
<1> QED
  BY <1>2

\* A waiting period is known by the number of an event.
LEMMA PeriodIsNumber == ASSUME AutoTypes, NEW r PROVE Automation!Period(r) \in Nat
BY DEF AutoTypes, Automation!Period

LEMMA AutoInvKept ==
    ASSUME Automation!AutomationConstants, AutoInv, [Automation!Next]_(Automation!vars)
    PROVE  AutoInv'
<1>0. AutoTypes /\ RuleJobsInv /\ DepthInv /\ Automation!RepliesOnce
  BY DEF AutoInv
<1>1. CASE Automation!PersonChanges
  <2>1. PICK v \in Values : Automation!Set(v, Nobody, 0, 0)
    BY <1>1 DEF Automation!PersonChanges
  <2>2. /\ since' = Len(changed')
        /\ UNCHANGED <<enabled, autoReplies, runJobs, ruleRun>>
    BY <1>1 DEF Automation!PersonChanges, Automation!rules, Automation!jobs
  <2>3. /\ changed' \in Seq(Changed) /\ pending' \subseteq DOMAIN changed' /\ DepthInv'
        /\ \A j : Follows(j) => Follows(j)'
    <3>1. 0 \in 0..MaxDepth
      BY DEF Automation!AutomationConstants
    <3> QED
      BY <2>1, <3>1, SetKeeps
  <2>4. AutoTypes'
    BY <1>0, <2>2, <2>3 DEF AutoTypes
  <2> QED
    BY <1>0, <2>2, <2>3, <2>4 DEF AutoInv, RuleJobsInv, Automation!RepliesOnce
<1>2. CASE Automation!Disable
  <2>1. UNCHANGED <<changed, autoReplies, since, pending, runJobs, ruleRun>>
        /\ enabled' \subseteq enabled
    BY <1>2 DEF Automation!Disable, Automation!ticket, Automation!jobs
  <2> QED
    BY <1>0, <2>1 DEF AutoInv, AutoTypes, RuleJobsInv, DepthInv, Follows, Automation!RepliesOnce
<1>3. CASE Automation!Consume
  <2>1. PICK i \in pending : \E J \in SUBSET Automation!RunsFor(i) : Automation!Add(J)
    BY <1>3 DEF Automation!Consume
  <2>3. \A j \in Automation!RunsFor(i) : j \in RuleJobs /\ Follows(j)
    BY RunsAreJobs
  <2>4. PICK J \in SUBSET Automation!RunsFor(i) : Automation!Add(J)
    BY <2>1
  <2>5. J \in SUBSET RuleJobs /\ \A j \in J : Follows(j)
    BY <2>3
  <2>6. UNCHANGED <<changed, autoReplies, since, enabled, ruleRun>> /\ pending' \subseteq pending
    BY <1>3 DEF Automation!Consume, Automation!rules, Automation!ticket
  <2> QED
    BY <2>4, <2>5, <2>6, AddKeeps
<1>4. CASE Automation!Sweep
  <2>1. PICK r \in enabled :
            Automation!Add({[rule |-> r, key |-> <<"since", Automation!Period(r)>>, depth |-> 1]})
    BY <1>4 DEF Automation!Sweep
  <2> DEFINE j == [rule |-> r, key |-> <<"since", Automation!Period(r)>>, depth |-> 1]
  <2>2. r \in Rules /\ 1 \in 1..MaxDepth /\ <<"since", Automation!Period(r)>> \in TriggerKeys
    BY <1>0, <2>1, PeriodIsNumber DEF AutoTypes, TriggerKeys, Automation!AutomationConstants
  <2>3. j \in RuleJobs
    BY <2>2 DEF RuleJobs
  <2>4. Follows(j)
    BY DEF Follows
  <2>5. UNCHANGED <<changed, autoReplies, since, enabled, ruleRun, pending>>
    BY <1>4 DEF Automation!Sweep, Automation!rules, Automation!ticket
  <2> QED
    BY <2>1, <2>3, <2>4, <2>5, AddKeeps
<1>5. ASSUME NEW s \in RuleSlots, Automation!Take(s) PROVE AutoInv'
  <2>1. /\ UNCHANGED <<changed, autoReplies, since, pending, enabled>> /\ runJobs' \subseteq runJobs
        /\ \E j \in runJobs : ruleRun' = [ruleRun EXCEPT ![s] = [step |-> "check", job |-> j]]
    BY <1>5 DEF Automation!Take, Automation!rules, Automation!ticket
  <2> QED
    BY <2>1, SlotKeeps
<1>6. ASSUME NEW s \in RuleSlots,
             Automation!Check(s) \/ Automation!Refuse(s) \/ Automation!RecordRefusal(s)
      PROVE  AutoInv'
  <2>1. /\ UNCHANGED <<changed, autoReplies, since, pending, enabled, runJobs>>
        /\ \/ ruleRun' = [ruleRun EXCEPT ![s] = Automation!Idle]
           \/ \E next \in {"check", "apply", "refused"} :
                 ruleRun' = [ruleRun EXCEPT ![s].step = next]
    BY <1>6 DEF Automation!Check, Automation!Refuse, Automation!RecordRefusal, Automation!rules,
                Automation!ticket, Automation!jobs, Automation!GoTo, Automation!Settle
  <2>2. ruleRun[s] # Automation!Idle
    BY <1>6 DEF Automation!Check, Automation!Refuse, Automation!RecordRefusal, Automation!Idle
  <2> QED
    BY <2>1, <2>2, SlotKeeps
<1>7. ASSUME NEW s \in RuleSlots, Automation!Retry(s) PROVE AutoInv'
  <2>1. /\ UNCHANGED <<changed, autoReplies, since, pending, enabled>>
        /\ runJobs' \subseteq runJobs \cup {ruleRun[s].job} /\ ruleRun[s] # Automation!Idle
        /\ ruleRun' = ruleRun \/ ruleRun' = [ruleRun EXCEPT ![s] = Automation!Idle]
    BY <1>7 DEF Automation!Retry, Automation!rules, Automation!ticket, Automation!Settle
  <2> QED
    BY <2>1, SlotKeeps
<1>8. ASSUME NEW s \in RuleSlots, Automation!Apply(s) PROVE AutoInv'
  <2> DEFINE j == ruleRun[s].job
  <2>1. UNCHANGED <<enabled, since, runJobs>> /\ ruleRun' = [ruleRun EXCEPT ![s] = Automation!Idle]
        /\ ruleRun[s] # Automation!Idle
    BY <1>8 DEF Automation!Apply, Automation!rules, Automation!jobs, Automation!Settle,
                Automation!Idle
  <2>2. j \in RuleJobs /\ Follows(j)
    BY <1>0, <2>1 DEF AutoTypes, RuleJobsInv
  <2>3. CASE ~Automation!Due(j) /\ UNCHANGED <<value, changed, pending, autoReplies, recorded>>
    BY <2>1, <2>3, SlotKeeps
  <2>4. CASE /\ Automation!Set(rule[j.rule].set, j.rule, j.depth,
                               IF j.key[1] = "event" THEN j.key[2] ELSE 0)
             /\ autoReplies' = IF Automation!Unreplied(j) THEN Append(autoReplies, Automation!Id(j))
                           ELSE autoReplies
    <3> DEFINE cause == IF j.key[1] = "event" THEN j.key[2] ELSE 0
    <3>1. j.rule \in Rules /\ j.depth \in 0..MaxDepth /\ j.depth > 0 /\ j.key \in TriggerKeys
      BY <2>2 DEF RuleJobs
    <3>2. cause \in Nat
      BY <3>1 DEF TriggerKeys
    <3>3. cause > 0 => /\ cause \in DOMAIN changed /\ j.depth = changed[cause].depth + 1
                       /\ changed[cause].by # j.rule
      BY <2>2 DEF Follows
    <3>4. /\ changed' \in Seq(Changed) /\ pending' \subseteq DOMAIN changed' /\ DepthInv'
          /\ \A k : Follows(k) => Follows(k)'
      BY <2>4, <3>1, <3>2, <3>3, SetKeeps
    <3>5. Automation!Id(j) \in Rules \X TriggerKeys
      BY <3>1 DEF Automation!Id
    <3>6. autoReplies' \in Seq(Rules \X TriggerKeys) /\ Automation!RepliesOnce'
      <4>1. CASE ~Automation!Unreplied(j)
        BY <1>0, <2>4, <4>1 DEF AutoTypes, Automation!RepliesOnce
      <4>2. CASE Automation!Unreplied(j)
        <5>1. autoReplies \in Seq(Rules \X TriggerKeys)
              /\ autoReplies' = Append(autoReplies, Automation!Id(j))
          BY <1>0, <2>4, <4>2 DEF AutoTypes
        <5>2. /\ autoReplies' \in Seq(Rules \X TriggerKeys) /\ Len(autoReplies) \in Nat
              /\ DOMAIN autoReplies = 1..Len(autoReplies)
              /\ DOMAIN autoReplies' = 1..(Len(autoReplies) + 1)
              /\ autoReplies'[Len(autoReplies) + 1] = Automation!Id(j)
              /\ \A i \in DOMAIN autoReplies : autoReplies'[i] = autoReplies[i]
          BY <3>5, <5>1
        <5>3. \A i \in DOMAIN autoReplies : autoReplies'[i] # Automation!Id(j)
          BY <4>2, <5>2 DEF Automation!Unreplied
        <5> QED
          BY <1>0, <5>2, <5>3 DEF Automation!RepliesOnce
      <4> QED
        BY <4>1, <4>2
    <3>7. /\ ruleRun' \in [RuleSlots -> InSlot]
          /\ \A t \in RuleSlots : ruleRun'[t] = Automation!Idle \/ ruleRun'[t] = ruleRun[t]
      BY <1>0, <2>1 DEF AutoTypes, InSlot, Automation!Idle
    <3>8. AutoTypes'
      BY <1>0, <2>1, <3>4, <3>6, <3>7 DEF AutoTypes
    <3>9. RuleJobsInv'
      BY <1>0, <2>1, <3>4, <3>7 DEF RuleJobsInv
    <3> QED
      BY <3>4, <3>6, <3>8, <3>9 DEF AutoInv
  <2> QED
    BY <1>8, <2>3, <2>4 DEF Automation!Apply, Automation!Link
<1>9. CASE UNCHANGED Automation!vars
  BY <1>0, <1>9 DEF Automation!vars, Automation!rules, Automation!ticket, Automation!jobs, AutoInv,
                    AutoTypes, RuleJobsInv, DepthInv, Follows, Automation!RepliesOnce
<1> QED
  BY <1>1, <1>2, <1>3, <1>4, <1>5, <1>6, <1>7, <1>8, <1>9 DEF Automation!Next, Automation!Running

LEMMA AutoInvariant == Automation!Spec => []AutoInv
<1>1. Automation!Init => AutoInv
  BY TicketAssumption, AutoInvInit
<1>2. AutoInv /\ [Automation!Next]_(Automation!vars) => AutoInv'
  BY TicketAssumption, AutoInvKept
<1> QED
  BY <1>1, <1>2, PTL DEF Automation!Spec

\* However runs are retried, stalled and overlap: a rule answers the customer once for a trigger
\* (automation-run.job.ts:84).
THEOREM OneReplyForATrigger == Automation!Spec => []RepliesOnce
<1>1. AutoInv => RepliesOnce
  BY DEF AutoInv, RepliesOnce
<1> QED
  BY <1>1, AutoInvariant, PTL

\* Whatever the rules are, and however many: what they cause ends after MaxDepth links, and
\* none runs on an event of its own (automation.consumer.ts:21).  The depth that the code
\* keeps with each event is the numbering.
THEOREM RuleChainsEnd == Automation!Spec => []ChainsEnd
<1>1. AutoInv => ChainsEnd
  <2> SUFFICES ASSUME AutoInv PROVE Automation!ChainsEnd
    BY DEF ChainsEnd
  <2> DEFINE links == [i \in DOMAIN changed |-> changed[i].depth]
  <2>0. AutoTypes /\ DepthInv
    BY DEF AutoInv
  <2>1. \A k \in DOMAIN changed : changed[k] \in Changed
    BY <2>0 DEF AutoTypes
  <2>2. \A k \in DOMAIN changed : changed[k].depth \in 0..MaxDepth
    BY <2>1 DEF Changed
  <2>3. links \in [DOMAIN changed -> 0..MaxDepth]
    BY <2>2
  <2>4. ASSUME NEW i \in DOMAIN changed
        PROVE  /\ changed[i].by # Nobody =>
                      links[i] > (IF changed[i].cause = 0 THEN 0 ELSE links[changed[i].cause])
               /\ changed[i].cause > 0 => changed[changed[i].cause].by # changed[i].by
    <3>1. i \in Nat /\ DOMAIN changed = 1..Len(changed) /\ Len(changed) \in Nat
      BY <2>0 DEF AutoTypes
    <3>2. changed[i].cause \in 0..(i - 1)
      BY <2>0 DEF DepthInv
    <3>3. changed[i].cause # 0 => changed[i].cause > 0 /\ changed[i].cause \in DOMAIN changed
      BY <3>1, <3>2
    <3>4. \A k \in DOMAIN changed : changed[k].depth \in 0..MaxDepth /\ links[k] = changed[k].depth
      BY <2>2
    <3>5. CASE changed[i].cause = 0
      BY <2>0, <3>4, <3>5 DEF DepthInv
    <3>6. CASE changed[i].cause # 0
      <4>1. changed[i].depth = changed[changed[i].cause].depth + 1
            /\ changed[changed[i].cause].by # changed[i].by
        BY <2>0, <3>3, <3>6 DEF DepthInv
      <4> QED
        BY <3>3, <3>4, <3>6, <4>1
    <3> QED
      BY <3>5, <3>6
  <2> HIDE DEF links
  <2> QED
    BY <2>3, <2>4 DEF Automation!ChainsEnd
<1> QED
  BY <1>1, AutoInvariant, PTL

\* Every job, record and reply is of a run whose id BullMQ was given.
Known(j) == Automation!Id(j) \in knownRuns

KnownInv ==
    /\ knownRuns \subseteq Rules \X TriggerKeys /\ recorded \subseteq knownRuns
    /\ \A j \in runJobs : Known(j)
    /\ \A s \in RuleSlots : ruleRun[s] = Automation!Idle \/ Known(ruleRun[s].job)
    /\ \A i \in DOMAIN autoReplies : autoReplies[i] \in knownRuns

TicketInv ==
    /\ rule \in Rulebooks /\ value \in Values /\ since <= Len(changed)
    /\ autoFaults \in 0..RuleFaults

AutoTypedInv == AutoInv /\ KnownInv /\ TicketInv

LEMMA AutoTypedInit == ASSUME Automation!AutomationConstants, Automation!Init PROVE AutoTypedInv
<1> USE DEF Automation!AutomationConstants, Automation!Init
<1>1. AutoInv
  BY AutoInvInit
<1>2. KnownInv /\ TicketInv
  BY DEF KnownInv, TicketInv
<1> QED
  BY <1>1, <1>2 DEF AutoTypedInv

\* Jobs that are added have their ids known.
LEMMA AddKnown ==
    ASSUME KnownInv, NEW J \in SUBSET RuleJobs, Automation!Add(J),
           UNCHANGED <<recorded, ruleRun, autoReplies>>
    PROVE  KnownInv'
<1>1. /\ knownRuns' = knownRuns \cup {Automation!Id(j) : j \in J}
      /\ runJobs' \subseteq runJobs \cup J
  BY DEF Automation!Add
<1>2. \A j \in J : Automation!Id(j) \in Rules \X TriggerKeys
  BY DEF RuleJobs, Automation!Id
<1> QED
  BY <1>1, <1>2 DEF KnownInv, Known

\* A slot's step adds nothing but what is of its own job.
LEMMA SlotKnown ==
    ASSUME KnownInv, NEW s \in RuleSlots, knownRuns' = knownRuns,
           \A j \in runJobs' \ runJobs : Known(j),
           \A k \in recorded' \ recorded : k \in knownRuns,
           \A i \in DOMAIN autoReplies' : autoReplies'[i] \in knownRuns,
           \A t \in RuleSlots : \/ ruleRun'[t] \in {ruleRun[t], Automation!Idle}
                                \/ Known(ruleRun'[t].job)
    PROVE  KnownInv'
BY DEF KnownInv, Known

LEMMA KnownKept ==
    ASSUME Automation!AutomationConstants, AutoTypedInv, [Automation!Next]_(Automation!vars)
    PROVE  KnownInv'
<1>0. AutoInv /\ AutoTypes /\ KnownInv
  BY DEF AutoTypedInv, AutoInv
<1>1. CASE Automation!PersonChanges \/ Automation!Disable
  <2>1. UNCHANGED <<knownRuns, recorded, runJobs, ruleRun, autoReplies>>
    BY <1>1 DEF Automation!PersonChanges, Automation!Disable, Automation!ticket, Automation!jobs
  <2> QED
    BY <1>0, <2>1 DEF KnownInv, Known
<1>2. CASE Automation!Consume
  <2>1. PICK i \in pending : \E J \in SUBSET Automation!RunsFor(i) : Automation!Add(J)
    BY <1>2 DEF Automation!Consume
  <2>2. UNCHANGED <<recorded, ruleRun, autoReplies>>
    BY <1>2 DEF Automation!Consume, Automation!ticket
  <2>3. \A j \in Automation!RunsFor(i) : j \in RuleJobs
    BY <1>0, <2>1, RunsAreJobs
  <2> QED
    BY <1>0, <2>1, <2>2, <2>3, AddKnown
<1>3. CASE Automation!Sweep
  <2>1. PICK r \in enabled :
            Automation!Add({[rule |-> r, key |-> <<"since", Automation!Period(r)>>, depth |-> 1]})
    BY <1>3 DEF Automation!Sweep
  <2> DEFINE j == [rule |-> r, key |-> <<"since", Automation!Period(r)>>, depth |-> 1]
  <2>2. j \in RuleJobs
    BY <1>0, PeriodIsNumber DEF AutoTypes, RuleJobs, TriggerKeys, Automation!AutomationConstants
  <2>3. UNCHANGED <<recorded, ruleRun, autoReplies>>
    BY <1>3 DEF Automation!Sweep, Automation!ticket
  <2> HIDE DEF j
  <2>4. Automation!Add({j}) /\ {j} \in SUBSET RuleJobs
    BY <2>1, <2>2 DEF j
  <2> QED
    BY <1>0, <2>3, <2>4, AddKnown
<1>4. ASSUME NEW s \in RuleSlots, Automation!Running(s) \/ Automation!Refuse(s) \/ Automation!Retry(s)
      PROVE  KnownInv'
  <2> DEFINE j == ruleRun[s].job
  <2>1. ruleRun[s] # Automation!Idle => Known(j)
    BY <1>0 DEF KnownInv
  <2>2. knownRuns' = knownRuns
    BY <1>4 DEF Automation!Running, Automation!Take, Automation!Check, Automation!Apply,
                Automation!RecordRefusal, Automation!Refuse, Automation!Retry, Automation!jobs
  <2>3. CASE Automation!Take(s)
    <3>1. PICK k \in runJobs : runJobs' = runJobs \ {k} /\
                               ruleRun' = [ruleRun EXCEPT ![s] = [step |-> "check", job |-> k]]
      BY <2>3 DEF Automation!Take
    <3>2. Known(k) /\ \A t \in RuleSlots : ruleRun'[t] = ruleRun[t] \/ ruleRun'[t].job = k
      BY <1>0, <3>1 DEF KnownInv, AutoTypes
    <3>3. UNCHANGED <<recorded, autoReplies>>
      BY <2>3 DEF Automation!Take, Automation!ticket
    <3> QED
      BY <1>0, <2>2, <3>1, <3>2, <3>3, SlotKnown DEF KnownInv
  <2>4. CASE Automation!Check(s) \/ Automation!Refuse(s) \/ Automation!Retry(s)
    <3>1. ruleRun[s] # Automation!Idle
      BY <2>4 DEF Automation!Check, Automation!Refuse, Automation!Retry, Automation!Idle
    <3>2. /\ runJobs' \subseteq runJobs \cup {j} /\ UNCHANGED <<recorded, autoReplies>>
          /\ \/ ruleRun' = ruleRun \/ ruleRun' = [ruleRun EXCEPT ![s] = Automation!Idle]
             \/ \E next : ruleRun' = [ruleRun EXCEPT ![s].step = next]
      BY <2>4 DEF Automation!Check, Automation!Refuse, Automation!Retry, Automation!ticket,
                  Automation!jobs, Automation!GoTo, Automation!Settle
    <3>3. \A t \in RuleSlots : ruleRun'[t] \in {ruleRun[t], Automation!Idle}
                               \/ (t = s /\ ruleRun'[t].job = j)
      BY <1>0, <3>2 DEF AutoTypes, InSlot
    <3> QED
      BY <1>0, <2>1, <2>2, <3>1, <3>2, <3>3, SlotKnown DEF KnownInv
  <2>5. CASE Automation!Apply(s) \/ Automation!RecordRefusal(s)
    <3>1. ruleRun[s] # Automation!Idle
      BY <2>5 DEF Automation!Apply, Automation!RecordRefusal, Automation!Idle
    <3>2. /\ runJobs' = runJobs /\ recorded' \subseteq recorded \cup {Automation!Id(j)}
          /\ autoReplies' \in {autoReplies, Append(autoReplies, Automation!Id(j))}
          /\ ruleRun' = [ruleRun EXCEPT ![s] = Automation!Idle]
      BY <2>5 DEF Automation!Apply, Automation!RecordRefusal, Automation!ticket, Automation!jobs,
                  Automation!Settle
    <3>3. \A t \in RuleSlots : ruleRun'[t] \in {ruleRun[t], Automation!Idle}
      BY <1>0, <3>2 DEF AutoTypes
    <3>4. \A i \in DOMAIN autoReplies' : autoReplies'[i] \in knownRuns
      <4>1. Automation!Id(j) \in knownRuns
        BY <2>1, <3>1 DEF Known
      <4> HIDE DEF j
      <4>2. autoReplies \in Seq(Rules \X TriggerKeys)
        BY <1>0 DEF AutoTypes
      <4>3. \A i \in DOMAIN autoReplies' :
                (i \in DOMAIN autoReplies /\ autoReplies'[i] = autoReplies[i])
                \/ autoReplies'[i] = Automation!Id(j)
        BY <3>2, <4>2
      <4> QED
        BY <1>0, <4>1, <4>3 DEF KnownInv
    <3> QED
      BY <1>0, <2>1, <2>2, <3>1, <3>2, <3>3, <3>4, SlotKnown DEF Known
  <2> QED
    BY <1>4, <2>3, <2>4, <2>5 DEF Automation!Running
<1>5. CASE UNCHANGED Automation!vars
  BY <1>0, <1>5 DEF Automation!vars, Automation!jobs, Automation!ticket, KnownInv, Known
<1> QED
  BY <1>1, <1>2, <1>3, <1>4, <1>5 DEF Automation!Next

LEMMA TicketKept ==
    ASSUME Automation!AutomationConstants, AutoTypedInv, [Automation!Next]_(Automation!vars)
    PROVE  TicketInv'
<1>0. AutoTypes /\ TicketInv
  BY DEF AutoTypedInv, AutoInv
<1>1. changed \in Seq(Changed) /\ Len(changed) \in Nat /\ since \in Nat
  BY <1>0 DEF AutoTypes
<1> USE DEF Automation!rules, Automation!ticket, Automation!jobs
<1>2. ASSUME NEW v \in Values, NEW by, NEW depth, NEW cause, Automation!Set(v, by, depth, cause)
      PROVE  value' \in Values /\ Len(changed') \in Nat /\ Len(changed) <= Len(changed')
  BY <1>0, <1>1, <1>2 DEF Automation!Set, TicketInv
<1>3. ASSUME UNCHANGED <<rule, value, changed, since>>, UNCHANGED autoFaults \/ Automation!Fault
      PROVE  TicketInv'
  <2>1. autoFaults' \in 0..RuleFaults
    BY <1>0, <1>3 DEF Automation!Fault, Automation!AutomationConstants, TicketInv
  <2> QED
    BY <1>0, <1>3, <2>1 DEF TicketInv
<1>4. CASE Automation!PersonChanges
  <2>1. /\ value' \in Values /\ Len(changed') \in Nat /\ since' = Len(changed')
        /\ UNCHANGED <<rule, autoFaults>>
    BY <1>2, <1>4 DEF Automation!PersonChanges
  <2> QED
    BY <1>0, <2>1 DEF TicketInv
<1>5. CASE Automation!Disable \/ Automation!Consume
  <2>1. UNCHANGED <<rule, value, changed, since>>
    BY <1>5 DEF Automation!Disable, Automation!Consume
  <2>2. UNCHANGED autoFaults \/ Automation!Fault
    BY <1>5 DEF Automation!Disable, Automation!Consume
  <2> QED
    BY <1>0, <1>3, <2>1, <2>2
<1>6. CASE Automation!Sweep
  BY <1>0, <1>6 DEF Automation!Sweep, TicketInv
<1>7. ASSUME NEW s \in RuleSlots, Automation!Apply(s) PROVE TicketInv'
  <2>1. CASE UNCHANGED <<value, changed>>
    BY <1>0, <1>7, <2>1 DEF Automation!Apply, TicketInv
  <2>2. ASSUME Automation!Due(ruleRun[s].job) PROVE rule[ruleRun[s].job.rule].set \in Values
    <3>1. ruleRun[s] # Automation!Idle
      BY <1>7 DEF Automation!Apply, Automation!Idle
    <3>2. ruleRun[s].job.rule \in Rules
      BY <1>0, <3>1 DEF AutoTypes, RuleJobs
    <3> QED
      BY <1>0, <3>2 DEF TicketInv, Automation!AutomationConstants
  <2>3. CASE Automation!Due(ruleRun[s].job)
    <3>1. \E depth, cause : Automation!Set(rule[ruleRun[s].job.rule].set, ruleRun[s].job.rule,
                                           depth, cause)
          \/ UNCHANGED <<value, changed>>
      BY <1>7 DEF Automation!Apply
    <3>2. value' \in Values /\ Len(changed') \in Nat /\ Len(changed) <= Len(changed')
      BY <1>0, <1>1, <1>2, <2>2, <2>3, <3>1 DEF TicketInv
    <3>3. UNCHANGED <<rule, since, autoFaults>>
      BY <1>7 DEF Automation!Apply
    <3> QED
      BY <1>0, <1>1, <3>2, <3>3 DEF TicketInv
  <2> QED
    BY <1>7, <2>1, <2>3 DEF Automation!Apply
<1>8. ASSUME NEW s \in RuleSlots,
             \/ Automation!Take(s) \/ Automation!Check(s) \/ Automation!RecordRefusal(s)
             \/ Automation!Refuse(s) \/ Automation!Retry(s)
      PROVE  TicketInv'
  <2>1. UNCHANGED <<rule, value, changed, since>>
    BY <1>8 DEF Automation!Take, Automation!Check, Automation!RecordRefusal, Automation!Refuse,
                Automation!Retry
  <2>2. UNCHANGED autoFaults \/ Automation!Fault
    BY <1>8 DEF Automation!Take, Automation!Check, Automation!RecordRefusal, Automation!Refuse,
                Automation!Retry
  <2> QED
    BY <1>0, <1>3, <2>1, <2>2
<1>9. CASE UNCHANGED Automation!vars
  BY <1>0, <1>9 DEF Automation!vars, TicketInv
<1> QED
  BY <1>4, <1>5, <1>6, <1>7, <1>8, <1>9 DEF Automation!Next, Automation!Running

LEMMA AutoTypedImplies ==
    ASSUME Automation!AutomationConstants, AutoTypedInv PROVE Automation!TypeOK
<1>0. AutoTypes /\ DepthInv /\ KnownInv /\ TicketInv
  BY DEF AutoTypedInv, AutoInv
<1>1. changed \in Seq(Changed) /\ Len(changed) \in Nat /\ since \in 0..Len(changed)
      /\ DOMAIN changed = 1..Len(changed)
  BY <1>0 DEF AutoTypes, TicketInv
<1>2. TriggerKeys \subseteq Automation!Keys
  BY DEF TriggerKeys, Automation!Keys
<1>3. knownRuns \subseteq Rules \X Automation!Keys
  BY <1>0, <1>2 DEF KnownInv
<1>4. ASSUME NEW i \in DOMAIN changed
      PROVE  /\ changed[i].by \in Rules \cup {Nobody} /\ changed[i].depth \in Nat
             /\ changed[i].cause < i
  <2>1. changed[i] \in Changed /\ i \in Nat /\ changed[i].cause \in 0..(i - 1)
    BY <1>0, <1>1 DEF DepthInv
  <2> QED
    BY <2>1 DEF Changed, Automation!AutomationConstants
<1>5. ASSUME NEW j \in runJobs
      PROVE  j.rule \in Rules /\ j.key \in Automation!Keys /\ j.depth \in 1..MaxDepth
  <2>1. j \in RuleJobs
    BY <1>0 DEF AutoTypes
  <2> QED
    BY <1>2, <2>1 DEF RuleJobs
<1>6. ASSUME NEW s \in RuleSlots PROVE ruleRun[s].step \in {"idle", "check", "apply", "refused"}
  BY <1>0 DEF AutoTypes, InSlot
<1> QED
  BY <1>0, <1>1, <1>3, <1>4, <1>5, <1>6 DEF Automation!TypeOK, AutoTypes, KnownInv, TicketInv

\* The state of the rules is of its types: in particular every job, record and reply is of a run
\* that was queued once.
LEMMA RulesTyped == Automation!Spec => []Automation!TypeOK
<1>1. Automation!Init => AutoTypedInv
  BY TicketAssumption, AutoTypedInit
<1>2. AutoTypedInv /\ [Automation!Next]_(Automation!vars) => AutoTypedInv'
  BY TicketAssumption, AutoInvKept, KnownKept, TicketKept DEF AutoTypedInv
<1>3. AutoTypedInv => Automation!TypeOK
  BY TicketAssumption, AutoTypedImplies
<1> QED
  BY <1>1, <1>2, <1>3, PTL DEF Automation!Spec

-------------------------------------------------------------------------------
(* The SLA timers. *)

Rows == [policy : Policies \cup {NoPolicy}, due : [Sla!Targets -> Int], paused : -1..MaxTime,
         status : {"ok", "warning", "breached"}]

\* What is announced is recorded in the same transaction.
SaidInv == \A e \in Sla!Targets \X Sla!Kinds : said[e] <= 1 /\ (said[e] # 0 => e \in announced)

ClockInv ==
    /\ sla.due["resolution"] >= -1 /\ sla.paused <= now
    /\ slaEvents <= changes + 1

\* Who waits may have changed with a message that was moved, of which no event tells.
SameFacts(f) ==
    /\ f.state = ticket.state /\ f.replied = ticket.replied
    /\ moved \/ f.asked = ticket.asked

\* A recompute works on what the ticket still is, or on what an event to come, or an edit to be
\* re-applied, will have computed again.
ReadInv(k) ==
    recompute[k] # Sla!NoRun =>
        /\ recompute[k].facts \in Sla!Facts
        /\ k = "event" => slaEvents > 0 /\ (recompute[k].stale => reapply \/ behind)
        /\ slaEvents <= (IF k = "event" THEN 1 ELSE 0) =>
              SameFacts(recompute[k].facts)
              /\ (recompute[k].facts.match = ticket.match \/ recompute[k].stale)

RecomputeInv ==
    /\ recompute["event"] = Sla!NoRun \/ recompute["reset"] = Sla!NoRun
    /\ \A k \in Sla!Runs : ReadInv(k)

\* A ticket that is done runs nothing, whatever is still to be re-applied.
DoneInv == slaEvents = 0 /\ ticket.state = "done" => sla.due = Sla!NoRow.due

SlaInv ==
    Sla!TypeOK /\ SaidInv /\ ClockInv /\ RecomputeInv /\ DoneInv /\ Sla!Converged

LEMMA SlaInvInit == ASSUME Sla!SlaConstants, Sla!Init PROVE SlaInv
<1> USE DEF Sla!SlaConstants, Sla!Init
<1>1. Sla!NoRow \in Rows /\ Sla!NoRow.due = [t \in Sla!Targets |-> -1] /\ Sla!NoRow.paused = -1
  BY DEF Sla!NoRow, Rows, Sla!None
<1>2. ticket \in Sla!Facts
  <2>1. PICK p \in Policies :
           ticket = [state |-> "open", replied |-> -1, asked |-> 0, match |-> p]
    BY DEF Sla!None
  <2>2. 0 \in -1..MaxTime /\ -1 \in -1..MaxTime /\ p \in Policies \cup {NoPolicy}
    OBVIOUS
  <2> QED
    BY <2>1, <2>2 DEF Sla!Facts
<1>3. recompute \in [Sla!Runs -> [facts : Sla!Facts \cup {Sla!NoRun.facts}, stale : BOOLEAN]]
  BY DEF Sla!NoRun
<1>4. reapply \in BOOLEAN /\ behind \in BOOLEAN /\ moved \in BOOLEAN
  OBVIOUS
<1>5. Sla!TypeOK
  BY <1>1, <1>2, <1>3, <1>4 DEF Sla!TypeOK, Rows
<1>6. SaidInv
  BY DEF SaidInv
<1>7. ClockInv
  BY <1>1 DEF ClockInv, Sla!Targets
<1>8. RecomputeInv
  BY DEF RecomputeInv, ReadInv, Sla!Runs
<1>9. DoneInv /\ Sla!Converged
  BY DEF DoneInv, Sla!Converged, Sla!Quiet
<1> QED
  BY <1>5, <1>6, <1>7, <1>8, <1>9 DEF SlaInv

\* What a target is due at whose minutes are m, counted from anchor when the facts call for it.
DueAt(calls, anchor, m) == IF calls /\ m # -1 THEN anchor + m ELSE -1

\* What computeSlaTimes() makes of the facts of a ticket, when the business hours allow it.
LEMMA ComputedFits ==
    ASSUME Sla!SlaConstants, Sla!TypeOK, ClockInv, NEW k \in Sla!Runs,
           NEW f \in Sla!Facts, f.match \in Policies, NEW asked \in -1..MaxTime,
           ~Sla!Unusable(f, asked, k = "reset")
    PROVE  LET row == Sla!Computed(f, asked, k = "reset")
               m   == minutes[f.match]
           IN
           /\ row \in Rows /\ row.policy = f.match
           /\ row.due["resolution"] >= -1 /\ row.paused <= now
           /\ f.state = "done" => row.due = Sla!NoRow.due
           /\ f.state # "done" =>
                 /\ row.due["first_response"] = DueAt(f.replied = -1, 0, m["first_response"])
                 /\ row.due["next_response"] =
                       DueAt(f.replied # -1 /\ asked # -1, asked, m["next_response"])
                 /\ (row.due["resolution"] # -1) <=> m["resolution"] # -1
                 /\ (row.paused # -1) <=> f.state = "pending" /\ m["resolution"] # -1
<1> DEFINE p      == f.match
           m      == minutes[f.match]
           fresh  == Sla!Fresh(f, asked, k = "reset")
           keeps  == Sla!Keeps(p, k = "reset")
           due    == Sla!Due(f, asked, k = "reset")
           pause  == Sla!Paused(f)
           row    == Sla!Computed(f, asked, k = "reset")
<1>1. /\ now \in Nat /\ now <= MaxTime /\ MaxTime \in Nat /\ asked \in Int /\ asked >= -1
      /\ sla.due["resolution"] \in Int /\ sla.due["resolution"] >= -1
      /\ sla.paused \in Int /\ sla.paused >= -1 /\ sla.paused <= now
  <2>1. sla \in Rows /\ now \in 0..MaxTime /\ MaxTime \in Nat
    BY DEF Sla!TypeOK, Sla!SlaConstants, Rows
  <2>2. sla.due \in [Sla!Targets -> Int] /\ sla.paused \in -1..MaxTime
    BY <2>1 DEF Rows
  <2>3. "resolution" \in Sla!Targets
    BY DEF Sla!Targets
  <2> QED
    BY <2>1, <2>2, <2>3 DEF ClockInv
<1>2. \A t \in Sla!Targets : m[t] \in Nat \cup {-1, -2}
  <2>1. minutes \in [Policies -> Minutes]
        /\ Minutes \subseteq [Sla!Targets -> Nat \cup {-1, -2}]
    BY DEF Sla!TypeOK, Sla!SlaConstants, Sla!None, Sla!Never
  <2>2. m \in [Sla!Targets -> Nat \cup {-1, -2}]
    BY <2>1
  <2> HIDE DEF m
  <2> QED
    BY <2>2
<1>3. /\ pause \in -1..MaxTime /\ pause <= now
      /\ (pause # -1) <=> f.state = "pending" /\ m["resolution"] # -1
  BY <1>1 DEF Sla!Paused, Sla!None
<1>4. \A t \in Sla!Targets :
         t \in fresh <=> /\ f.state # "done" /\ m[t] # -1
                         /\ t = "first_response" => f.replied = -1
                         /\ t = "next_response" => f.replied # -1 /\ asked # -1
                         /\ t = "resolution" => ~keeps
  BY DEF Sla!Fresh, Sla!None
<1>5. \A t \in fresh : t \in Sla!Targets /\ m[t] \in Nat
  <2>1. \A t \in fresh : t \in Sla!Targets /\ m[t] # -2 /\ m[t] # -1
    BY DEF Sla!Unusable, Sla!Never, Sla!Fresh, Sla!None
  <2> QED
    BY <1>2, <2>1
<1> DEFINE served == IF f.state # "pending" /\ sla.paused # -1 THEN now - sla.paused ELSE 0
           time(t) ==
              IF t \in fresh THEN m[t] + (IF t = "next_response" THEN asked ELSE 0)
              ELSE IF t = "resolution" /\ f.state # "done" /\ keeps THEN sla.due[t] + served
              ELSE -1
<1>6. due = [t \in Sla!Targets |-> time(t)]
  BY DEF Sla!Due, Sla!None
<1>7. keeps => sla.due["resolution"] \in Nat /\ m["resolution"] # -1
  BY <1>1 DEF Sla!Keeps, Sla!None
<1>8. served \in Nat
  BY <1>1
<1>9. /\ row.due = due /\ row.policy = p /\ row.paused = pause
      /\ row = [policy |-> p, due |-> due, paused |-> pause,
                status |-> Sla!Status(due, pause, now)]
      /\ Sla!Status(due, pause, now) \in {"ok", "warning", "breached"}
  BY DEF Sla!Computed, Sla!Status
<1> HIDE DEF fresh, keeps, due, pause, m, row, served
<1>10. /\ \A t \in Sla!Targets : due[t] = time(t) /\ time(t) \in Int
       /\ time("resolution") >= -1
       /\ due \in [Sla!Targets -> Int]
       /\ "first_response" \in Sla!Targets /\ "next_response" \in Sla!Targets
       /\ "resolution" \in Sla!Targets
  <2>1. ASSUME NEW t \in Sla!Targets PROVE time(t) \in Int
    BY <1>1, <1>5, <1>7, <1>8
  <2>2. "first_response" \in Sla!Targets /\ "next_response" \in Sla!Targets
        /\ "resolution" \in Sla!Targets
    BY DEF Sla!Targets
  <2>3. time("resolution") >= -1
    BY <1>1, <1>5, <1>7, <1>8
  <2> HIDE DEF time
  <2> QED
    BY <1>6, <2>1, <2>2, <2>3
<1>11. row \in Rows
  BY <1>3, <1>9, <1>10 DEF Rows, p
<1>12. f.state = "done" => due = Sla!NoRow.due
  <2>1. Sla!NoRow.due = [t \in Sla!Targets |-> -1]
    BY DEF Sla!NoRow, Sla!None
  <2>2. ASSUME f.state = "done", NEW t \in Sla!Targets PROVE time(t) = -1
    BY <1>4, <2>2
  <2> HIDE DEF time
  <2> QED
    BY <1>6, <2>1, <2>2
<1>13. ASSUME f.state # "done"
       PROVE  /\ due["first_response"] = DueAt(f.replied = -1, 0, m["first_response"])
              /\ due["next_response"] =
                    DueAt(f.replied # -1 /\ asked # -1, asked, m["next_response"])
              /\ (due["resolution"] # -1) <=> m["resolution"] # -1
  <2>1. due["first_response"] = DueAt(f.replied = -1, 0, m["first_response"])
    BY <1>2, <1>4, <1>10, <1>13 DEF DueAt
  <2>2. due["next_response"] = DueAt(f.replied # -1 /\ asked # -1, asked, m["next_response"])
    BY <1>1, <1>2, <1>4, <1>10, <1>13 DEF DueAt
  <2>3. (due["resolution"] # -1) <=> m["resolution"] # -1
    BY <1>2, <1>4, <1>5, <1>7, <1>8, <1>10, <1>13
  <2> QED
    BY <2>1, <2>2, <2>3
<1> QED
  BY <1>3, <1>9, <1>10, <1>11, <1>12, <1>13 DEF m, row, p

\* The row fits the facts f, with asked for the first unanswered message.
RowFits(row, f, asked) ==
    LET m == minutes[f.match]
    IN  /\ row.due["first_response"] = DueAt(f.replied = -1, 0, m["first_response"])
        /\ row.due["next_response"] =
              DueAt(f.replied # -1 /\ asked # -1, asked, m["next_response"])
        /\ (row.due["resolution"] # -1) <=> m["resolution"] # -1
        /\ (row.paused # -1) <=> f.state = "pending" /\ m["resolution"] # -1

\* For the facts f some target is called for that the business hours cannot meet.
SkippedFor(f, asked) ==
    LET m == minutes[f.match]
    IN  /\ f.match # NoPolicy
        /\ \/ m["resolution"] = -2
           \/ m["first_response"] = -2 /\ f.replied = -1
           \/ m["next_response"] = -2 /\ f.replied # -1 /\ asked # -1

\* The row after a recompute: none, or that of the facts as they were read, or, of facts that
\* the business hours cannot meet, as it was.
LEMMA StoreFits ==
    ASSUME Sla!SlaConstants, SlaInv, NEW k \in Sla!Runs, Sla!Store(k)
    PROVE  LET f == recompute[k].facts IN
           /\ f \in Sla!Facts /\ sla' \in Rows
           /\ sla'.due["resolution"] >= -1 /\ sla'.paused <= now
           /\ f.state = "done" => sla'.due = Sla!NoRow.due
           /\ f.state # "done" =>
                 \/ \E asked \in {f.asked, ticket.asked} : SkippedFor(f, asked)
                 \/ /\ sla'.policy = f.match
                    /\ sla' # Sla!NoRow =>
                          /\ f.match # NoPolicy
                          /\ \E asked \in {f.asked, ticket.asked} : RowFits(sla', f, asked)
<1> DEFINE f == recompute[k].facts
<1>1. recompute[k] # Sla!NoRun /\ f \in Sla!Facts /\ Sla!TypeOK /\ ClockInv
  BY DEF Sla!Store, SlaInv, RecomputeInv, ReadInv
<1>2. CASE sla' = Sla!NoRow /\ (f.match = NoPolicy \/ f.state = "done")
  <2>1. /\ Sla!NoRow \in Rows /\ Sla!NoRow.due["resolution"] = -1 /\ Sla!NoRow.paused = -1
        /\ Sla!NoRow.policy = NoPolicy
    BY <1>1 DEF Sla!NoRow, Rows, Sla!None, Sla!Targets, Sla!TypeOK, Sla!SlaConstants
  <2>2. now \in Nat
    BY <1>1 DEF Sla!TypeOK, Sla!SlaConstants
  <2> QED
    BY <1>1, <1>2, <2>1, <2>2
<1>3. ASSUME f.match # NoPolicy, NEW asked \in {f.asked, ticket.asked},
             ~Sla!Unusable(f, asked, k = "reset"),
             sla' = Sla!Computed(f, asked, k = "reset")
      PROVE  /\ sla' \in Rows /\ sla'.policy = f.match
             /\ sla'.due["resolution"] >= -1 /\ sla'.paused <= now
             /\ f.state = "done" => sla'.due = Sla!NoRow.due
             /\ f.state # "done" => RowFits(sla', f, asked)
  <2>1. f.match \in Policies /\ asked \in -1..MaxTime
    BY <1>1, <1>3 DEF Sla!TypeOK, Sla!Facts
  <2> QED
    BY <1>1, <1>3, <2>1, ComputedFits DEF RowFits
<1>4. ASSUME f.match # NoPolicy, NEW asked \in {f.asked, ticket.asked},
             Sla!Unusable(f, asked, k = "reset"), sla' = sla
      PROVE  /\ sla' \in Rows /\ f.state # "done" /\ SkippedFor(f, asked)
             /\ sla'.due["resolution"] >= -1 /\ sla'.paused <= now
  <2>1. sla \in Rows /\ sla.due["resolution"] >= -1 /\ sla.paused <= now
    BY <1>1 DEF Sla!TypeOK, Rows, ClockInv
  <2>2. PICK t \in Sla!Fresh(f, asked, k = "reset") : minutes[f.match][t] = -2
    BY <1>4 DEF Sla!Unusable, Sla!Never
  <2>3. /\ t \in {"first_response", "next_response", "resolution"} /\ f.state # "done"
        /\ t = "first_response" => f.replied = -1
        /\ t = "next_response" => f.replied # -1 /\ asked # -1
    BY <2>2 DEF Sla!Fresh, Sla!Targets, Sla!None
  <2> QED
    BY <1>4, <2>1, <2>2, <2>3 DEF SkippedFor
<1> HIDE DEF f
<1>5. \/ sla' = Sla!NoRow /\ (f.match = NoPolicy \/ f.state = "done")
      \/ f.match # NoPolicy /\ \E asked \in {f.asked, ticket.asked} :
            \/ Sla!Unusable(f, asked, k = "reset") /\ sla' = sla
            \/ ~Sla!Unusable(f, asked, k = "reset") /\ sla' = Sla!Computed(f, asked, k = "reset")
  BY DEF Sla!Store, f
<1>6. CASE f.match # NoPolicy /\ \E asked \in {f.asked, ticket.asked} :
            \/ Sla!Unusable(f, asked, k = "reset") /\ sla' = sla
            \/ ~Sla!Unusable(f, asked, k = "reset") /\ sla' = Sla!Computed(f, asked, k = "reset")
  BY <1>1, <1>3, <1>4, <1>6 DEF f
<1> QED
  BY <1>2, <1>5, <1>6

\* A change of the ticket, with its event.
LEMMA ChangeFits ==
    ASSUME Sla!SlaConstants, SlaInv,
           Sla!CustomerWrites \/ Sla!StaffReplies \/ Sla!SetState \/ Sla!Rematch
    PROVE  /\ ticket' \in Sla!Facts /\ slaEvents' = slaEvents + 1 /\ changes' = changes + 1
           /\ changes < SlaChanges
           /\ UNCHANGED <<now, moved, minutes, recompute, reapply, behind, sla, announced, said,
                          slaFaults>>
<1>1. now \in -1..MaxTime /\ -1 \in -1..MaxTime /\ ticket \in Sla!Facts
  BY DEF SlaInv, Sla!TypeOK, Sla!SlaConstants
<1>2. /\ ticket.state \in {"open", "pending", "done"} /\ ticket.replied \in -1..MaxTime
      /\ ticket.asked \in -1..MaxTime /\ ticket.match \in Policies \cup {NoPolicy}
      /\ ticket = [state |-> ticket.state, replied |-> ticket.replied, asked |-> ticket.asked,
                   match |-> ticket.match]
  BY <1>1 DEF Sla!Facts
<1>3. CASE Sla!CustomerWrites
  <2>1. PICK a \in -1..MaxTime : ticket' = [ticket EXCEPT !.asked = a, !.state = "open"]
    BY <1>1, <1>2, <1>3 DEF Sla!CustomerWrites, Sla!Change
  <2>2. ticket' \in Sla!Facts
    BY <1>1, <2>1 DEF Sla!Facts
  <2> QED
    BY <1>3, <2>2 DEF Sla!CustomerWrites, Sla!Change
<1>4. CASE Sla!StaffReplies
  <2>1. ticket' = [ticket EXCEPT !.asked = -1, !.replied = now]
    BY <1>4 DEF Sla!StaffReplies, Sla!Change, Sla!None
  <2>2. ticket' \in Sla!Facts
    BY <1>1, <2>1 DEF Sla!Facts
  <2> QED
    BY <1>4, <2>2 DEF Sla!StaffReplies, Sla!Change
<1>5. CASE Sla!SetState
  <2>1. PICK s \in {"open", "pending", "done"} : Sla!Change([ticket EXCEPT !.state = s])
    BY <1>5 DEF Sla!SetState
  <2>2. ticket' \in Sla!Facts
    BY <1>1, <2>1 DEF Sla!Facts, Sla!Change
  <2> QED
    BY <2>1, <2>2 DEF Sla!Change
<1>6. CASE Sla!Rematch
  <2>1. PICK p \in Policies \cup {NoPolicy} : Sla!Change([ticket EXCEPT !.match = p])
    BY <1>6 DEF Sla!Rematch
  <2>2. ticket' \in Sla!Facts
    BY <1>1, <2>1 DEF Sla!Facts, Sla!Change
  <2> QED
    BY <2>1, <2>2 DEF Sla!Change
<1> QED
  BY <1>3, <1>4, <1>5, <1>6

\* What the sweep appends it appends for the first time.
LEMMA EmitFits ==
    ASSUME Sla!SlaConstants, SlaInv, NEW at, Sla!Emit(at)
    PROVE  /\ SaidInv' /\ announced' \subseteq Sla!Targets \X Sla!Kinds
           /\ said' \in [Sla!Targets \X Sla!Kinds -> Nat]
           /\ sla' \in Rows /\ sla # Sla!NoRow /\ ticket.state # "done"
           /\ sla'.due = sla.due /\ sla'.paused = sla.paused /\ sla'.policy = sla.policy
           /\ UNCHANGED <<now, ticket, moved, minutes, slaEvents, recompute, reapply, behind, changes,
                          slaFaults>>
<1> DEFINE all  == Sla!Targets \X Sla!Kinds
           due  == {<<t, "warning">> : t \in Sla!Warned(at)}
                   \cup {<<t, "breached">> : t \in Sla!Breached(at)}
           says == {e \in due : Sla!New(e) /\ (e[2] = "warning" => e[1] \notin Sla!Breached(at))}
<1>1. Sla!Warned(at) \subseteq Sla!Targets /\ Sla!Breached(at) \subseteq Sla!Targets
  BY DEF Sla!Warned, Sla!Breached, Sla!Running
<1>2. due \subseteq all
  BY <1>1 DEF Sla!Kinds
<1>3. announced \subseteq all /\ said \in [all -> Nat] /\ sla \in Rows /\ SaidInv
  BY DEF SlaInv, Sla!TypeOK, Rows
<1>4. /\ announced' = announced \cup due
      /\ said' = [e \in all |-> IF e \in says THEN said[e] + 1 ELSE said[e]]
  BY <1>3 DEF Sla!Emit
<1>5. \A e \in says : e \in due /\ e \notin announced
  BY DEF Sla!New
<1> HIDE DEF due, says
<1>6. said' \in [all -> Nat] /\ announced' \subseteq all
  BY <1>2, <1>3, <1>4
<1>7. ASSUME NEW e \in all PROVE said'[e] <= 1 /\ (said'[e] # 0 => e \in announced')
  <2>1. said[e] \in Nat /\ said[e] <= 1 /\ (said[e] # 0 => e \in announced)
    BY <1>3 DEF SaidInv
  <2>2. CASE e \in says
    BY <1>4, <1>5, <2>1, <2>2
  <2>3. CASE e \notin says
    BY <1>4, <2>1, <2>3
  <2> QED
    BY <2>2, <2>3
<1>8. SaidInv'
  BY <1>7 DEF SaidInv
<1>9. sla' = [sla EXCEPT !.status = Sla!Status(sla.due, sla.paused, at)]
      /\ Sla!Status(sla.due, sla.paused, at) \in {"ok", "warning", "breached"}
  BY DEF Sla!Emit, Sla!Status
<1>10. sla' \in Rows /\ sla'.due = sla.due /\ sla'.paused = sla.paused /\ sla'.policy = sla.policy
  BY <1>3, <1>9 DEF Rows
<1> QED
  BY <1>6, <1>8, <1>10 DEF Sla!Emit

LEMMA SlaInvKept ==
    ASSUME Sla!SlaConstants, SlaInv, [Sla!Next]_(Sla!vars) PROVE SlaInv'
<1>0. /\ Sla!TypeOK /\ SaidInv /\ ClockInv /\ RecomputeInv /\ DoneInv /\ Sla!Converged
      /\ MaxTime \in Nat /\ SlaChanges \in Nat /\ SlaFaults \in Nat
      /\ now \in 0..MaxTime /\ slaEvents \in Nat /\ changes \in Nat /\ slaFaults \in Nat
      /\ sla \in Rows /\ sla.paused \in Int
  BY DEF SlaInv, Sla!SlaConstants, Sla!TypeOK, Rows
<1> DEFINE InRun == [facts : Sla!Facts \cup {Sla!NoRun.facts}, stale : BOOLEAN]
<1>a. /\ recompute \in [Sla!Runs -> InRun] /\ Sla!NoRun \in InRun
      /\ "event" \in Sla!Runs /\ "reset" \in Sla!Runs /\ Sla!Runs = {"event", "reset"}
  BY <1>0 DEF Sla!TypeOK, Sla!NoRun, Sla!Runs
<1>1. CASE Sla!CustomerWrites \/ Sla!StaffReplies \/ Sla!SetState \/ Sla!Rematch
  <2>1. /\ ticket' \in Sla!Facts /\ slaEvents' = slaEvents + 1 /\ changes' = changes + 1
        /\ changes < SlaChanges
        /\ UNCHANGED <<now, moved, minutes, recompute, reapply, behind, sla, announced, said,
                       slaFaults>>
    BY <1>1, ChangeFits
  <2>2. Sla!TypeOK' /\ ClockInv' /\ SaidInv'
    BY <1>0, <2>1 DEF Sla!TypeOK, ClockInv, SaidInv
  <2>3. slaEvents' > 0 /\ DoneInv' /\ Sla!Converged'
    BY <1>0, <2>1 DEF DoneInv, Sla!Converged, Sla!Quiet, Sla!Skipped
  <2>4. RecomputeInv'
    BY <1>0, <2>1 DEF RecomputeInv, ReadInv
  <2> QED
    BY <2>2, <2>3, <2>4 DEF SlaInv
<1>11. CASE Sla!MoveMessage
  <2>1. /\ changes < SlaChanges /\ changes' = changes + 1 /\ moved' = TRUE
        /\ UNCHANGED <<now, minutes, slaEvents, recompute, reapply, behind, sla, announced, said,
                       slaFaults>>
    BY <1>11 DEF Sla!MoveMessage
  <2>2. /\ ticket' \in Sla!Facts /\ ticket'.state = ticket.state
        /\ ticket'.replied = ticket.replied /\ ticket'.match = ticket.match
    <3>1. PICK i \in -1..MaxTime : ticket' = [ticket EXCEPT !.asked = i]
      BY <1>0, <1>11 DEF Sla!MoveMessage, Sla!None
    <3>2. ticket \in Sla!Facts
      BY <1>0 DEF Sla!TypeOK
    <3> QED
      BY <3>1, <3>2 DEF Sla!Facts
  <2>3. Sla!TypeOK' /\ ClockInv' /\ SaidInv'
    BY <1>0, <2>1, <2>2 DEF Sla!TypeOK, ClockInv, SaidInv
  <2>4. DoneInv' /\ RecomputeInv'
    BY <1>0, <2>1, <2>2 DEF DoneInv, RecomputeInv, ReadInv, SameFacts
  <2>5. Sla!Skipped => Sla!Skipped'
    BY <2>1, <2>2 DEF Sla!Skipped
  <2>6. Sla!Converged'
    BY <1>0, <2>1, <2>2, <2>5 DEF Sla!Converged, Sla!Quiet
  <2> QED
    BY <2>3, <2>4, <2>6 DEF SlaInv
<1>2. CASE Sla!EditPolicy
  <2>1. /\ changes < SlaChanges /\ changes' = changes + 1 /\ reapply' = TRUE
        /\ recompute' = [k \in Sla!Runs |->
                            [recompute[k] EXCEPT !.stale = recompute[k] # Sla!NoRun]]
        /\ UNCHANGED <<now, moved, slaEvents, behind, sla, announced, said, slaFaults>>
    BY <1>2 DEF Sla!EditPolicy
  <2>2. ticket' \in Sla!Facts /\ ticket'.state = ticket.state /\ ticket'.replied = ticket.replied
        /\ ticket'.asked = ticket.asked
    <3>1. PICK p \in Policies \cup {NoPolicy} : ticket' = [ticket EXCEPT !.match = p]
      BY <1>2 DEF Sla!EditPolicy
    <3>2. ticket \in Sla!Facts
      BY <1>0 DEF Sla!TypeOK
    <3> QED
      BY <3>1, <3>2 DEF Sla!Facts
  <2>3. minutes' \in [Policies -> Minutes]
    BY <1>0, <1>2 DEF Sla!EditPolicy, Sla!TypeOK
  <2>4. ASSUME NEW k \in Sla!Runs
        PROVE  /\ recompute'[k] \in InRun /\ recompute'[k].facts = recompute[k].facts
               /\ recompute[k] = Sla!NoRun => recompute'[k] = Sla!NoRun
               /\ recompute[k] # Sla!NoRun => recompute'[k].stale
    <3>1. recompute[k] \in InRun
          /\ recompute'[k] = [recompute[k] EXCEPT !.stale = recompute[k] # Sla!NoRun]
      BY <1>a, <2>1
    <3>2. (recompute[k] # Sla!NoRun) \in BOOLEAN
      OBVIOUS
    <3>3. CASE recompute[k] = Sla!NoRun
      <4>1. recompute'[k] = [recompute[k] EXCEPT !.stale = FALSE]
        BY <3>1, <3>3
      <4>2. recompute[k] = [facts |-> recompute[k].facts, stale |-> FALSE]
        BY <3>3 DEF Sla!NoRun
      <4>3. recompute'[k] = recompute[k]
        BY <4>1, <4>2
      <4> QED
        BY <1>a, <3>3, <4>3
    <3>4. CASE recompute[k] # Sla!NoRun
      <4>1. recompute'[k] = [recompute[k] EXCEPT !.stale = TRUE]
        BY <3>1, <3>4
      <4> QED
        BY <3>1, <3>4, <4>1
    <3> QED
      BY <3>3, <3>4
  <2>5. recompute' \in [Sla!Runs -> InRun]
    BY <2>1, <2>4
  <2>6. Sla!TypeOK'
    BY <1>0, <2>1, <2>2, <2>3, <2>5 DEF Sla!TypeOK
  <2>7. ClockInv' /\ SaidInv'
    BY <1>0, <2>1 DEF ClockInv, SaidInv
  <2>8. DoneInv' /\ Sla!Converged'
    BY <1>0, <2>1, <2>2 DEF DoneInv, Sla!Converged, Sla!Quiet, Sla!Skipped
  <2>9. RecomputeInv'
    <3>1. \A k \in Sla!Runs : ReadInv(k)'
      BY <1>0, <2>1, <2>2, <2>4 DEF RecomputeInv, ReadInv, SameFacts
    <3> QED
      BY <1>0, <1>a, <2>4, <3>1 DEF RecomputeInv
  <2> QED
    BY <2>6, <2>7, <2>8, <2>9 DEF SlaInv
<1>3. CASE Sla!BeginEvent \/ Sla!BeginReapply
  <2> DEFINE read == [facts |-> ticket, stale |-> FALSE]
  <2>1. UNCHANGED <<now, ticket, minutes, slaEvents, behind, sla, announced, said, changes,
                    slaFaults>>
    BY <1>3 DEF Sla!BeginEvent, Sla!BeginReapply
  <2>2. \A k \in Sla!Runs : recompute[k] = Sla!NoRun
    BY <1>3 DEF Sla!BeginEvent, Sla!BeginReapply, Sla!Unlocked
  <2>3. \/ slaEvents > 0 /\ recompute' = [recompute EXCEPT !["event"] = read] /\ reapply' = reapply
        \/ reapply /\ recompute' = [recompute EXCEPT !["reset"] = read] /\ reapply' = reapply
        \/ reapply' = FALSE /\ recompute' = recompute /\ ticket.state = "done"
    BY <1>3 DEF Sla!BeginEvent, Sla!BeginReapply, Sla!Lock
  <2>4. read \in InRun /\ ticket \in Sla!Facts /\ reapply' \in BOOLEAN /\ moved' \in BOOLEAN
    <3>1. FALSE \in BOOLEAN /\ reapply \in BOOLEAN /\ moved \in BOOLEAN /\ ticket \in Sla!Facts
      BY <1>0 DEF Sla!TypeOK
    <3>2. moved' = FALSE \/ moved' = moved
      BY <1>3 DEF Sla!BeginEvent, Sla!BeginReapply, Sla!Lock
    <3> QED
      BY <2>3, <3>1, <3>2
  <2>5. recompute' \in [Sla!Runs -> InRun]
    BY <1>a, <2>3, <2>4
  <2>6. Sla!TypeOK' /\ ClockInv' /\ SaidInv'
    BY <1>0, <2>1, <2>4, <2>5 DEF Sla!TypeOK, ClockInv, SaidInv
  <2>7. DoneInv' /\ Sla!Converged'
    <3>1. CASE reapply' = FALSE /\ recompute' = recompute /\ ticket.state = "done"
      BY <1>0, <2>1, <3>1 DEF DoneInv, Sla!Converged, Sla!Quiet, Sla!Skipped
    <3>2. CASE (slaEvents > 0 \/ reapply) /\ reapply' = reapply
      BY <1>0, <2>1, <3>2 DEF DoneInv, Sla!Converged, Sla!Quiet, Sla!Skipped
    <3> QED
      BY <2>3, <3>1, <3>2
  <2>8. read.facts = ticket /\ ~read.stale
    OBVIOUS
  <2> HIDE DEF read
  <2>9. \A k \in Sla!Runs :
           \/ recompute'[k] = Sla!NoRun
           \/ recompute'[k] = read /\ (k = "event" => slaEvents > 0)
    BY <1>a, <2>2, <2>3
  <2>10. recompute'["event"] = Sla!NoRun \/ recompute'["reset"] = Sla!NoRun
    BY <1>a, <2>2, <2>3
  <2>11. RecomputeInv'
    BY <2>1, <2>4, <2>8, <2>9, <2>10 DEF RecomputeInv, ReadInv, SameFacts
  <2> QED
    BY <2>6, <2>7, <2>11 DEF SlaInv
<1>4. CASE Sla!ReapplyLost
  <2>1. /\ slaFaults < SlaFaults /\ slaFaults' = slaFaults + 1 /\ reapply' = FALSE /\ behind' = TRUE
        /\ UNCHANGED <<now, ticket, moved, minutes, slaEvents, recompute, sla, announced, said, changes>>
    BY <1>4 DEF Sla!ReapplyLost, Sla!Fault
  <2>2. reapply' \in BOOLEAN /\ behind' \in BOOLEAN
    BY <2>1
  <2>3. Sla!TypeOK' /\ ClockInv' /\ SaidInv'
    BY <1>0, <2>1, <2>2 DEF Sla!TypeOK, ClockInv, SaidInv
  <2>4. DoneInv' /\ Sla!Converged' /\ RecomputeInv'
    BY <1>0, <2>1 DEF DoneInv, Sla!Converged, Sla!Quiet, Sla!Skipped, RecomputeInv, ReadInv,
                                     SameFacts
  <2> QED
    BY <2>3, <2>4 DEF SlaInv
<1>5. CASE Sla!Sweep
  <2>1. PICK at \in (now - SweepLag)..now : Sla!Emit(at)
    BY <1>5 DEF Sla!Sweep
  <2>2. /\ SaidInv' /\ announced' \subseteq Sla!Targets \X Sla!Kinds
        /\ said' \in [Sla!Targets \X Sla!Kinds -> Nat]
        /\ sla' \in Rows /\ sla # Sla!NoRow /\ ticket.state # "done"
        /\ sla'.due = sla.due /\ sla'.paused = sla.paused /\ sla'.policy = sla.policy
        /\ UNCHANGED <<now, ticket, moved, minutes, slaEvents, recompute, reapply, behind, changes,
                       slaFaults>>
    BY <2>1, EmitFits
  <2>3. Sla!TypeOK' /\ ClockInv'
    BY <1>0, <2>2 DEF Sla!TypeOK, ClockInv, Rows
  <2>4. DoneInv' /\ Sla!Converged'
    BY <1>0, <2>2 DEF DoneInv, Sla!Converged, Sla!Quiet, Sla!Skipped
  <2>5. RecomputeInv'
    BY <1>0, <2>2 DEF RecomputeInv, ReadInv, SameFacts
  <2> QED
    BY <2>2, <2>3, <2>4, <2>5 DEF SlaInv
<1>6. CASE Sla!Tick
  <2>1. /\ now < MaxTime /\ now' = now + 1
        /\ UNCHANGED <<ticket, moved, minutes, slaEvents, recompute, reapply, behind, sla, announced,
                       said, changes, slaFaults>>
    BY <1>6 DEF Sla!Tick
  <2>2. Sla!TypeOK' /\ ClockInv' /\ SaidInv'
    BY <1>0, <2>1 DEF Sla!TypeOK, ClockInv, SaidInv
  <2>3. DoneInv' /\ Sla!Converged' /\ RecomputeInv'
    BY <1>0, <2>1 DEF DoneInv, Sla!Converged, Sla!Quiet, Sla!Skipped, RecomputeInv, ReadInv,
                                     SameFacts
  <2> QED
    BY <2>2, <2>3 DEF SlaInv
<1>7. ASSUME NEW k \in Sla!Runs, Sla!Store(k) \/ Sla!RunFails(k)
      PROVE  /\ RecomputeInv' /\ recompute' \in [Sla!Runs -> InRun] /\ ReadInv(k)
             /\ recompute[k] # Sla!NoRun
             /\ \A j \in Sla!Runs : recompute'[j] = Sla!NoRun
  <2>1. recompute[k] # Sla!NoRun /\ recompute' = [recompute EXCEPT ![k] = Sla!NoRun] /\ ReadInv(k)
    BY <1>0, <1>7 DEF Sla!Store, Sla!RunFails, RecomputeInv
  <2>2. \A j \in Sla!Runs : recompute'[j] = Sla!NoRun
    BY <1>0, <1>a, <2>1 DEF RecomputeInv
  <2>3. recompute' \in [Sla!Runs -> InRun]
    BY <1>a, <2>1
  <2>4. RecomputeInv'
    BY <1>a, <2>2 DEF RecomputeInv, ReadInv
  <2> QED
    BY <2>1, <2>2, <2>3, <2>4
<1>8. ASSUME NEW k \in Sla!Runs, Sla!Store(k) PROVE SlaInv'
  <2> DEFINE f == recompute[k].facts
  <2>1. /\ RecomputeInv' /\ recompute' \in [Sla!Runs -> InRun] /\ ReadInv(k)
        /\ recompute[k] # Sla!NoRun
    BY <1>7, <1>8
  <2>2. /\ \/ /\ k = "event" /\ slaEvents' = slaEvents - 1
              /\ behind' = (behind /\ recompute[k].stale)
              /\ UNCHANGED reapply
           \/ k = "reset" /\ reapply' = recompute[k].stale /\ UNCHANGED <<slaEvents, behind>>
        /\ UNCHANGED <<now, ticket, moved, minutes, announced, said, changes, slaFaults>>
    BY <1>8 DEF Sla!Store
  <2>3. /\ f \in Sla!Facts /\ sla' \in Rows
        /\ sla'.due["resolution"] >= -1 /\ sla'.paused <= now
        /\ f.state = "done" => sla'.due = Sla!NoRow.due
        /\ f.state # "done" =>
              \/ \E asked \in {f.asked, ticket.asked} : SkippedFor(f, asked)
              \/ /\ sla'.policy = f.match
                 /\ sla' # Sla!NoRow =>
                       /\ f.match # NoPolicy
                       /\ \E asked \in {f.asked, ticket.asked} : RowFits(sla', f, asked)
    BY <1>8, StoreFits
  <2>4. recompute[k].stale \in BOOLEAN /\ reapply \in BOOLEAN /\ behind \in BOOLEAN
    BY <1>0, <1>a DEF Sla!TypeOK
  <2>5. reapply' \in BOOLEAN /\ behind' \in BOOLEAN
    BY <2>2, <2>4
  <2>6. slaEvents' \in Nat /\ slaEvents' <= slaEvents
    BY <1>0, <2>1, <2>2 DEF ReadInv
  <2>7. Sla!TypeOK'
    BY <1>0, <2>1, <2>2, <2>3, <2>5, <2>6 DEF Sla!TypeOK, Rows
  <2>8. ClockInv' /\ SaidInv'
    BY <1>0, <2>2, <2>3, <2>6 DEF ClockInv, SaidInv
  <2>9. slaEvents' = 0 => SameFacts(f) /\ (f.match = ticket.match \/ recompute[k].stale)
    BY <1>0, <1>a, <2>1, <2>2 DEF ReadInv
  <2>10. DoneInv'
    BY <2>2, <2>3, <2>9 DEF DoneInv, SameFacts
  <2>11. Sla!Quiet' => SameFacts(f) /\ f.match = ticket.match
    <3>1. CASE k = "event"
      BY <2>1, <2>2, <2>4, <2>9, <3>1 DEF Sla!Quiet, ReadInv
    <3>2. CASE k = "reset"
      BY <2>2, <2>9, <3>2 DEF Sla!Quiet
    <3> QED
      BY <1>a, <3>1, <3>2
  <2>12. Sla!Converged'
    <3> SUFFICES ASSUME Sla!Quiet' PROVE Sla!Converged'
      BY DEF Sla!Converged
    <3>1. /\ f.state = ticket.state /\ f.replied = ticket.replied /\ f.match = ticket.match
          /\ moved \/ f.asked = ticket.asked
          /\ minutes' = minutes /\ ticket' = ticket /\ moved' = moved
      BY <2>2, <2>11 DEF SameFacts
    <3> HIDE DEF f
    <3>2. CASE ticket.state = "done"
      BY <2>3, <3>1, <3>2 DEF Sla!Converged
    <3>3. CASE ticket.state # "done" /\ \E asked \in {f.asked, ticket.asked} : SkippedFor(f, asked)
      <4>1. Sla!Skipped'
        BY <3>1, <3>3 DEF SkippedFor, Sla!Skipped, Sla!None, Sla!Never
      <4> QED
        BY <3>1, <3>3, <4>1 DEF Sla!Converged
    <3>4. CASE ticket.state # "done" /\ sla'.policy = f.match /\ sla' = Sla!NoRow
      BY <3>1, <3>4 DEF Sla!Converged
    <3>5. ASSUME ticket.state # "done", sla'.policy = f.match, f.match # NoPolicy,
                 NEW asked \in {f.asked, ticket.asked}, RowFits(sla', f, asked)
          PROVE  Sla!Converged'
      <4> DEFINE m == minutes[ticket.match]
      <4>1. m["first_response"] \in Int /\ m["next_response"] \in Int
        <5>1. ticket.match \in Policies
          BY <2>3, <3>1, <3>5 DEF Sla!Facts
        <5>2. minutes \in [Policies -> Minutes]
              /\ Minutes \subseteq [Sla!Targets -> Nat \cup {-1, -2}]
          BY <1>0 DEF Sla!TypeOK, Sla!SlaConstants, Sla!None, Sla!Never
        <5>3. m \in [Sla!Targets -> Nat \cup {-1, -2}]
          BY <5>1, <5>2
        <5> HIDE DEF m
        <5> QED
          BY <5>3 DEF Sla!Targets
      <4>2. /\ sla'.due["first_response"] = DueAt(ticket.replied = -1, 0, m["first_response"])
            /\ sla'.due["next_response"] =
                  DueAt(ticket.replied # -1 /\ asked # -1, asked, m["next_response"])
            /\ (sla'.due["resolution"] # -1) <=> m["resolution"] # -1
            /\ (sla'.paused # -1) <=> ticket.state = "pending" /\ m["resolution"] # -1
        BY <3>1, <3>5 DEF RowFits
      <4>3. minutes'[ticket'.match] = m
        BY <3>1
      <4> HIDE DEF m
      <4>4. sla'.due["first_response"] = IF ticket.replied = -1 THEN m["first_response"] ELSE -1
        BY <4>1, <4>2 DEF DueAt
      <4>5. ~moved => sla'.due["next_response"] =
               IF ticket.replied # -1 /\ ticket.asked # -1 /\ m["next_response"] # -1
               THEN ticket.asked + m["next_response"] ELSE -1
        BY <3>1, <3>5, <4>2 DEF DueAt
      <4> QED
        BY <3>1, <3>5, <4>2, <4>3, <4>4, <4>5 DEF Sla!Converged, Sla!None
    <3> QED
      BY <2>3, <3>1, <3>2, <3>3, <3>4, <3>5
  <2> QED
    BY <2>1, <2>7, <2>8, <2>10, <2>12 DEF SlaInv
<1>9. ASSUME NEW k \in Sla!Runs, Sla!RunFails(k) PROVE SlaInv'
  <2>1. /\ RecomputeInv' /\ recompute' \in [Sla!Runs -> InRun] /\ ReadInv(k)
        /\ recompute[k] # Sla!NoRun
    BY <1>7, <1>9
  <2>2. /\ slaFaults < SlaFaults /\ slaFaults' = slaFaults + 1
        /\ \/ k = "event" /\ UNCHANGED <<reapply, behind>>
           \/ k = "reset" /\ reapply' = recompute[k].stale /\ behind' = TRUE
        /\ UNCHANGED <<now, ticket, moved, minutes, slaEvents, sla, announced, said, changes>>
    BY <1>9 DEF Sla!RunFails, Sla!Fault
  <2>3. recompute[k].stale \in BOOLEAN /\ reapply \in BOOLEAN /\ behind \in BOOLEAN
    BY <1>0, <1>a DEF Sla!TypeOK
  <2>4. reapply' \in BOOLEAN /\ behind' \in BOOLEAN
    BY <2>2, <2>3
  <2>5. Sla!TypeOK' /\ ClockInv' /\ SaidInv'
    BY <1>0, <2>1, <2>2, <2>4 DEF Sla!TypeOK, ClockInv, SaidInv
  <2>6. DoneInv' /\ Sla!Converged'
    <3>1. slaEvents' > 0 \/ behind'
      BY <2>1, <2>2 DEF ReadInv
    <3> QED
      BY <1>0, <2>2, <3>1 DEF DoneInv, Sla!Converged, Sla!Quiet, Sla!Skipped
  <2> QED
    BY <2>1, <2>5, <2>6 DEF SlaInv
<1>10. CASE UNCHANGED Sla!vars
  BY <1>0, <1>10 DEF Sla!vars, SlaInv, Sla!TypeOK, SaidInv, ClockInv, RecomputeInv, ReadInv,
                     SameFacts, DoneInv, Sla!Converged, Sla!Quiet, Sla!Skipped
<1> QED
  BY <1>1, <1>2, <1>3, <1>4, <1>5, <1>6, <1>8, <1>9, <1>10, <1>11 DEF Sla!Next

LEMMA SlaInvariant == Sla!Spec => []SlaInv
<1>1. Sla!Init => SlaInv
  BY TicketAssumption, SlaInvInit
<1>2. SlaInv /\ [Sla!Next]_(Sla!vars) => SlaInv'
  BY TicketAssumption, SlaInvKept
<1> QED
  BY <1>1, <1>2, PTL DEF Sla!Spec

\* Each warning and each breach of a ticket is announced once, whatever sweeps, recomputes and
\* edits of the policies come between (sla-sweep.ts:24): what is appended was not recorded, and
\* is recorded with it.
THEOREM AnnouncedOnce == Sla!Spec => []SaidOnce
<1>1. SlaInv => SaidOnce
  BY DEF SlaInv, SaidInv, SaidOnce, Sla!SaidOnce
<1> QED
  BY <1>1, SlaInvariant, PTL

\* Events of a ticket handled late, out of order, or overlapping an edit of its policy leave the
\* row its last facts call for (sla-recompute.service.ts:45): whoever read facts that are no
\* longer the ticket's leaves an event, or an edit to be re-applied, behind him.  Not so, and
\* Converged says so, for a message that was moved, and for minutes the business hours do not
\* have (sla.consumer.ts:50, sla-recompute.service.ts:99).
THEOREM RecomputesConverge == Sla!Spec => []Converged
<1>1. SlaInv => Converged
  BY DEF SlaInv, Converged
<1> QED
  BY <1>1, SlaInvariant, PTL
================================================================================
