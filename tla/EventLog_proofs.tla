---------------------------- MODULE EventLog_proofs ----------------------------
(***************************************************************************)
(* Proofs of the safety properties of EventLog, for every deadline and     *)
(* every bound of the clock and the log.                                   *)
(***************************************************************************)
EXTENDS EventLog, TLAPS

Assumptions == ThreadsAssumption /\ BoundsAssumption

------------------------------------------------------------------------------
(***************************************************************************)
(* The invariant.                                                          *)
(***************************************************************************)

Times == 0..MaxClock
Rows == [status : Status, updated : Times, error : BOOLEAN, manual : BOOLEAN,
         completion : BOOLEAN]

\* A thread waits in a state of its operation.
ThreadStates ==
  {Idle} \union [pc : {"claim", "submit"}, now : Times]
  \union [pc : {"time"}, current : Status, completion : BOOLEAN]
  \union [pc : {"ask"}, current : Status, completion : BOOLEAN, now : Times]
  \union [pc : {"compare", "load"}, event : Events]
  \union [pc : {"number"}, event : Events, seen : Rows, events : Nat]
  \union [pc : {"flush"}, event : Events, seen : Rows, events : Nat, number : Nat]

Typed ==
  /\ row \in Rows /\ log \in Seq(Events) /\ clock \in Times /\ crossed \in BOOLEAN
  /\ thread \in [Threads -> ThreadStates]

\* Before the claim there is nothing to read or to append to.
ClaimComesFirst ==
  \A t \in Threads :
    /\ thread[t].pc = "claim" => t = Submitter /\ ~Claimed
    /\ ~Claimed => thread[t].pc \in {"idle", "claim"}

\* A thread that has loaded the row knows it as it is until the log grows.
SeenIsRow ==
  \A t \in Threads :
    /\ thread[t].pc \in {"number", "flush"} =>
         /\ thread[t].events <= Len(log)
         /\ thread[t].events = Len(log) => thread[t].seen = row
    /\ thread[t].pc = "flush" => thread[t].number \in thread[t].events + 1 .. Len(log) + 1

EventsInv ==
  Typed /\ ClaimComesFirst /\ SeenIsRow /\ RowFollowsLog /\ ManualCompletionIsMarked

------------------------------------------------------------------------------
(***************************************************************************)
(* Events and threads.                                                     *)
(***************************************************************************)

LEMMA EventTyped ==
  ASSUME NEW kind \in Kinds, NEW status \in Status, NEW source \in Sources, NEW at \in Times
  PROVE  /\ Event(kind, status, source, at) \in Events
         /\ Event(kind, status, source, at).status = status
         /\ Event(kind, status, source, at).source = source
         /\ Changed(Event(kind, status, source, at)) \in Events
<1>1. (kind \in Errors) \in BOOLEAN
  OBVIOUS
<1> DEFINE event == Event(kind, status, source, at)
<1>2. event \in Events /\ event.status = status /\ event.source = source
  BY <1>1 DEF Event, Events, Times
<1> HIDE DEF event
<1>3. Changed(event) \in Events
  BY <1>2 DEF Changed, Events
<1> QED BY <1>2, <1>3 DEF event

LEMMA EventKind ==
  ASSUME NEW kind, NEW status, NEW source, NEW at
  PROVE  /\ Event(kind, status, source, at).kind = kind
         /\ Event(kind, status, source, at).source = source
         /\ Changed(Event(kind, status, source, at)).kind = kind
         /\ Changed(Event(kind, status, source, at)).source = source
BY DEF Event, Changed

LEMMA ThreadFields ==
  ASSUME thread \in [Threads -> ThreadStates], NEW t \in Threads
  PROVE  /\ thread[t].pc \in {"idle", "claim", "submit", "time", "ask", "compare", "load",
                              "number", "flush"}
         /\ thread[t].pc \in {"claim", "submit", "ask"} => thread[t].now \in Times
         /\ thread[t].pc \in {"time", "ask"} => /\ thread[t].current \in Status
                                                /\ thread[t].completion \in BOOLEAN
         /\ thread[t].pc \in {"compare", "load", "number", "flush"} => thread[t].event \in Events
         /\ thread[t].pc \in {"number", "flush"} => /\ thread[t].seen \in Rows
                                                    /\ thread[t].events \in Nat
         /\ thread[t].pc = "flush" => thread[t].number \in Nat
BY DEF ThreadStates, Idle

LEMMA Becoming ==
  ASSUME thread \in [Threads -> ThreadStates], NEW t \in Threads,
         NEW state \in ThreadStates, Become(t, state)
  PROVE  /\ thread' \in [Threads -> ThreadStates]
         /\ thread'[t] = state
         /\ \A u \in Threads \ {t} : thread'[u] = thread[u]
BY DEF Become

LEMMA StatesOfThreads ==
  /\ Idle \in ThreadStates /\ Idle.pc = "idle"
  /\ \A time \in Times : /\ [pc |-> "claim", now |-> time] \in ThreadStates
                         /\ [pc |-> "submit", now |-> time] \in ThreadStates
  /\ \A status \in Status, completion \in BOOLEAN :
       [pc |-> "time", current |-> status, completion |-> completion] \in ThreadStates
  /\ \A status \in Status, completion \in BOOLEAN, time \in Times :
       [pc |-> "ask", current |-> status, completion |-> completion, now |-> time]
         \in ThreadStates
  /\ \A event \in Events : /\ [pc |-> "compare", event |-> event] \in ThreadStates
                           /\ [pc |-> "load", event |-> event] \in ThreadStates
  /\ \A event \in Events, seen \in Rows, events \in Nat :
       [pc |-> "number", event |-> event, seen |-> seen, events |-> events] \in ThreadStates
  /\ \A event \in Events, seen \in Rows, events \in Nat, number \in Nat :
       [pc |-> "flush", event |-> event, seen |-> seen, events |-> events, number |-> number]
         \in ThreadStates
BY DEF ThreadStates, Idle

LEMMA LogLength ==
  ASSUME Typed
  PROVE  /\ Len(log) \in Nat /\ DOMAIN log = 1..Len(log)
         /\ Claimed <=> Len(log) > 0
         /\ \A event \in Events :
              /\ Append(log, event) \in Seq(Events) /\ Len(Append(log, event)) = Len(log) + 1
              /\ Append(log, event)[Len(log) + 1] = event
              /\ \A i \in 1..Len(log) : Append(log, event)[i] = log[i]
BY DEF Typed, Claimed

\* Steps that only move a thread.
LEMMA ThreadMoves ==
  ASSUME EventsInv, NEW t \in Threads, NEW state \in ThreadStates, Become(t, state),
         UNCHANGED <<row, log, clock, crossed>>,
         state.pc = "claim" => t = Submitter /\ ~Claimed,
         ~Claimed => state.pc \in {"idle", "claim"},
         state.pc \in {"number", "flush"} => /\ state.events <= Len(log)
                                             /\ state.events = Len(log) => state.seen = row,
         state.pc = "flush" => state.number \in state.events + 1 .. Len(log) + 1
  PROVE  EventsInv'
<1>1. /\ thread' \in [Threads -> ThreadStates]
      /\ thread'[t] = state
      /\ \A u \in Threads \ {t} : thread'[u] = thread[u]
  BY Becoming DEF EventsInv, Typed
<1>2. Typed'
  BY <1>1 DEF EventsInv, Typed
<1>3. ClaimComesFirst'
  BY <1>1 DEF EventsInv, ClaimComesFirst, Claimed
<1>4. SeenIsRow'
  BY <1>1 DEF EventsInv, SeenIsRow
<1>5. RowFollowsLog' /\ ManualCompletionIsMarked'
  BY DEF EventsInv, RowFollowsLog, ManualCompletionIsMarked, Claimed
<1> QED BY <1>2, <1>3, <1>4, <1>5 DEF EventsInv

\* A thread that does more than wait for its claim runs after the claim.
LEMMA ClaimedBefore ==
  ASSUME EventsInv, NEW t \in Threads, thread[t].pc \notin {"idle", "claim"}
  PROVE  Claimed
BY DEF EventsInv, ClaimComesFirst

\* To begin an append.
LEMMA BeginKeeps ==
  ASSUME EventsInv, Claimed, NEW t \in Threads, NEW event \in Events,
         \/ Begin(t, event) \/ Become(t, [pc |-> "compare", event |-> event])
         \/ Become(t, Idle),
         UNCHANGED <<row, log, clock, crossed>>
  PROVE  EventsInv'
<1>1. \E state \in ThreadStates : /\ Become(t, state)
                                  /\ state.pc \in {"load", "compare", "idle"}
  BY StatesOfThreads DEF Begin
<1> QED BY <1>1, ThreadMoves

LEMMA WithoutEvidenceIsStatus ==
  ASSUME NEW current \in Status, NEW late
  PROVE  WithoutEvidence(current, late) \in Status
BY DEF WithoutEvidence, Status, Unfinished, Terminal

------------------------------------------------------------------------------
(***************************************************************************)
(* append_download_event.                                                  *)
(***************************************************************************)

LEMMA ReadsKeep ==
  ASSUME EventsInv, NEW t \in Threads, Load(t) \/ ReadNumber(t) \/ FlushRefused(t)
  PROVE  EventsInv'
<1>1. CASE Load(t)
  <2> DEFINE state == [pc |-> "number", event |-> thread[t].event, seen |-> row,
                       events |-> Len(log)]
  <2>1. /\ thread[t].pc = "load" /\ Become(t, state)
        /\ UNCHANGED <<row, log, clock, crossed>>
    BY <1>1 DEF Load
  <2>2. thread[t].event \in Events /\ row \in Rows /\ Len(log) \in Nat
    BY <2>1, ThreadFields, LogLength DEF EventsInv, Typed
  <2>3. /\ state \in ThreadStates /\ state.pc = "number" /\ state.events = Len(log)
        /\ state.seen = row
    BY <2>2, StatesOfThreads
  <2> HIDE DEF state
  <2> QED BY <2>1, <2>2, <2>3, ThreadMoves, ClaimedBefore
<1>2. CASE ReadNumber(t)
  <2> DEFINE r == thread[t]
             state == [pc |-> "flush", event |-> r.event, seen |-> r.seen,
                       events |-> r.events, number |-> Len(log) + 1]
  <2>1. /\ thread[t].pc = "number" /\ Become(t, state)
        /\ UNCHANGED <<row, log, clock, crossed>>
    BY <1>2 DEF ReadNumber
  <2>2. r.event \in Events /\ r.seen \in Rows /\ r.events \in Nat /\ Len(log) \in Nat
    BY <2>1, ThreadFields, LogLength DEF EventsInv, Typed
  <2>3. r.events <= Len(log) /\ (r.events = Len(log) => r.seen = row)
    BY <2>1 DEF EventsInv, SeenIsRow
  <2>4. /\ state \in ThreadStates /\ state.pc = "flush" /\ state.events = r.events
        /\ state.seen = r.seen /\ state.number = Len(log) + 1
    BY <2>2, StatesOfThreads
  <2> HIDE DEF state, r
  <2> QED BY <2>1, <2>2, <2>3, <2>4, ThreadMoves, ClaimedBefore
<1>3. CASE FlushRefused(t)
  BY <1>3, ThreadMoves, StatesOfThreads, ClaimedBefore DEF FlushRefused
<1> QED BY <1>1, <1>2, <1>3

\* The row after a flush is a row, and it shows the event if the row was loaded
\* after the event that precedes it.
LEMMA WrittenRow ==
  ASSUME row \in Rows, NEW seen \in Rows, NEW event \in Events
  PROVE  /\ Written(seen, event) \in Rows
         /\ Written(seen, event).manual <=>
              row.manual \/ (event.source = "manual" /\ event.status = "completed")
         /\ Written(seen, event).completion <=> row.completion \/ Carries(event)
         /\ seen = row => /\ Written(seen, event).status = event.status
                          /\ Written(seen, event).updated = event.at
                          /\ Written(seen, event).error = event.error
<1>1. /\ event.status \in Status /\ event.at \in Times /\ event.error \in BOOLEAN
      /\ row.status \in Status /\ row.updated \in Times /\ row.error \in BOOLEAN
  BY DEF Rows, Events, Times
<1> DEFINE new == Written(seen, event)
<1>2. new = [status |-> new.status, updated |-> new.updated, error |-> new.error,
             manual |-> new.manual, completion |-> new.completion]
  BY DEF Written
<1>3. /\ new.status \in {event.status, row.status}
      /\ new.updated \in {event.at, row.updated}
      /\ new.error \in {event.error, row.error}
  BY DEF Written
<1>4. new.manual \in BOOLEAN /\ new.completion \in BOOLEAN
  BY DEF Written
<1>5. /\ new.manual <=> row.manual \/ (event.source = "manual" /\ event.status = "completed")
      /\ new.completion <=> row.completion \/ Carries(event)
  BY DEF Written
<1>6. seen = row => /\ new.status = event.status /\ new.updated = event.at
                    /\ new.error = event.error
  BY DEF Written
<1> HIDE DEF new
<1>7. new \in Rows
  BY <1>1, <1>2, <1>3, <1>4 DEF Rows
<1> QED BY <1>5, <1>6, <1>7 DEF new

LEMMA FlushKeeps ==
  ASSUME EventsInv, NEW t \in Threads, Flush(t)
  PROVE  EventsInv'
<1> DEFINE seen == thread[t].seen
           event == thread[t].event
<1>1. /\ thread[t].pc = "flush" /\ thread[t].number = Len(log) + 1
      /\ row' = Written(seen, event) /\ log' = Append(log, event)
      /\ crossed' = (thread[t].events # thread[t].number - 1)
      /\ Become(t, Idle) /\ clock' = clock
  BY DEF Flush, FreeNumber
<1>2. seen \in Rows /\ event \in Events /\ thread[t].events \in Nat
  BY <1>1, ThreadFields DEF EventsInv, Typed
<1>3. thread[t].events = Len(log) => seen = row
  BY <1>1 DEF EventsInv, SeenIsRow
<1> HIDE DEF seen, event
<1>4. /\ Len(log) \in Nat /\ DOMAIN log = 1..Len(log)
      /\ log' \in Seq(Events) /\ Len(log') = Len(log) + 1
      /\ log'[Len(log) + 1] = event
      /\ \A i \in 1..Len(log) : log'[i] = log[i]
  BY <1>1, <1>2, LogLength DEF EventsInv
<1>5. /\ row' \in Rows
      /\ row'.manual <=> row.manual \/ (event.source = "manual" /\ event.status = "completed")
      /\ seen = row => /\ row'.status = event.status /\ row'.updated = event.at
                       /\ row'.error = event.error
  BY <1>1, <1>2, WrittenRow DEF EventsInv, Typed
<1>6. /\ thread' \in [Threads -> ThreadStates]
      /\ thread'[t] = Idle
      /\ \A u \in Threads \ {t} : thread'[u] = thread[u]
  BY <1>1, Becoming, StatesOfThreads DEF EventsInv, Typed
<1>7. Typed'
  BY <1>1, <1>4, <1>5, <1>6 DEF EventsInv, Typed
<1>8. Claimed /\ Claimed'
  BY <1>1, <1>4, <1>7, LogLength, ClaimedBefore DEF Claimed
<1>9. ClaimComesFirst'
  BY <1>6, <1>8, StatesOfThreads DEF EventsInv, ClaimComesFirst
<1>10. SeenIsRow'
  <2>1. \A u \in Threads \ {t} : thread[u].pc \in {"number", "flush"} =>
          thread[u].events <= Len(log') /\ thread[u].events # Len(log')
    BY <1>4, ThreadFields DEF EventsInv, SeenIsRow, Typed
  <2>2. \A u \in Threads \ {t} : thread[u].pc = "flush" =>
          thread[u].number \in thread[u].events + 1 .. Len(log') + 1
    BY <1>4, ThreadFields DEF EventsInv, SeenIsRow, Typed
  <2>3. thread'[t].pc = "idle"
    BY <1>6, StatesOfThreads
  <2> QED BY <1>6, <2>1, <2>2, <2>3 DEF SeenIsRow
<1>11. RowFollowsLog'
  <2>1. SUFFICES ASSUME ~crossed'
                 PROVE  /\ row'.status = Last(log').status
                        /\ row'.updated = Last(log').at
                        /\ row'.error = Last(log').error
    BY DEF RowFollowsLog
  <2>2. thread[t].events = thread[t].number - 1
    BY <1>1, <2>1
  <2>3. thread[t].events = Len(log)
    BY <1>1, <1>4, <2>2
  <2>4. Last(log') = event
    BY <1>4 DEF Last
  <2> QED BY <1>3, <1>5, <2>3, <2>4
<1>12. ManualCompletionIsMarked'
  <2>1. DOMAIN log' = 1..(Len(log) + 1)
    BY <1>4
  <2>2. row.manual <=>
          \E i \in DOMAIN log : log[i].source = "manual" /\ log[i].status = "completed"
    BY DEF EventsInv, ManualCompletionIsMarked
  <2>3. (\E i \in DOMAIN log' : log'[i].source = "manual" /\ log'[i].status = "completed")
          <=> \/ \E i \in DOMAIN log : log[i].source = "manual" /\ log[i].status = "completed"
              \/ event.source = "manual" /\ event.status = "completed"
    BY <1>4, <2>1
  <2> QED BY <1>5, <2>2, <2>3 DEF ManualCompletionIsMarked
<1> QED BY <1>7, <1>9, <1>10, <1>11, <1>12 DEF EventsInv

------------------------------------------------------------------------------
(***************************************************************************)
(* The submission.                                                         *)
(***************************************************************************)

\* The log of a new claim has one event.
LEMMA ClaimKeeps ==
  ASSUME Assumptions, EventsInv, Claim
  PROVE  EventsInv'
<1> DEFINE event == Event("claim_created", "submitting", "system", clock)
           new == [status |-> "submitting", updated |-> clock, error |-> FALSE,
                   manual |-> FALSE, completion |-> FALSE]
           state == [thread[Submitter] EXCEPT !.pc = "submit"]
<1>1. /\ thread[Submitter].pc = "claim" /\ Submitter \in Threads
      /\ row' = new /\ log' = <<event>> /\ Become(Submitter, state)
      /\ UNCHANGED <<clock, crossed>>
  BY DEF Claim, Threads
<1>2. ~Claimed
  BY <1>1 DEF EventsInv, ClaimComesFirst
<1>3. state \in ThreadStates /\ state.pc = "submit"
  <2>1. thread[Submitter] \in [pc : {"claim", "submit"}, now : Times]
    BY <1>1 DEF EventsInv, Typed, ThreadStates, Idle
  <2>2. state \in [pc : {"claim", "submit"}, now : Times] /\ state.pc = "submit"
    BY <2>1
  <2> HIDE DEF state
  <2> QED BY <2>2 DEF ThreadStates
<1>4. clock \in Times
  BY DEF EventsInv, Typed
<1>5. /\ new \in Rows /\ new.status = "submitting" /\ new.updated = clock
      /\ new.error = FALSE /\ new.manual = FALSE
  BY <1>4 DEF Rows, Status, Unfinished
<1>6. /\ event \in Events /\ event.status = "submitting" /\ event.source = "system"
      /\ event.at = clock /\ event.error = FALSE
  <2>1. "claim_created" \in Kinds /\ "submitting" \in Status /\ "system" \in Sources
    BY DEF Kinds, Status, Unfinished, Sources
  <2>2. event.at = clock /\ ~event.error
    BY DEF Event, Errors
  <2> HIDE DEF event
  <2>3. event \in Events /\ event.status = "submitting" /\ event.source = "system"
    BY <1>4, <2>1, EventTyped DEF event
  <2>4. event.error \in BOOLEAN
    BY <2>3 DEF Events
  <2> QED BY <2>2, <2>3, <2>4
<1> HIDE DEF event, new, state
<1>7. /\ thread' \in [Threads -> ThreadStates]
      /\ thread'[Submitter] = state
      /\ \A u \in Threads \ {Submitter} : thread'[u] = thread[u]
  BY <1>1, <1>3, Becoming DEF EventsInv, Typed
<1>8. log' \in Seq(Events) /\ Len(log') = 1 /\ log'[1] = event /\ DOMAIN log' = {1}
  BY <1>1, <1>6
<1>9. Typed'
  BY <1>1, <1>5, <1>7, <1>8 DEF EventsInv, Typed
<1>10. Claimed'
  BY <1>8, <1>9 DEF Claimed
<1>11. \A u \in Threads \ {Submitter} : thread'[u].pc = "idle"
  BY <1>2, <1>7 DEF EventsInv, ClaimComesFirst
<1>12. ClaimComesFirst' /\ SeenIsRow'
  BY <1>3, <1>7, <1>10, <1>11 DEF ClaimComesFirst, SeenIsRow
<1>13. RowFollowsLog'
  <2>1. Last(log') = event
    BY <1>8 DEF Last
  <2> QED BY <1>1, <1>5, <1>6, <2>1 DEF RowFollowsLog
<1>14. ManualCompletionIsMarked'
  BY <1>1, <1>5, <1>6, <1>8 DEF ManualCompletionIsMarked
<1> QED BY <1>9, <1>12, <1>13, <1>14 DEF EventsInv

LEMMA SubmitKeeps ==
  ASSUME Assumptions, EventsInv, SubmitBegins \/ SubmitAnswers
  PROVE  EventsInv'
<1>1. CASE SubmitBegins
  <2> DEFINE state == [pc |-> "claim", now |-> clock]
  <2>1. /\ ~Claimed /\ Submitter \in Threads /\ Become(Submitter, state)
        /\ UNCHANGED <<row, log, clock, crossed>>
    BY <1>1 DEF SubmitBegins, Threads
  <2>2. state \in ThreadStates /\ state.pc = "claim"
    BY StatesOfThreads DEF EventsInv, Typed
  <2> HIDE DEF state
  <2> QED BY <2>1, <2>2, ThreadMoves
<1>2. CASE SubmitAnswers
  <2>1. PICK answer \in Answers :
          Begin(Submitter, Event(answer[1], answer[2], "system", thread[Submitter].now))
    BY <1>2 DEF SubmitAnswers
  <2>2. /\ thread[Submitter].pc = "submit" /\ Submitter \in Threads
        /\ UNCHANGED <<row, log, clock, crossed>>
    BY <1>2 DEF SubmitAnswers, Threads
  <2>3. answer[1] \in Kinds /\ answer[2] \in Status
    BY DEF Answers, Kinds, Errors, Status, Unfinished, Terminal
  <2>4. thread[Submitter].now \in Times
    BY <2>2, ThreadFields DEF EventsInv, Typed
  <2>5. Event(answer[1], answer[2], "system", thread[Submitter].now) \in Events
    BY <2>3, <2>4, EventTyped DEF Sources
  <2> QED BY <2>1, <2>2, <2>5, BeginKeeps, ClaimedBefore
<1> QED BY <1>1, <1>2

------------------------------------------------------------------------------
(***************************************************************************)
(* The poller and the user.                                                *)
(***************************************************************************)

LEMMA ReadsTaskKeeps ==
  ASSUME EventsInv, NEW t \in Threads, ReadsTask(t) \/ (t = Poller /\ PollAsks)
  PROVE  EventsInv'
<1>1. /\ Claimed /\ UNCHANGED <<row, log, clock, crossed>>
  BY ClaimedBefore DEF ReadsTask, PollAsks
<1>2. \E state \in ThreadStates : Become(t, state) /\ state.pc \in {"time", "ask"}
  <2>1. CASE ReadsTask(t)
    <3>1. row.status \in Status /\ row.completion \in BOOLEAN
      BY DEF EventsInv, Typed, Rows
    <3> QED BY <2>1, <3>1, StatesOfThreads DEF ReadsTask
  <2>2. CASE t = Poller /\ PollAsks
    <3>1. /\ thread[t].current \in Status /\ thread[t].completion \in BOOLEAN
          /\ clock \in Times
      BY <2>2, ThreadFields DEF PollAsks, EventsInv, Typed
    <3> QED BY <2>2, <3>1, StatesOfThreads DEF PollAsks
  <2> QED BY <2>1, <2>2
<1> QED BY <1>1, <1>2, ThreadMoves

LEMMA ManualKeeps ==
  ASSUME Assumptions, EventsInv, ManualComplete
  PROVE  EventsInv'
<1>1. /\ thread[User].pc = "time" /\ User \in Threads
      /\ UNCHANGED <<row, log, clock, crossed>>
      /\ \/ Begin(User, Event("manual_confirmation", "completed", "manual", clock))
         \/ Become(User, Idle)
  BY DEF ManualComplete, Threads
<1>2. Event("manual_confirmation", "completed", "manual", clock) \in Events
  BY EventTyped DEF EventsInv, Typed, Kinds, Errors, Status, Terminal, Sources
<1> QED BY <1>1, <1>2, BeginKeeps, ClaimedBefore

\* What Appends appends, if it appends.
LEMMA AppendsEvent ==
  ASSUME Assumptions, EventsInv, thread[Poller].pc = "ask", NEW kind \in Kinds,
         NEW target \in Status, Appends(kind, target)
  PROVE  LET event == Event(kind, target, "system", thread[Poller].now)
         IN  event \in Events /\ (Begin(Poller, event) \/ Become(Poller, Idle))
<1>1. Poller \in Threads
  BY DEF Threads
<1>2. thread[Poller].now \in Times
  BY <1>1, ThreadFields DEF EventsInv, Typed
<1>3. Event(kind, target, "system", thread[Poller].now) \in Events
  BY <1>2, EventTyped DEF Sources
<1> QED BY <1>3 DEF Appends

LEMMA PollerAsks ==
  ASSUME PollGetsSignal \/ PollFails \/ PollWithoutBaseline \/ PollObserves
  PROVE  thread[Poller].pc = "ask"
<1>1. PollGetsSignal => thread[Poller].pc = "ask"
  BY DEF PollGetsSignal
<1>2. PollFails => thread[Poller].pc = "ask"
  BY DEF PollFails
<1>3. PollWithoutBaseline => thread[Poller].pc = "ask"
  BY DEF PollWithoutBaseline
<1>4. PollObserves => thread[Poller].pc = "ask"
  BY DEF PollObserves
<1> QED BY <1>1, <1>2, <1>3, <1>4

\* The events that the poller does not compare with the last one.
LEMMA PollAppendsOther ==
  ASSUME Assumptions, EventsInv, thread[Poller].pc = "ask",
         \/ PollGetsSignal \/ PollFails \/ PollWithoutBaseline
         \/ Appends("stable_files_completed", "completed")
         \/ Appends("file_changes_observed", "downloading")
  PROVE  \E kind \in Kinds \ {"no_reliable_progress"}, target \in Status :
           /\ Appends(kind, target)
           /\ kind = "completion_baseline_unavailable" => PollWithoutBaseline
<1> DEFINE current == thread[Poller].current
           inits == IF current = "submitting" THEN "submitted" ELSE current
<1>1. Poller \in Threads
  BY DEF Threads
<1>2. current \in Status /\ Target \in Status
  BY <1>1, ThreadFields, WithoutEvidenceIsStatus DEF EventsInv, Typed, Target
<1>3. {"task_api", "poll_error", "completion_baseline_unavailable", "stable_files_completed",
       "file_changes_observed"} \subseteq Kinds \ {"no_reliable_progress"}
  BY DEF Kinds, Errors, FileKinds
<1>4. {"completed", "failed", "downloading", inits} \subseteq Status
  BY <1>2 DEF Status, Unfinished, Terminal
<1>5. CASE PollGetsSignal
  <2>1. PICK target \in {"completed", "failed", "downloading", inits} :
          Appends("task_api", target)
    BY <1>5 DEF PollGetsSignal
  <2> QED BY <1>3, <1>4, <2>1
<1>6. CASE PollFails
  BY <1>2, <1>3, <1>6 DEF PollFails
<1>7. CASE PollWithoutBaseline
  <2>1. Appends("completion_baseline_unavailable", Target)
    BY <1>7 DEF PollWithoutBaseline
  <2> QED BY <1>2, <1>3, <1>7, <2>1
<1>8. CASE \/ Appends("stable_files_completed", "completed")
           \/ Appends("file_changes_observed", "downloading")
  BY <1>3, <1>4, <1>8
<1> QED BY <1>5, <1>6, <1>7, <1>8

\* The observation that the poller is to compare with the last event.
Observes(event) ==
  /\ event \in Events /\ event.kind = "no_reliable_progress" /\ event.source = "system"
  /\ Become(Poller, [pc |-> "compare", event |-> event])

LEMMA PollObservation ==
  ASSUME Assumptions, EventsInv, PollObserves
  PROVE  \/ Appends("stable_files_completed", "completed")
         \/ Appends("file_changes_observed", "downloading")
         \/ \E event : Observes(event)
<1> DEFINE event == Event("no_reliable_progress", Target, "system", thread[Poller].now)
<1>1. Poller \in Threads /\ thread[Poller].pc = "ask"
  BY DEF Threads, PollObserves
<1>2. thread[Poller].now \in Times /\ Target \in Status
  BY <1>1, ThreadFields, WithoutEvidenceIsStatus DEF EventsInv, Typed, Target
<1>3. event \in Events /\ Changed(event) \in Events
  BY <1>2, EventTyped DEF Kinds, FileKinds, Sources
<1>4. /\ event.kind = "no_reliable_progress" /\ event.source = "system"
      /\ Changed(event).kind = "no_reliable_progress" /\ Changed(event).source = "system"
  BY EventKind
<1> HIDE DEF event
<1>5. ASSUME NEW observed \in {event, Changed(event)},
             Become(Poller, [pc |-> "compare", event |-> observed])
      PROVE  Observes(observed)
  BY <1>3, <1>4, <1>5 DEF Observes
<1>6. \/ Appends("stable_files_completed", "completed")
      \/ Appends("file_changes_observed", "downloading")
      \/ \E observed \in {event, Changed(event)} :
           Become(Poller, [pc |-> "compare", event |-> observed])
  BY DEF PollObserves, event
<1> QED BY <1>5, <1>6

LEMMA PollAnswered ==
  ASSUME Assumptions, EventsInv,
         \/ PollGetsSignal \/ PollFails \/ PollWithoutBaseline \/ PollObserves
         \/ PollCompares
  PROVE  EventsInv'
<1>1. /\ thread[Poller].pc \in {"ask", "compare"} /\ Poller \in Threads
      /\ UNCHANGED <<row, log, clock, crossed>>
  BY DEF PollGetsSignal, PollFails, PollWithoutBaseline, PollObserves, PollCompares, Threads
<1>2. \E event \in Events : \/ Begin(Poller, event)
                            \/ Become(Poller, [pc |-> "compare", event |-> event])
                            \/ Become(Poller, Idle)
  <2>1. CASE \/ PollGetsSignal \/ PollFails \/ PollWithoutBaseline
             \/ PollObserves /\ \/ Appends("stable_files_completed", "completed")
                                \/ Appends("file_changes_observed", "downloading")
    <3>1. thread[Poller].pc = "ask"
      BY <2>1, PollerAsks
    <3>2. PICK kind \in Kinds, target \in Status : Appends(kind, target)
      BY <2>1, <3>1, PollAppendsOther
    <3> QED BY <3>1, <3>2, AppendsEvent
  <2>2. CASE \E event : Observes(event)
    BY <2>2 DEF Observes
  <2>3. CASE PollCompares
    <3>1. thread[Poller].event \in Events
      BY <1>1, <2>3, ThreadFields DEF PollCompares, EventsInv, Typed
    <3> QED BY <2>3, <3>1 DEF PollCompares
  <2> QED BY <2>1, <2>2, <2>3, PollObservation
<1> QED BY <1>1, <1>2, BeginKeeps, ClaimedBefore

------------------------------------------------------------------------------
(***************************************************************************)
(* Every step keeps the invariant.                                         *)
(***************************************************************************)

LEMMA InitEvents == ASSUME Assumptions, Init PROVE EventsInv
<1>1. 0 \in Times
  BY DEF Times, Assumptions, BoundsAssumption
<1>2. row \in Rows /\ row.manual = FALSE
  BY <1>1 DEF Init, Rows, Status, Unfinished
<1>3. thread \in [Threads -> ThreadStates] /\ \A t \in Threads : thread[t].pc = "idle"
  BY StatesOfThreads DEF Init
<1>4. log = <<>> /\ clock = 0 /\ crossed = FALSE
  BY DEF Init
<1>5. Typed
  <2>1. log \in Seq(Events)
    BY <1>4
  <2>2. clock \in Times
    BY <1>1, <1>4
  <2>3. crossed \in BOOLEAN
    BY <1>4
  <2> QED BY <1>2, <1>3, <2>1, <2>2, <2>3 DEF Typed
<1> QED
  BY <1>2, <1>3, <1>4, <1>5
  DEF EventsInv, ClaimComesFirst, SeenIsRow, RowFollowsLog, ManualCompletionIsMarked, Claimed

LEMMA NextEvents ==
  ASSUME Assumptions, EventsInv, [Next]_vars
  PROVE  EventsInv'
<1>1. CASE Submit
  BY <1>1, ClaimKeeps, SubmitKeeps DEF Submit
<1>2. CASE Poll
  <2>1. Poller \in Threads
    BY DEF Threads
  <2> QED BY <1>2, <2>1, ReadsTaskKeeps, PollAnswered DEF Poll
<1>3. CASE ManualComplete
  BY <1>3, ManualKeeps
<1>4. CASE \E t \in Threads : AppendEvent(t) \/ ReadsTask(t)
  BY <1>4, ReadsKeep, FlushKeeps, ReadsTaskKeeps DEF AppendEvent
<1>5. CASE Tick \/ UNCHANGED vars
  <2>1. clock' \in Times /\ UNCHANGED <<row, log, thread, crossed>>
    BY <1>5 DEF Tick, vars, EventsInv, Typed, Times, Assumptions, BoundsAssumption
  <2>2. Typed'
    BY <2>1 DEF EventsInv, Typed
  <2> QED
    BY <2>1, <2>2 DEF EventsInv, ClaimComesFirst, SeenIsRow, RowFollowsLog,
                      ManualCompletionIsMarked, Claimed
<1> QED BY <1>1, <1>2, <1>3, <1>4, <1>5 DEF Next

------------------------------------------------------------------------------
(***************************************************************************)
(* A task that stands still.                                               *)
(***************************************************************************)

Standstill(event) == event.kind = "no_reliable_progress"

\* An observation without progress says more than the observation before it.
NothingRepeats ==
  \A i \in 2..Len(log) :
    log[i].kind = "no_reliable_progress" /\ log[i - 1].kind = "no_reliable_progress" =>
      log[i].changed \/ log[i].status # log[i - 1].status

\* Only the poller observes a standstill; what it is about to append does not
\* repeat the last event, and nobody else appends an event of this kind.
StandstillInv ==
  /\ \A i \in 1..Len(log) : Standstill(log[i]) => log[i].source = "system"
  /\ \A t \in Threads :
       /\ thread[t].pc \in {"compare", "load", "number", "flush"} /\ Standstill(thread[t].event)
            => t = Poller /\ thread[t].event.source = "system"
       /\ thread[t].pc \in {"load", "number", "flush"} /\ Standstill(thread[t].event)
            => ~Repeats(thread[t].event)
  /\ NothingRepeats

\* A thread that moves and leaves the log alone.
LEMMA StandstillStays ==
  ASSUME EventsInv, StandstillInv, NEW t \in Threads, NEW state \in ThreadStates,
         Become(t, state), log' = log,
         state.pc \in {"compare", "load", "number", "flush"} /\ Standstill(state.event)
           => t = Poller /\ state.event.source = "system",
         state.pc \in {"load", "number", "flush"} /\ Standstill(state.event)
           => ~Repeats(state.event)
  PROVE  StandstillInv'
<1>1. thread'[t] = state /\ \A u \in Threads \ {t} : thread'[u] = thread[u]
  BY Becoming DEF EventsInv, Typed
<1>2. \A event : Repeats(event)' <=> Repeats(event)
  BY DEF Repeats
<1>3. \A u \in Threads :
        /\ thread'[u].pc \in {"compare", "load", "number", "flush"} /\ Standstill(thread'[u].event)
             => u = Poller /\ thread'[u].event.source = "system"
        /\ thread'[u].pc \in {"load", "number", "flush"} /\ Standstill(thread'[u].event)
             => ~Repeats(thread'[u].event)
  BY <1>1 DEF StandstillInv
<1>4. NothingRepeats'
  BY DEF StandstillInv, NothingRepeats
<1>5. \A i \in 1..Len(log') : Standstill(log'[i]) => log'[i].source = "system"
  BY DEF StandstillInv
<1> QED BY <1>2, <1>3, <1>4, <1>5 DEF StandstillInv, Repeats, Standstill

\* An append that has begun goes on with its event; it may end at any step.
LEMMA StandstillKept ==
  ASSUME EventsInv, StandstillInv, NEW t \in Threads, NEW state \in ThreadStates,
         Become(t, state), log' = log,
         \/ state.pc \notin {"compare", "load", "number", "flush"}
         \/ /\ thread[t].pc \in {"load", "number", "flush"}
            /\ state.event = thread[t].event
         \/ ~Standstill(state.event)
  PROVE  StandstillInv'
<1>1. CASE state.pc \notin {"compare", "load", "number", "flush"}
  BY <1>1, StandstillStays
<1>2. CASE thread[t].pc \in {"load", "number", "flush"} /\ state.event = thread[t].event
  BY <1>2, StandstillStays DEF StandstillInv
<1>3. CASE ~Standstill(state.event)
  BY <1>3, StandstillStays
<1> QED BY <1>1, <1>2, <1>3

\* To begin an append of another kind, or to append nothing.
LEMMA StandstillOther ==
  ASSUME EventsInv, StandstillInv, NEW t \in Threads, log' = log,
         NEW kind \in Kinds \ {"no_reliable_progress"}, NEW status, NEW source, NEW at,
         Event(kind, status, source, at) \in Events,
         Begin(t, Event(kind, status, source, at)) \/ Become(t, Idle)
  PROVE  StandstillInv'
<1> DEFINE event == Event(kind, status, source, at)
           state == [pc |-> "load", event |-> event]
<1>1. ~Standstill(event)
  BY EventKind DEF Standstill
<1>2. event \in Events /\ (Begin(t, event) => Become(t, state))
  BY DEF Begin
<1> HIDE DEF event
<1>3. state \in ThreadStates /\ state.event = event
  BY <1>2, StatesOfThreads
<1>4. Become(t, state) \/ Become(t, Idle)
  BY <1>2 DEF event
<1> HIDE DEF state
<1>5. CASE Become(t, state)
  BY <1>1, <1>3, <1>5, StandstillKept
<1>6. CASE Become(t, Idle)
  BY <1>6, StatesOfThreads, StandstillKept
<1> QED BY <1>4, <1>5, <1>6

LEMMA StandstillFlush ==
  ASSUME EventsInv, StandstillInv, NEW t \in Threads, Flush(t)
  PROVE  StandstillInv'
<1> DEFINE event == thread[t].event
<1>1. thread[t].pc = "flush" /\ log' = Append(log, event) /\ Become(t, Idle)
  BY DEF Flush
<1>2. event \in Events /\ Claimed
  BY <1>1, ThreadFields, ClaimedBefore DEF EventsInv, Typed
<1>3. /\ Standstill(event) => t = Poller /\ event.source = "system" /\ ~Repeats(event)
  BY <1>1 DEF StandstillInv
<1>4. \A u \in Threads \ {t} :
        thread[u].pc \in {"load", "number", "flush"} /\ Standstill(thread[u].event) =>
          ~Standstill(event)
  BY <1>3 DEF StandstillInv
<1> HIDE DEF event
<1>5. /\ Len(log) \in Nat /\ Len(log) > 0 /\ DOMAIN log = 1..Len(log)
      /\ log' \in Seq(Events) /\ Len(log') = Len(log) + 1 /\ log'[Len(log) + 1] = event
      /\ \A i \in 1..Len(log) : log'[i] = log[i]
  BY <1>1, <1>2, LogLength DEF EventsInv
<1>6. Last(log) = log[Len(log)] /\ Last(log') = event
  BY <1>5 DEF Last
<1>7. thread'[t] = Idle /\ \A u \in Threads \ {t} : thread'[u] = thread[u]
  BY <1>1, Becoming, StatesOfThreads DEF EventsInv, Typed
<1>8. \A i \in 1..Len(log') : Standstill(log'[i]) => log'[i].source = "system"
  BY <1>3, <1>5 DEF StandstillInv
<1>9. \A u \in Threads :
        /\ thread'[u].pc \in {"compare", "load", "number", "flush"} /\ Standstill(thread'[u].event)
             => u = Poller /\ thread'[u].event.source = "system"
        /\ thread'[u].pc \in {"load", "number", "flush"} /\ Standstill(thread'[u].event)
             => Last(log').kind # thread'[u].event.kind
  <2>1. ASSUME NEW u \in Threads \ {t},
               thread[u].pc \in {"load", "number", "flush"}, Standstill(thread[u].event)
        PROVE  Last(log').kind # thread[u].event.kind
    BY <1>4, <1>6, <2>1 DEF Standstill
  <2>2. thread'[t].pc = "idle"
    BY <1>7, StatesOfThreads
  <2> QED BY <1>7, <2>1, <2>2 DEF StandstillInv
<1>10. NothingRepeats'
  <2>1. SUFFICES ASSUME NEW i \in 2..Len(log'), Standstill(log'[i]), Standstill(log'[i - 1])
                 PROVE  log'[i].changed \/ log'[i].status # log'[i - 1].status
    BY DEF NothingRepeats, Standstill
  <2>2. CASE i <= Len(log)
    <3>1. log'[i] = log[i] /\ log'[i - 1] = log[i - 1] /\ i \in 2..Len(log)
      BY <1>5, <2>2
    <3> QED BY <2>1, <3>1 DEF StandstillInv, NothingRepeats, Standstill
  <2>3. CASE i = Len(log) + 1
    <3>1. log'[i] = event /\ log'[i - 1] = Last(log) /\ Len(log) \in 1..Len(log)
      BY <1>5, <1>6, <2>3
    <3>2. Last(log).source = "system"
      BY <1>6, <2>1, <3>1 DEF StandstillInv
    <3>3. ~Repeats(event) /\ event.changed \in BOOLEAN
      BY <1>2, <1>3, <2>1, <3>1 DEF Events
    <3> QED BY <2>1, <3>1, <3>2, <3>3 DEF Repeats, Standstill
  <2> QED BY <1>5, <2>2, <2>3
<1> QED BY <1>8, <1>9, <1>10 DEF StandstillInv, Repeats, Standstill

\* The observation that the poller compares.
LEMMA StandstillPoll ==
  ASSUME Assumptions, EventsInv, StandstillInv, Poll
  PROVE  StandstillInv'
<1>1. Poller \in Threads /\ log' = log
  BY DEF Threads, Poll, PollAsks, PollGetsSignal, PollFails, PollWithoutBaseline,
         PollObserves, PollCompares
<1>2. CASE PollAsks
  <2>1. /\ thread[Poller].current \in Status /\ thread[Poller].completion \in BOOLEAN
        /\ clock \in Times
    BY <1>1, <1>2, ThreadFields DEF PollAsks, EventsInv, Typed
  <2> QED BY <1>1, <1>2, <2>1, StatesOfThreads, StandstillKept DEF PollAsks
<1>3. CASE \/ PollGetsSignal \/ PollFails \/ PollWithoutBaseline
           \/ PollObserves /\ \/ Appends("stable_files_completed", "completed")
                              \/ Appends("file_changes_observed", "downloading")
  <2>1. thread[Poller].pc = "ask"
    BY <1>3, PollerAsks
  <2>2. PICK kind \in Kinds \ {"no_reliable_progress"}, target \in Status :
          Appends(kind, target)
    BY <1>3, <2>1, PollAppendsOther
  <2> QED BY <1>1, <2>1, <2>2, AppendsEvent, StandstillOther
<1>4. CASE \E event : Observes(event)
  <2>1. PICK event : Observes(event)
    BY <1>4
  <2> DEFINE state == [pc |-> "compare", event |-> event]
  <2>2. event \in Events /\ event.source = "system" /\ Become(Poller, state)
    BY <2>1 DEF Observes
  <2>3. state \in ThreadStates /\ state.pc = "compare" /\ state.event = event
    BY <2>2, StatesOfThreads
  <2> HIDE DEF state
  <2> QED BY <1>1, <2>2, <2>3, StandstillStays
<1>5. CASE PollCompares
  <2> DEFINE event == thread[Poller].event
             state == [pc |-> "load", event |-> event]
  <2>1. thread[Poller].pc = "compare" /\ event \in Events
    BY <1>1, <1>5, ThreadFields DEF PollCompares, EventsInv, Typed
  <2>2. Standstill(event) => event.source = "system"
    BY <1>1, <2>1 DEF StandstillInv
  <2>3. CASE Repeats(event)
    BY <1>1, <1>5, <2>3, StatesOfThreads, StandstillKept DEF PollCompares
  <2>4. CASE ~Repeats(event)
    <3>1. Become(Poller, state)
      BY <1>5, <2>4 DEF PollCompares, Begin
    <3>2. state \in ThreadStates /\ state.event = event
      BY <2>1, StatesOfThreads
    <3> HIDE DEF state
    <3> QED BY <1>1, <2>2, <2>4, <3>1, <3>2, StandstillStays
  <2> QED BY <2>3, <2>4
<1> QED BY <1>2, <1>3, <1>4, <1>5, PollObservation DEF Poll

LEMMA StandstillSubmit ==
  ASSUME Assumptions, EventsInv, StandstillInv, Submit
  PROVE  StandstillInv'
<1>1. Submitter \in Threads
  BY DEF Threads
<1>2. CASE SubmitBegins
  <2>1. clock \in Times
    BY DEF EventsInv, Typed
  <2> QED BY <1>1, <1>2, <2>1, StatesOfThreads, StandstillKept DEF SubmitBegins
<1>3. CASE SubmitAnswers
  <2>1. PICK answer \in Answers :
          Begin(Submitter, Event(answer[1], answer[2], "system", thread[Submitter].now))
    BY <1>3 DEF SubmitAnswers
  <2>2. thread[Submitter].now \in Times /\ log' = log
    BY <1>1, <1>3, ThreadFields DEF SubmitAnswers, EventsInv, Typed
  <2>3. /\ answer[1] \in Kinds /\ answer[2] \in Status
        /\ answer[1] # "no_reliable_progress"
    BY DEF Answers, Kinds, Errors, Status, Unfinished, Terminal
  <2>4. Event(answer[1], answer[2], "system", thread[Submitter].now) \in Events
    BY <2>2, <2>3, EventTyped DEF Sources
  <2> QED BY <1>1, <2>1, <2>2, <2>3, <2>4, StandstillOther
<1>4. CASE Claim
  <2> DEFINE event == Event("claim_created", "submitting", "system", clock)
  <2>1. /\ thread[Submitter].pc = "claim" /\ log' = <<event>>
        /\ Become(Submitter, [thread[Submitter] EXCEPT !.pc = "submit"])
    BY <1>4 DEF Claim
  <2>2. ~Standstill(event)
    BY EventKind DEF Standstill
  <2> HIDE DEF event
  <2>3. Len(log') = 1 /\ log'[1] = event
    BY <2>1
  <2>4. \A u \in Threads : thread'[u].pc \in {"idle", "claim", "submit"}
    <3>1. ~Claimed
      BY <1>1, <2>1 DEF EventsInv, ClaimComesFirst
    <3>2. \A u \in Threads : thread[u].pc \in {"idle", "claim"}
      BY <3>1 DEF EventsInv, ClaimComesFirst
    <3>3. /\ \A u \in Threads \ {Submitter} : thread'[u] = thread[u]
          /\ thread'[Submitter] = [thread[Submitter] EXCEPT !.pc = "submit"]
      BY <1>1, <2>1 DEF Become, EventsInv, Typed
    <3>4. thread[Submitter] \in [pc : {"claim", "submit"}, now : Times]
      BY <1>1, <2>1 DEF EventsInv, Typed, ThreadStates, Idle
    <3>5. thread'[Submitter].pc = "submit"
      BY <3>3, <3>4
    <3> QED BY <3>2, <3>3, <3>5
  <2> QED BY <2>2, <2>3, <2>4 DEF StandstillInv, NothingRepeats, Standstill
<1> QED BY <1>2, <1>3, <1>4 DEF Submit

LEMMA NextStandstill ==
  ASSUME Assumptions, EventsInv, StandstillInv, [Next]_vars
  PROVE  StandstillInv'
<1>1. CASE Submit
  BY <1>1, StandstillSubmit
<1>2. CASE Poll
  BY <1>2, StandstillPoll
<1>3. CASE ManualComplete
  <2>1. /\ thread[User].pc = "time" /\ User \in Threads /\ log' = log
        /\ \/ Begin(User, Event("manual_confirmation", "completed", "manual", clock))
           \/ Become(User, Idle)
    BY <1>3 DEF ManualComplete, Threads
  <2>2. Event("manual_confirmation", "completed", "manual", clock) \in Events
    BY EventTyped DEF EventsInv, Typed, Kinds, Errors, Status, Terminal, Sources
  <2> QED BY <2>1, <2>2, StandstillOther DEF Kinds
<1>4. ASSUME NEW t \in Threads, AppendEvent(t)
      PROVE  StandstillInv'
  <2>1. CASE Flush(t)
    BY <2>1, StandstillFlush
  <2>2. CASE FlushRefused(t)
    BY <2>2, StatesOfThreads, StandstillKept DEF FlushRefused
  <2>3. CASE Load(t)
    <3> DEFINE state == [pc |-> "number", event |-> thread[t].event, seen |-> row,
                         events |-> Len(log)]
    <3>1. thread[t].pc = "load" /\ Become(t, state) /\ log' = log
      BY <2>3 DEF Load
    <3>2. thread[t].event \in Events /\ row \in Rows /\ Len(log) \in Nat
      BY <3>1, ThreadFields, LogLength DEF EventsInv, Typed
    <3>3. state \in ThreadStates /\ state.event = thread[t].event
      BY <3>2, StatesOfThreads
    <3> HIDE DEF state
    <3> QED BY <3>1, <3>3, StandstillKept
  <2>4. CASE ReadNumber(t)
    <3> DEFINE r == thread[t]
               state == [pc |-> "flush", event |-> r.event, seen |-> r.seen,
                         events |-> r.events, number |-> Len(log) + 1]
    <3>1. thread[t].pc = "number" /\ Become(t, state) /\ log' = log
      BY <2>4 DEF ReadNumber
    <3>2. /\ r.event \in Events /\ r.seen \in Rows /\ r.events \in Nat
          /\ Len(log) + 1 \in Nat
      BY <3>1, ThreadFields, LogLength DEF EventsInv, Typed
    <3>3. state \in ThreadStates /\ state.event = thread[t].event
      BY <3>2, StatesOfThreads
    <3> HIDE DEF state
    <3> QED BY <3>1, <3>3, StandstillKept
  <2> QED BY <1>4, <2>1, <2>2, <2>3, <2>4 DEF AppendEvent
<1>5. ASSUME NEW t \in Threads, ReadsTask(t)
      PROVE  StandstillInv'
  <2>1. row.status \in Status /\ row.completion \in BOOLEAN
    BY DEF EventsInv, Typed, Rows
  <2> QED BY <1>5, <2>1, StatesOfThreads, StandstillKept DEF ReadsTask
<1>6. CASE Tick \/ UNCHANGED vars
  BY <1>6 DEF Tick, vars, StandstillInv, NothingRepeats, Repeats, Standstill
<1> QED BY <1>1, <1>2, <1>3, <1>4, <1>5, <1>6 DEF Next

------------------------------------------------------------------------------
(***************************************************************************)
(* A task whose files have been compared once.                             *)
(***************************************************************************)

Unavailable(event) == event.kind = "completion_baseline_unavailable"
NeverCompared == \A i \in 1..Len(log) : ~Standstill(log[i])

\* Nobody says that there is no baseline after the files have been compared.
BaselineStays ==
  \A i, j \in 1..Len(log) : i < j /\ Standstill(log[i]) => ~Unavailable(log[j])

\* Files are compared with the completion_state of the row, which no event takes
\* away: a poller that has read a row without one, and the event it is about to
\* append, come before the first comparison.
BaselineInv ==
  /\ row.completion \/ NeverCompared
  /\ \A t \in Threads : thread[t].pc = "compare" => Standstill(thread[t].event)
  /\ \A t \in Threads :
       thread[t].pc \in {"load", "number", "flush"} /\ Unavailable(thread[t].event) =>
         t = Poller /\ NeverCompared
  /\ thread[Poller].pc \in {"time", "ask"} =>
       thread[Poller].completion \/ NeverCompared
  /\ BaselineStays

\* A thread that moves and leaves the row and the log alone.
LEMMA BaselineKept ==
  ASSUME Assumptions, EventsInv, BaselineInv, NEW t \in Threads, NEW state \in ThreadStates,
         Become(t, state), UNCHANGED <<row, log>>,
         state.pc \in {"load", "number", "flush"} /\ Unavailable(state.event) =>
           t = Poller /\ NeverCompared,
         state.pc = "compare" => Standstill(state.event),
         t = Poller /\ state.pc \in {"time", "ask"} => state.completion \/ NeverCompared
  PROVE  BaselineInv'
<1>1. thread'[t] = state /\ \A u \in Threads \ {t} : thread'[u] = thread[u]
  BY Becoming DEF EventsInv, Typed
<1>2. NeverCompared' <=> NeverCompared
  BY DEF NeverCompared
<1>3. BaselineStays'
  BY DEF BaselineInv, BaselineStays
<1>4. \A u \in Threads :
        thread'[u].pc \in {"load", "number", "flush"} /\ Unavailable(thread'[u].event) =>
          u = Poller /\ NeverCompared
  BY <1>1 DEF BaselineInv
<1>5. \A u \in Threads : thread'[u].pc = "compare" => Standstill(thread'[u].event)
  BY <1>1 DEF BaselineInv
<1>6. Poller \in Threads
  BY DEF Threads
<1>7. thread'[Poller].pc \in {"time", "ask"} => thread'[Poller].completion \/ NeverCompared
  BY <1>1, <1>6 DEF BaselineInv
<1> QED BY <1>2, <1>3, <1>4, <1>7, <1>5 DEF BaselineInv, Unavailable, Standstill

\* An append that has begun goes on with its event; it may end at any step.
LEMMA BaselineGoesOn ==
  ASSUME Assumptions, EventsInv, BaselineInv, NEW t \in Threads, NEW state \in ThreadStates,
         Become(t, state), UNCHANGED <<row, log>>, state.pc \notin {"time", "ask", "compare"},
         state.pc \in {"load", "number", "flush"} =>
           \/ /\ thread[t].pc \in {"load", "number", "flush"}
              /\ state.event = thread[t].event
           \/ ~Unavailable(state.event)
  PROVE  BaselineInv'
<1>1. state.pc \in {"load", "number", "flush"} /\ Unavailable(state.event) =>
        t = Poller /\ NeverCompared
  BY DEF BaselineInv
<1> QED BY <1>1, BaselineKept

LEMMA BaselineOther ==
  ASSUME Assumptions, EventsInv, BaselineInv, NEW t \in Threads, UNCHANGED <<row, log>>,
         NEW event \in Events,
         Unavailable(event) => t = Poller /\ NeverCompared,
         Begin(t, event) \/ Become(t, Idle)
  PROVE  BaselineInv'
<1>1. CASE Become(t, Idle)
  BY <1>1, StatesOfThreads, BaselineGoesOn
<1>2. CASE Begin(t, event)
  <2>1. PICK state \in ThreadStates : /\ Become(t, state) /\ state.event = event
                                      /\ state.pc = "load"
    BY <1>2, StatesOfThreads DEF Begin
  <2> QED BY <2>1, BaselineKept
<1> QED BY <1>1, <1>2

LEMMA BaselineFlush ==
  ASSUME Assumptions, EventsInv, StandstillInv, BaselineInv, NEW t \in Threads, Flush(t)
  PROVE  BaselineInv'
<1> DEFINE event == thread[t].event
           seen == thread[t].seen
<1>1. /\ thread[t].pc = "flush" /\ log' = Append(log, event) /\ Become(t, Idle)
      /\ row' = Written(seen, event)
  BY DEF Flush
<1>2. event \in Events /\ seen \in Rows
  BY <1>1, ThreadFields DEF EventsInv, Typed
<1>3. /\ Standstill(event) => t = Poller
      /\ Unavailable(event) => t = Poller /\ NeverCompared
  BY <1>1 DEF StandstillInv, BaselineInv
<1> HIDE DEF event, seen
<1>4. /\ Len(log) \in Nat /\ Len(log') = Len(log) + 1 /\ log'[Len(log) + 1] = event
      /\ \A i \in 1..Len(log) : log'[i] = log[i]
  BY <1>1, <1>2, LogLength DEF EventsInv
<1>5. thread'[t] = Idle /\ \A u \in Threads \ {t} : thread'[u] = thread[u]
  BY <1>1, Becoming, StatesOfThreads DEF EventsInv, Typed
<1>6. row'.completion <=> row.completion \/ Carries(event)
  BY <1>1, <1>2, WrittenRow DEF EventsInv, Typed
<1>7. NeverCompared' <=> NeverCompared /\ ~Standstill(event)
  BY <1>4 DEF NeverCompared, Standstill
<1>8. Standstill(event) => Carries(event)
  BY DEF Standstill, Carries, FileKinds
<1>9. row'.completion \/ NeverCompared'
  BY <1>6, <1>7, <1>8 DEF BaselineInv
<1>10. thread'[t].pc = "idle" /\ Poller \in Threads
  BY <1>5, StatesOfThreads DEF Threads
<1>11. \A u \in Threads :
         thread'[u].pc \in {"load", "number", "flush"} /\ Unavailable(thread'[u].event) =>
           u = Poller /\ NeverCompared'
  BY <1>3, <1>5, <1>7, <1>10 DEF BaselineInv
<1>12. \A u \in Threads : thread'[u].pc = "compare" => Standstill(thread'[u].event)
  BY <1>5, <1>10 DEF BaselineInv
<1>13. thread'[Poller].pc \in {"time", "ask"} =>
         thread'[Poller].completion \/ NeverCompared'
  BY <1>3, <1>5, <1>7, <1>10 DEF BaselineInv
<1>14. BaselineStays'
  <2>1. SUFFICES ASSUME NEW i \in 1..Len(log'), NEW j \in 1..Len(log'), i < j,
                        Standstill(log'[i]), Unavailable(log'[j])
                 PROVE  FALSE
    BY DEF BaselineStays, Standstill, Unavailable
  <2>2. i \in 1..Len(log) /\ Standstill(log[i])
    BY <1>4, <2>1 DEF Standstill
  <2>3. CASE j = Len(log) + 1
    BY <1>3, <1>4, <2>1, <2>2, <2>3 DEF NeverCompared, Unavailable
  <2>4. CASE j \in 1..Len(log)
    BY <1>4, <2>1, <2>2, <2>4 DEF BaselineInv, BaselineStays, Unavailable
  <2> QED BY <1>4, <2>3, <2>4
<1> QED BY <1>9, <1>11, <1>12, <1>13, <1>14 DEF BaselineInv, Unavailable, Standstill

LEMMA BaselinePoll ==
  ASSUME Assumptions, EventsInv, BaselineInv, Poll
  PROVE  BaselineInv'
<1>1. Poller \in Threads /\ UNCHANGED <<row, log>>
  BY DEF Threads, Poll, PollAsks, PollGetsSignal, PollFails, PollWithoutBaseline,
         PollObserves, PollCompares
<1>2. CASE PollAsks
  <2> DEFINE r == thread[Poller]
             state == [pc |-> "ask", current |-> r.current, completion |-> r.completion,
                       now |-> clock]
  <2>1. r.pc = "time" /\ Become(Poller, state)
    BY <1>2 DEF PollAsks
  <2>2. r.current \in Status /\ r.completion \in BOOLEAN /\ clock \in Times
    BY <1>1, <2>1, ThreadFields DEF EventsInv, Typed
  <2>3. r.completion \/ NeverCompared
    BY <2>1 DEF BaselineInv
  <2>4. state \in ThreadStates /\ state.pc = "ask" /\ state.completion = r.completion
    BY <2>2, StatesOfThreads
  <2> HIDE DEF state, r
  <2> QED BY <1>1, <2>1, <2>3, <2>4, BaselineKept
<1>3. CASE \/ PollGetsSignal \/ PollFails \/ PollWithoutBaseline
           \/ PollObserves /\ \/ Appends("stable_files_completed", "completed")
                              \/ Appends("file_changes_observed", "downloading")
  <2>1. thread[Poller].pc = "ask"
    BY <1>3, PollerAsks
  <2>2. PICK kind \in Kinds \ {"no_reliable_progress"}, target \in Status :
          /\ Appends(kind, target)
          /\ kind = "completion_baseline_unavailable" => PollWithoutBaseline
    BY <1>3, <2>1, PollAppendsOther
  <2> DEFINE event == Event(kind, target, "system", thread[Poller].now)
  <2>3. event \in Events /\ (Begin(Poller, event) \/ Become(Poller, Idle))
    BY <2>1, <2>2, AppendsEvent
  <2>4. event.kind = kind
    BY EventKind
  <2> HIDE DEF event
  <2>5. Unavailable(event) => NeverCompared
    BY <2>1, <2>2, <2>4 DEF Unavailable, PollWithoutBaseline, BaselineInv
  <2> QED BY <1>1, <2>3, <2>5, BaselineOther
<1>4. CASE \E event : Observes(event)
  <2>1. PICK event : Observes(event)
    BY <1>4
  <2>2. PICK state \in ThreadStates : /\ Become(Poller, state) /\ state.pc = "compare"
                                      /\ state.event = event
    BY <2>1, StatesOfThreads DEF Observes
  <2>3. Standstill(event)
    BY <2>1 DEF Observes, Standstill
  <2> QED BY <1>1, <2>2, <2>3, BaselineKept
<1>5. CASE PollCompares
  <2> DEFINE event == thread[Poller].event
  <2>1. thread[Poller].pc = "compare" /\ event \in Events
    BY <1>1, <1>5, ThreadFields DEF PollCompares, EventsInv, Typed
  <2>2. ~Unavailable(event)
    BY <1>1, <2>1 DEF BaselineInv, Standstill, Unavailable
  <2>3. Begin(Poller, event) \/ Become(Poller, Idle)
    BY <1>5 DEF PollCompares
  <2> QED BY <1>1, <2>1, <2>2, <2>3, BaselineOther
<1> QED BY <1>2, <1>3, <1>4, <1>5, PollObservation DEF Poll

LEMMA BaselineSubmit ==
  ASSUME Assumptions, EventsInv, BaselineInv, Submit
  PROVE  BaselineInv'
<1>1. Submitter \in Threads /\ Poller \in Threads /\ Submitter # Poller
  BY DEF Threads, Assumptions, ThreadsAssumption
<1>2. CASE SubmitBegins
  <2>1. clock \in Times
    BY DEF EventsInv, Typed
  <2> QED BY <1>1, <1>2, <2>1, StatesOfThreads, BaselineGoesOn DEF SubmitBegins
<1>3. CASE SubmitAnswers
  <2>1. PICK answer \in Answers :
          Begin(Submitter, Event(answer[1], answer[2], "system", thread[Submitter].now))
    BY <1>3 DEF SubmitAnswers
  <2>2. thread[Submitter].now \in Times /\ UNCHANGED <<row, log>>
    BY <1>1, <1>3, ThreadFields DEF SubmitAnswers, EventsInv, Typed
  <2>3. /\ answer[1] \in Kinds /\ answer[2] \in Status
        /\ answer[1] # "completion_baseline_unavailable"
    BY DEF Answers, Kinds, Errors, Status, Unfinished, Terminal
  <2> DEFINE event == Event(answer[1], answer[2], "system", thread[Submitter].now)
  <2>4. event \in Events /\ event.kind = answer[1]
    BY <2>2, <2>3, EventTyped, EventKind DEF Sources
  <2> HIDE DEF event
  <2>5. ~Unavailable(event) /\ Begin(Submitter, event)
    BY <2>1, <2>3, <2>4 DEF Unavailable, event
  <2> QED BY <1>1, <2>2, <2>4, <2>5, BaselineOther
<1>4. CASE Claim
  <2> DEFINE event == Event("claim_created", "submitting", "system", clock)
             state == [thread[Submitter] EXCEPT !.pc = "submit"]
  <2>1. thread[Submitter].pc = "claim" /\ log' = <<event>> /\ Become(Submitter, state)
    BY <1>4 DEF Claim
  <2>2. ~Standstill(event) /\ ~Unavailable(event)
    BY EventKind DEF Standstill, Unavailable
  <2> HIDE DEF event
  <2>3. Len(log') = 1 /\ log'[1] = event
    BY <2>1
  <2>4. \A u \in Threads : thread[u].pc \in {"idle", "claim"}
    BY <1>1, <2>1 DEF EventsInv, ClaimComesFirst
  <2>5. /\ \A u \in Threads \ {Submitter} : thread'[u] = thread[u]
        /\ thread'[Submitter] = state
    BY <1>1, <2>1 DEF Become, EventsInv, Typed
  <2>6. thread[Submitter] \in [pc : {"claim", "submit"}, now : Times]
    BY <1>1, <2>1 DEF EventsInv, Typed, ThreadStates, Idle
  <2>7. \A u \in Threads : thread'[u].pc \in {"idle", "claim", "submit"}
    BY <2>4, <2>5, <2>6
  <2>8. NeverCompared' /\ BaselineStays'
    BY <2>2, <2>3 DEF NeverCompared, BaselineStays, Standstill, Unavailable
  <2> QED BY <1>1, <2>7, <2>8 DEF BaselineInv
<1> QED BY <1>2, <1>3, <1>4 DEF Submit

LEMMA NextBaseline ==
  ASSUME Assumptions, EventsInv, StandstillInv, BaselineInv, [Next]_vars
  PROVE  BaselineInv'
<1>1. CASE Submit
  BY <1>1, BaselineSubmit
<1>2. CASE Poll
  BY <1>2, BaselinePoll
<1>3. CASE ManualComplete
  <2> DEFINE event == Event("manual_confirmation", "completed", "manual", clock)
  <2>1. /\ User \in Threads /\ UNCHANGED <<row, log>>
        /\ Begin(User, event) \/ Become(User, Idle)
    BY <1>3 DEF ManualComplete, Threads
  <2>2. event \in Events
    BY EventTyped DEF EventsInv, Typed, Kinds, Status, Terminal, Sources
  <2>3. event.kind = "manual_confirmation"
    BY EventKind
  <2> HIDE DEF event
  <2> QED BY <2>1, <2>2, <2>3, BaselineOther DEF Unavailable
<1>4. ASSUME NEW t \in Threads, AppendEvent(t)
      PROVE  BaselineInv'
  <2>1. CASE Flush(t)
    BY <2>1, BaselineFlush
  <2>2. CASE FlushRefused(t)
    BY <2>2, StatesOfThreads, BaselineGoesOn DEF FlushRefused
  <2>3. CASE Load(t)
    <3> DEFINE state == [pc |-> "number", event |-> thread[t].event, seen |-> row,
                         events |-> Len(log)]
    <3>1. thread[t].pc = "load" /\ Become(t, state) /\ UNCHANGED <<row, log>>
      BY <2>3 DEF Load
    <3>2. thread[t].event \in Events /\ row \in Rows /\ Len(log) \in Nat
      BY <3>1, ThreadFields, LogLength DEF EventsInv, Typed
    <3>3. state \in ThreadStates /\ state.event = thread[t].event /\ state.pc = "number"
      BY <3>2, StatesOfThreads
    <3> HIDE DEF state
    <3> QED BY <3>1, <3>3, BaselineGoesOn
  <2>4. CASE ReadNumber(t)
    <3> DEFINE r == thread[t]
               state == [pc |-> "flush", event |-> r.event, seen |-> r.seen,
                         events |-> r.events, number |-> Len(log) + 1]
    <3>1. thread[t].pc = "number" /\ Become(t, state) /\ UNCHANGED <<row, log>>
      BY <2>4 DEF ReadNumber
    <3>2. /\ r.event \in Events /\ r.seen \in Rows /\ r.events \in Nat
          /\ Len(log) + 1 \in Nat
      BY <3>1, ThreadFields, LogLength DEF EventsInv, Typed
    <3>3. state \in ThreadStates /\ state.event = thread[t].event /\ state.pc = "flush"
      BY <3>2, StatesOfThreads
    <3> HIDE DEF state
    <3> QED BY <3>1, <3>3, BaselineGoesOn
  <2> QED BY <1>4, <2>1, <2>2, <2>3, <2>4 DEF AppendEvent
<1>5. ASSUME NEW t \in Threads, ReadsTask(t)
      PROVE  BaselineInv'
  <2> DEFINE state == [pc |-> "time", current |-> row.status, completion |-> row.completion]
  <2>1. row.status \in Status /\ row.completion \in BOOLEAN
    BY DEF EventsInv, Typed, Rows
  <2>2. Become(t, state) /\ UNCHANGED <<row, log>>
    BY <1>5 DEF ReadsTask
  <2>3. state \in ThreadStates /\ state.pc = "time" /\ state.completion = row.completion
    BY <2>1, StatesOfThreads
  <2>4. state.completion \/ NeverCompared
    BY <2>3 DEF BaselineInv
  <2> HIDE DEF state
  <2> QED BY <2>2, <2>3, <2>4, BaselineKept
<1>6. CASE Tick \/ UNCHANGED vars
  BY <1>6 DEF Tick, vars, BaselineInv, NeverCompared, BaselineStays, Unavailable, Standstill
<1> QED BY <1>1, <1>2, <1>3, <1>4, <1>5, <1>6 DEF Next

------------------------------------------------------------------------------
(***************************************************************************)
(* The theorems.                                                           *)
(***************************************************************************)

\* Every variable has its type, and no thread is at a number beyond the next one.
THEOREM EventsTyped == ASSUME Assumptions PROVE Spec => []TypeOK
<1>1. EventsInv => TypeOK
  BY ThreadFields DEF EventsInv, Typed, SeenIsRow, TypeOK, Rows, Times
<1> QED BY <1>1, InitEvents, NextEvents, PTL DEF Spec

\* The row shows the last event, unless its thread had loaded the row before the
\* event that precedes it.
THEOREM RowShowsLastEvent == ASSUME Assumptions PROVE Spec => []RowFollowsLog
<1>1. EventsInv => RowFollowsLog
  BY DEF EventsInv
<1> QED BY <1>1, InitEvents, NextEvents, PTL DEF Spec

\* A task is marked as completed by hand exactly when one of its events says so.
THEOREM CompletionByHandIsMarked == ASSUME Assumptions PROVE Spec => []ManualCompletionIsMarked
<1>1. EventsInv => ManualCompletionIsMarked
  BY DEF EventsInv
<1> QED BY <1>1, InitEvents, NextEvents, PTL DEF Spec

\* An observation of the files without progress that repeats the event before it
\* is never appended, and once the files have been compared no poll misses its
\* baseline.
THEOREM StandstillsAreLoggedOnce == ASSUME Assumptions PROVE Spec => []StandstillIsLoggedOnce
<1>1. Init => StandstillInv /\ BaselineInv
  <2>1. ASSUME Init PROVE log = <<>> /\ \A t \in Threads : thread[t].pc = "idle"
    BY <2>1, StatesOfThreads DEF Init
  <2>2. Poller \in Threads
    BY DEF Threads
  <2>3. Init => StandstillInv
    BY <2>1 DEF StandstillInv, NothingRepeats
  <2>4. Init => BaselineInv
    BY <2>1, <2>2 DEF BaselineInv, BaselineStays, NeverCompared
  <2> QED BY <2>3, <2>4
<1>2. EventsInv /\ StandstillInv /\ BaselineInv /\ [Next]_vars => StandstillInv' /\ BaselineInv'
  BY NextStandstill, NextBaseline
<1>3. StandstillInv /\ BaselineInv => StandstillIsLoggedOnce
  BY DEF StandstillInv, NothingRepeats, BaselineInv, BaselineStays, Standstill, Unavailable,
         StandstillIsLoggedOnce
<1> QED BY <1>1, <1>2, <1>3, InitEvents, NextEvents, PTL DEF Spec
==============================================================================
