------------------------------ MODULE RtuClient ------------------------------
(***************************************************************************)
(* adapters::qt::RtuClient (src/adapters/qt/RtuClient.h): a queue of       *)
(* requests, of which one at a time is written, answered or given up, on   *)
(* SerialAdapter.  An event of the loop is one step; inside it the code    *)
(* calls back and forth, and an application's handler may queue, unbind    *)
(* and bind again from within: its calls are part of the plan, the n-th    *)
(* request's receiver and what its handler does.                           *)
(***************************************************************************)
EXTENDS SerialAdapter, FiniteSetsExt

CONSTANTS
    Plans,                   \* sequences of [to, handler], a request each
    Broadcast,               \* the address nobody answers
    response_timeout_ms, retries, turnaround_delay_ms, inter_frame_delay_ms,
    MaxFaults                \* bound: errors of the port, refusals and lost answers

VARIABLES
    plan,
    c,         \* client, adapter, endpoint and port
    line,      \* fragments of answers on their way
    faults,
    owed       \* history: the silence still owed to the last transaction

vars == <<plan, c, line, faults, owed>>

NewClient ==
    [m_state |-> "Idle", m_queue |-> <<>>, response |-> Off, schedule |-> Off,
     until |-> 0,            \* m_earliest_next_ms - now_ms, while positive
     wrote |-> FALSE,        \* bytesWritten waits in the event loop
     alive |-> TRUE, sent |-> 0, sessions |-> 0,
     log |-> <<>>]           \* of the handlers' runs

Init ==
    /\ plan \in Plans
    /\ c = NewClient @@ NewAdapter
    /\ line = <<>> /\ faults = 0 /\ owed = 0

RECURSIVE notify_finished(_, _, _, _)

-----------------------------------------------------------------------------
(* The queue.                                                              *)

To(head) == plan[head.id].to

\* Mutant: only the delay that is asked for counts.
schedule_next_NoDeadline(x, delay_ms) ==
    IF x.m_state # "Idle" \/ x.m_queue = <<>> THEN x
    ELSE [x EXCEPT !.m_state = "Scheduled", !.schedule = delay_ms]

\* No sooner than delay_ms, and than the deadline of the last finished request.
schedule_next(x, delay_ms) ==
    IF x.m_state # "Idle" \/ x.m_queue = <<>> THEN x
    ELSE [x EXCEPT !.m_state = "Scheduled", !.schedule = Max({delay_ms, x.until})]

schedule_gap(x) == schedule_next(x, inter_frame_delay_ms)

send(x) ==
    IF ~x.bound \/ x.sent = Len(plan) THEN x
    ELSE schedule_gap([x EXCEPT !.sent = @ + 1,
           !.m_queue = Append(@, [id |-> x.sent + 1, left |-> retries + 1, attempts |-> 0])])

\* RtuClient::bind: a fresh session owes no gap.
BindClient(x) ==
    LET t == bind(x)
    IN  IF x.bound \/ ~t.bound THEN x
        ELSE [t EXCEPT !.service = TRUE, !.until = 0, !.sessions = @ + 1]

\* Mutant: the handlers run before the queue is given up.
UnbindClient_InPlace(x) ==
    LET t == unbind(x)
        idle == [t EXCEPT !.response = Off, !.schedule = Off, !.m_state = "Idle"]
        told == FoldLeft(LAMBDA y, head : notify_finished(y, head, "Cancelled", TRUE),
                         idle, t.m_queue)
    IN  IF ~x.bound THEN x ELSE IF t.bound THEN t
        ELSE [told EXCEPT !.m_queue = <<>>]

\* RtuClient::unbind: what is queued belongs to the binding that ends.
UnbindClient(x) ==
    LET t == unbind(x)
        idle == [t EXCEPT !.response = Off, !.schedule = Off, !.m_state = "Idle",
                          !.m_queue = <<>>]
    IN  IF ~x.bound THEN x ELSE IF t.bound THEN t
        ELSE FoldLeft(LAMBDA y, head : notify_finished(y, head, "Cancelled", TRUE),
                      idle, t.m_queue)

\* The application's handler: the calls of its plan.
HandlerCall(x, call) ==
    CASE call = "send" -> send(x)
      [] call = "bind" -> BindClient(x)
      [] call = "unbind" -> UnbindClient(x)

notify_finished(x, head, state, fresh) ==
    FoldLeft(HandlerCall,
             [x EXCEPT !.log = Append(@, [id |-> head.id, state |-> state, fresh |-> fresh])],
             plan[head.id].handler)

GapAfter(state) == IF state = "Broadcast" THEN turnaround_delay_ms ELSE inter_frame_delay_ms

\* The gap is fixed before the handler runs.
FinishHead(x, state, fresh) ==
    notify_finished([x EXCEPT !.response = Off, !.m_queue = Tail(@), !.m_state = "Idle",
                              !.until = GapAfter(state)],
                    Head(x.m_queue), state, fresh)
finish_head(x, state) == FinishHead(x, state, TRUE)

-----------------------------------------------------------------------------
(* service.                                                                *)

\* An answer completes the request that waits for it, if it matches.
on_packet(x, packet) ==
    IF x.m_state # "Waiting" \/ x.m_queue = <<>> THEN x
    ELSE IF To(Head(x.m_queue)) # packet.to THEN x
    ELSE schedule_gap(FinishHead(x, "Completed", packet.fresh))

\* A transport error ends the transaction it hit.
SettleError(x) ==
    LET t == [x EXCEPT !.error = "None"]
    IN  IF /\ x.error \in {"Write", "Resource"}
           /\ x.m_state \in {"Sending", "Waiting"} /\ x.m_queue # <<>>
        THEN schedule_gap(finish_head(t, "WriteError")) ELSE t

\* The frame has left: a broadcast is finished by that alone.
SettleWrite(x) ==
    IF x.m_state # "Sending" \/ x.lent THEN x
    ELSE IF x.m_queue = <<>> THEN [x EXCEPT !.m_state = "Idle"]
    ELSE IF To(Head(x.m_queue)) = Broadcast
         THEN schedule_next(finish_head(x, "Broadcast"), turnaround_delay_ms)
    ELSE [x EXCEPT !.m_state = "Waiting", !.response = response_timeout_ms]

\* An early answer stays queued until the write has completed.
DrainPackets(x) ==
    IF x.m_state = "Sending" THEN x
    ELSE FoldLeft(on_packet, [x EXCEPT !.ready = <<>>], x.ready)

service(x) == DrainPackets(SettleWrite(SettleError(x)))

\* SerialAdapter::notify.
notify(x) == IF x.service THEN service(x) ELSE x

\* clear() outside a recovery: a dead port refuses and emits its error.
Refused(x) == IF x.dead THEN notify(on_error(x, "Resource")) ELSE x

discard_incoming(x) == Discarded(Refused(x))

\* The Sender of the endpoint: a short or refused write is a failed one.
ShortWrite(x) == [ClearOutput(Refused(x)) EXCEPT !.error = "Write"]

-----------------------------------------------------------------------------
(* Timers.                                                                 *)

\* History: what has arrived by now cannot answer what is sent from now on.
Aged(x) ==
    LET old(b) == [b EXCEPT !.fresh = FALSE]
        olds(w) == [k \in DOMAIN w |-> old(w[k])]
    IN  [x EXCEPT !.inp = olds(@), !.ready = olds(@),
                  !.flight = IF @ = None THEN None ELSE old(@)]

\* Mutant: packets decoded before the attempt stay.
CleanStart_KeepsPackets(x) == discard_incoming(Aged(x))

CleanStart(x) == [discard_incoming(Aged(x)) EXCEPT !.ready = <<>>]

\* Mutant: every poll of a busy port begins the write phase anew.
WritePhase_EveryPoll(x) == [x EXCEPT !.response = response_timeout_ms]

\* Busy polls share the deadline of the attempt.
WritePhase(x) == IF x.response # Off THEN x ELSE [x EXCEPT !.response = response_timeout_ms]

\* outcome: what storage, the framing policy and the port make of the message.
Outcomes == {"accepted", "refused", "no_message"}
process_queue(x, outcome) ==
    LET t == CleanStart(WritePhase([x EXCEPT !.schedule = Off]))
        Failed(y) == schedule_gap(finish_head(y, "WriteError"))
    IN  CASE x.m_queue = <<>> -> [x EXCEPT !.schedule = Off, !.m_state = "Idle"]
          [] x.m_queue # <<>> /\ outcome = "no_message" -> Failed(t)
          [] x.m_queue # <<>> /\ outcome # "no_message" ->
               IF SendRefusedBusy(t) THEN schedule_next([t EXCEPT !.m_state = "Idle"], 1)
               ELSE IF outcome = "accepted" /\ ~t.dead
               THEN service([Sent(t, Head(t.m_queue).id) EXCEPT
                               !.m_queue[1].left = @ - 1, !.m_queue[1].attempts = @ + 1,
                               !.m_state = "Sending"])
               ELSE Failed([ShortWrite(t) EXCEPT !.error = "None"])

\* Nothing answered in time: the same request again, or the end of it.
GiveUp(x) ==
    LET t == discard_incoming(x)
    IN  IF t.m_state # "Waiting" \/ t.m_queue = <<>> THEN t
        ELSE IF Head(t.m_queue).left > 0 THEN schedule_gap([t EXCEPT !.m_state = "Idle"])
        ELSE schedule_gap(finish_head(t, "Timeout"))

on_deadline(x) ==
    LET t == poll(x)
    IN  CASE x.m_queue = <<>> \/ x.m_state = "Idle" -> x
          [] x.m_queue # <<>> /\ x.m_state = "Sending" ->
               IF ~t.lent THEN service(t)
               ELSE IF t.bound THEN notify(abort_outgoing(t, "Write")) ELSE t
          [] x.m_queue # <<>> /\ x.m_state = "Scheduled" ->
               schedule_gap(finish_head([x EXCEPT !.schedule = Off], "WriteError"))
          [] x.m_queue # <<>> /\ x.m_state = "Waiting" -> GiveUp(x)

Destroy(x) ==
    [Destroyed([x EXCEPT !.response = Off, !.schedule = Off, !.m_queue = <<>>])
     EXCEPT !.alive = FALSE]

-----------------------------------------------------------------------------
(* Steps: one event each.                                                  *)

\* History: what the transactions that ended in this step owe the line.
GivenUp == c.m_state = "Waiting" /\ c'.m_state = "Scheduled" /\ Len(c'.log) = Len(c.log)
OwedNow ==
    LET ended == {c'.log[k].state : k \in Len(c.log) + 1 .. Len(c'.log)} \ {"Cancelled"}
    IN  IF c'.sessions # c.sessions THEN 0
        ELSE Max({owed} \union {GapAfter(state) : state \in ended}
                        \union (IF GivenUp THEN {inter_frame_delay_ms} ELSE {}))

Event(x) == c' = x /\ owed' = OwedNow /\ UNCHANGED plan
Calm == UNCHANGED <<line, faults>>
Fault == faults < MaxFaults /\ faults' = faults + 1

\* The application, outside of a handler.
Send == c.alive /\ c.sent < Len(plan) /\ Event(send(c)) /\ Calm
Bind == c.alive /\ Event(BindClient(c)) /\ Calm
Unbind == c.alive /\ c.bound /\ Fault /\ Event(UnbindClient(c)) /\ UNCHANGED line
Delete == c.alive /\ Event(Destroy(c)) /\ Calm

\* Signals.
ReadyRead == c.bound /\ c.inp # <<>> /\ Event(notify(on_ready_read(c))) /\ Calm
BytesWritten ==
    c.bound /\ c.wrote /\ Event(notify(on_bytes_written([c EXCEPT !.wrote = FALSE]))) /\ Calm
ErrorOccurred(e) ==
    /\ c.bound /\ Fault /\ UNCHANGED line
    /\ Event(notify(on_error([c EXCEPT !.dead = @ \/ e = "Resource"], e)))

\* Timers that have run down.
Response == c.response = 0 /\ Event(on_deadline([c EXCEPT !.response = Off])) /\ Calm
Schedule ==
    /\ c.schedule = 0 /\ UNCHANGED line
    /\ \E outcome \in Outcomes :
         /\ IF outcome = "accepted" THEN UNCHANGED faults ELSE Fault
         /\ Event(process_queue(c, outcome))
Stale == c.stale = 0 /\ Event(notify(on_stale([c EXCEPT !.stale = Off]))) /\ Calm

Down(timer) == IF timer > 0 THEN timer - 1 ELSE timer
Tick ==
    /\ c' = [c EXCEPT !.response = Down(@), !.schedule = Down(@), !.stale = Down(@),
                      !.until = Down(@)]
    /\ owed' = Down(owed) /\ UNCHANGED <<plan, line, faults>>

\* The frame has left; its receiver answers whole, in part, or not at all.
FrameLeaves ==
    LET to == plan[c.out].to
        answer == [k \in 1 .. 2 |-> [to |-> to, frame |-> c.out, part |-> k, fresh |-> TRUE]]
    IN  /\ c.out # None /\ ~c.dead
        /\ Event([c EXCEPT !.out = None, !.wrote = TRUE])
        /\ \E n \in 0 .. 2 :
             /\ line' = line \o SubSeq(answer, 1, n)
             /\ IF n = 2 \/ to = Broadcast THEN UNCHANGED faults ELSE Fault
             /\ to = Broadcast => n = 0

Arrives ==
    /\ line # <<>> /\ ~c.dead
    /\ Event([c EXCEPT !.inp = Append(@, Head(line))]) /\ line' = Tail(line)
    /\ UNCHANGED faults

\* The device is back: Qt closes and opens the port.
Reopen ==
    /\ c.dead /\ Event([c EXCEPT !.dead = FALSE, !.out = None, !.inp = <<>>]) /\ Calm

Next ==
    \/ Send \/ Bind \/ Unbind \/ Delete
    \/ ReadyRead \/ BytesWritten \/ \E e \in {"Read", "Write", "Resource"} : ErrorOccurred(e)
    \/ Response \/ Schedule \/ Stale \/ Tick
    \/ FrameLeaves \/ Arrives \/ Reopen

Spec == Init /\ [][Next]_vars

\* Time passes, and the event loop serves a timer that has run down: weak fairness
\* of Response, Schedule and Stale, each enabled while its timer is 0 and moving it.
\* Nothing else is promised.
EventLoop == []<>(c.response # 0) /\ []<>(c.schedule # 0) /\ []<>(c.stale # 0)
FairSpec == Spec /\ WF_vars(Tick) /\ EventLoop
=============================================================================
