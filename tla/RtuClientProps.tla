---------------------------- MODULE RtuClientProps ----------------------------
(* What adapters::qt::RtuClient promises to the application that queues      *)
(* requests on it, and what its parts must keep true together for that.      *)
EXTENDS RtuClient

\* A handler runs exactly once: every accepted request either waits in the
\* queue or has been told its end, never both and never twice, through
\* cancellations, errors raised from inside a call, and handlers that queue,
\* unbind and bind again.  Only the destructor drops requests, silently.
HandlerRunsOnce ==
    LET told == [k \in DOMAIN c.log |-> c.log[k].id]
        waiting == [k \in DOMAIN c.m_queue |-> c.m_queue[k].id]
        known == told \o waiting
    IN  /\ \A j, k \in DOMAIN known : known[j] = known[k] => j = k
        /\ c.alive => {known[k] : k \in DOMAIN known} = 1 .. c.sent

\* Between two events nothing is stranded: a queued request has a timer that
\* will move it, a frame is being sent exactly while the endpoint lends its
\* block, and a candidate in flight has its silence timer running.
NothingIsStranded ==
    /\ c.m_queue # <<>> =>
         \/ c.m_state = "Scheduled" /\ c.schedule # Off
         \/ c.m_state \in {"Sending", "Waiting"} /\ c.response # Off /\ c.schedule = Off
    /\ (c.m_state = "Sending" /\ c.alive) <=> c.lent
    /\ assembling(c) <=> c.stale # Off
    /\ ~c.bound => ~c.lent /\ ~c.open /\ ~c.service /\ c.m_queue = <<>>

\* Bytes that were there when an attempt began do not answer it: an answer
\* arrived whole after the clean start of the attempt it completes.
AnswersAreFresh == \A k \in DOMAIN c.log : c.log[k].fresh

\* No frame leaves within the silence that the last transaction owes the line:
\* the turnaround after a broadcast, the inter-frame gap after anything else,
\* whatever its handler queues from inside.
GapsAreKept == [][~c.lent /\ c'.lent => owed = 0]_vars

\* Every request ends, on a port that stalls, fails or has died, with a peer
\* that never answers, as long as the client lives: once the application stops
\* asking, there comes a time when all it asked for has been told.
EveryRequestFinishes == []<>(~c.alive \/ Len(c.log) = c.sent)
=============================================================================
