----------------------------- MODULE AckLedger -----------------------------
(***************************************************************************)
(* What the sequence number store of one metadata buddy group promises the *)
(* servers of that group: every request gets a fresh number, and with it   *)
(* an acknowledgement of finished requests.  The servers forget the cached *)
(* responses of acknowledged requests, so an acknowledgement must never    *)
(* cover a request that is still open.  Nothing here says how the client   *)
(* finds such an acknowledgement; module MirrorBuddyGroup does.            *)
(***************************************************************************)
EXTENDS Naturals

VARIABLES
    next,   \* the largest number handed out, or the base set by a server
    open,   \* numbers of requests that are being processed
    done,   \* numbers of finished requests that were not acknowledged one by one
    ack     \* the acknowledgement of the last request begun

ledger == <<next, open, done, ack>>

\* No request has been acknowledged yet.
NoAck == [selective |-> FALSE, upTo |-> 0]

Init ==
    /\ next = 0
    /\ open = {}
    /\ done = {}
    /\ ack = NoAck

\* A request begins and acknowledges one finished request...
BeginSelective(d) ==
    /\ next > 0
    /\ next' = next + 1
    /\ open' = open \cup {next'}
    /\ done' = done \ {d}
    /\ ack' = [selective |-> TRUE, upTo |-> d]

\* ... or all requests up to a number below every open one.
BeginCumulative(a) ==
    /\ next > 0
    /\ done = {}
    /\ next' = next + 1
    /\ open' = open \cup {next'}
    /\ \A v \in open' : a < v
    /\ ack' = [selective |-> FALSE, upTo |-> a]
    /\ UNCHANGED done

Finish(v) ==
    /\ open' = open \ {v}
    /\ done' = done \cup {v}
    /\ UNCHANGED <<next, ack>>

\* A server tells the client where its numbers have to start.
Rebase(b) ==
    /\ next < b
    /\ next' = b
    /\ UNCHANGED <<open, done, ack>>

Next ==
    \/ \E d \in done : BeginSelective(d)
    \/ \E a \in 0..next : BeginCumulative(a)
    \/ \E v \in open : Finish(v)
    \/ next' \in Nat /\ Rebase(next')

Spec == Init /\ [][Next]_ledger
=============================================================================
