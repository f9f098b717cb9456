----------------------------- MODULE StreamFifo -----------------------------
(***************************************************************************)
(* What a secret stream promises its users: the reader of a stream gets     *)
(* what was written to that stream, from the beginning, in order and        *)
(* without a gap, whatever happens to the messages under way.               *)
(***************************************************************************)
EXTENDS Sequences, Naturals

CONSTANTS
    Headers,     \* the streams, named by their headers
    Items,       \* what one message carries
    NoHeader     \* the reader has opened no stream

VARIABLES
    sent,        \* sent[h]: the items written to stream h
    reading,     \* the stream the reader has opened
    received     \* the items it has got from it

vars == <<sent, reading, received>>

Init ==
    /\ sent = [h \in Headers |-> <<>>]
    /\ reading = NoHeader
    /\ received = <<>>

Send(h, item) ==
    /\ sent' = [sent EXCEPT ![h] = Append(@, item)]
    /\ UNCHANGED <<reading, received>>

Open(h) ==
    /\ reading' = h
    /\ received' = <<>>
    /\ UNCHANGED sent

Receive ==
    /\ reading \in Headers
    /\ Len(received) < Len(sent[reading])
    /\ received' = Append(received, sent[reading][Len(received) + 1])
    /\ UNCHANGED <<sent, reading>>

Next ==
    \/ \E h \in Headers : Open(h) \/ \E item \in Items : Send(h, item)
    \/ Receive

Spec == Init /\ [][Next]_vars
=============================================================================
