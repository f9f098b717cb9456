---------------------------- MODULE SecretStream ----------------------------
(***************************************************************************)
(* secretstream_xchacha20poly1305.c: a writer that pushes messages into     *)
(* streams encrypted under one key, a reader that pulls them, and a         *)
(* transport that may lose, repeat, reorder, delay, damage and mix up       *)
(* messages and streams.                                                    *)
(*                                                                          *)
(* Cryptography is symbolic.  The key and the nonce part of a state are     *)
(* what went into them: the header, the messages whose macs were mixed in,  *)
(* and after which of them the state was rekeyed.  A message carries the    *)
(* state it was encrypted under, and verifies only under an equal state.    *)
(***************************************************************************)
EXTENDS Naturals, Sequences, FiniteSets

CONSTANTS
    Headers,        \* the random headers init_push draws, never the same twice
    NoHeader,       \* a state before its initialization
    Payloads,       \* message contents
    AdditionalData, \* additional data, authenticated and not transmitted
    Tags,           \* the tags the writer uses
    CounterMod,     \* 2^32 in the code
    MaxPush,        \* bound: messages pushed
    MaxRekey        \* bound: calls of the explicit rekey by either side

\* Tags with bit 0x02 set make both sides rekey.
TagsWithRekey == {"REKEY", "FINAL"}

ASSUME StreamAssumption ==
    /\ NoHeader \notin Headers
    /\ Tags \subseteq {"MESSAGE", "PUSH"} \cup TagsWithRekey
    /\ CounterMod \in Nat /\ CounterMod > 2
    /\ MaxPush \in Nat /\ MaxRekey \in Nat

VARIABLES
    writer,      \* the state of the pushing side
    reader,      \* the state of the pulling side
    verdict,     \* the tag the last pull reported, "none" (0xff) if it failed
    network,     \* the messages that have been sent
    opened,      \* the headers drawn so far
    pushed,      \* history: pushed[h], the items pushed to stream h
    accepted,    \* history: the items the reader has pulled since init_pull
    nonces,      \* history: the keys and counters used
    rekeys       \* explicit rekeyings so far

sending   == <<writer, network, opened, pushed, nonces>>
receiving == <<reader, verdict, accepted>>
vars      == <<sending, receiving, rekeys>>

-----------------------------------------------------------------------------

Item == [tag : Tags, payload : Payloads, ad : AdditionalData]

\* A state as init_push and init_pull leave it: the counter starts at 1.
Start(header) == [header |-> header, counter |-> 1, absorbed |-> <<>>, rekeyed |-> <<>>]

Uninitialized == [Start(NoHeader) EXCEPT !.counter = 0]

\* Mutant: the counter restarts at zero.
RekeyToZero(state) ==
    [state EXCEPT !.counter = 0, !.rekeyed = Append(@, Len(state.absorbed))]

\* A new key and nonce, made from the old ones, and a counter that restarts.
Rekey(state) ==
    [state EXCEPT !.counter = 1, !.rekeyed = Append(@, Len(state.absorbed))]

Increment(state) == [state EXCEPT !.counter = (@ + 1) % CounterMod]

Absorb(state, item) == [state EXCEPT !.absorbed = Append(@, item)]

\* Mutant: a counter that has wrapped goes on from zero.
AdvanceWithoutWrap(state, item) ==
    LET next == Increment(Absorb(state, item))
    IN  IF item.tag \in TagsWithRekey THEN Rekey(next) ELSE next

\* What push and pull alike do to the state after a message: its mac is mixed
\* into the nonce, the counter is incremented, and the state is rekeyed when
\* the tag says so or the counter has wrapped.
Advance(state, item) ==
    LET next == Increment(Absorb(state, item))
    IN  IF item.tag \in TagsWithRekey \/ next.counter = 0 THEN Rekey(next) ELSE next

\* The key a message is encrypted under, by the rekeyings of its stream so far,
\* and the counter.
Nonce(state) == <<state.header, Len(state.rekeyed), state.counter>>

-----------------------------------------------------------------------------

Init ==
    /\ writer = Uninitialized
    /\ reader = Uninitialized
    /\ verdict = "none"
    /\ network = {}
    /\ opened = {}
    /\ pushed = [h \in Headers |-> <<>>]
    /\ accepted = <<>>
    /\ nonces = {}
    /\ rekeys = 0

\* init_push draws a header and publishes it.
InitPush(h) ==
    /\ h \notin opened
    /\ opened' = opened \cup {h}
    /\ writer' = Start(h)
    /\ UNCHANGED <<network, pushed, nonces, receiving, rekeys>>

Push(item) ==
    /\ writer.header # NoHeader
    /\ Cardinality(network) < MaxPush
    /\ network' = network \cup {[state |-> writer, item |-> item]}
    /\ nonces' = nonces \cup {Nonce(writer)}
    /\ pushed' = [pushed EXCEPT ![writer.header] = Append(@, item)]
    /\ writer' = Advance(writer, item)
    /\ UNCHANGED <<opened, receiving, rekeys>>

InitPull(h) ==
    /\ h \in opened
    /\ reader' = Start(h)
    /\ accepted' = <<>>
    /\ verdict' = "none"
    /\ UNCHANGED <<sending, rekeys>>

\* The mac of a message was made with the state the reader is in, and with the
\* additional data the reader supplies.
Verifies(message, ad) == message.state = reader /\ message.item.ad = ad

\* Mutant: the order of messages is not authenticated.
PullInAnyOrder(message, ad) ==
    /\ message.state.header = reader.header /\ message.item.ad = ad
    /\ reader' = Advance(reader, message.item)
    /\ accepted' = Append(accepted, message.item)
    /\ verdict' = message.item.tag
    /\ UNCHANGED <<sending, rekeys>>

Pull(message, ad) ==
    /\ Verifies(message, ad)
    /\ reader' = Advance(reader, message.item)
    /\ accepted' = Append(accepted, message.item)
    /\ verdict' = message.item.tag
    /\ UNCHANGED <<sending, rekeys>>

\* Mutant: the state is advanced before the mac has been compared.
RejectAdvancing(message, ad) ==
    /\ ~Verifies(message, ad)
    /\ reader' = Advance(reader, message.item)
    /\ verdict' = "none"
    /\ UNCHANGED <<sending, accepted, rekeys>>

\* A message that is out of place, or pulled with other additional data.
Reject(message, ad) ==
    /\ ~Verifies(message, ad)
    /\ verdict' = "none"
    /\ UNCHANGED <<sending, reader, accepted, rekeys>>

\* Mutant: the decrypted tag is reported before the mac has been compared.
RejectDamagedReportingTag ==
    /\ reader.header # NoHeader
    /\ verdict' \in Tags
    /\ UNCHANGED <<sending, reader, accepted, rekeys>>

\* A message that was damaged under way, or is too short to be one.
RejectDamaged ==
    /\ reader.header # NoHeader
    /\ verdict' = "none"
    /\ UNCHANGED <<sending, reader, accepted, rekeys>>

\* The application may rekey either side, and has to agree on where.
RekeyWriter ==
    /\ writer.header # NoHeader
    /\ rekeys < MaxRekey
    /\ writer' = Rekey(writer)
    /\ rekeys' = rekeys + 1
    /\ UNCHANGED <<network, opened, pushed, nonces, receiving>>

RekeyReader ==
    /\ reader.header # NoHeader
    /\ rekeys < MaxRekey
    /\ reader' = Rekey(reader)
    /\ rekeys' = rekeys + 1
    /\ UNCHANGED <<sending, verdict, accepted>>

Next ==
    \/ \E h \in Headers : InitPush(h) \/ InitPull(h)
    \/ \E item \in Item : Push(item)
    \/ \E message \in network, ad \in AdditionalData :
           /\ reader.header # NoHeader
           /\ Pull(message, ad) \/ Reject(message, ad)
    \/ RejectDamaged
    \/ RekeyWriter \/ RekeyReader

Spec == Init /\ [][Next]_vars

-----------------------------------------------------------------------------

State == [header : Headers \cup {NoHeader}, counter : 0..CounterMod - 1,
          absorbed : Seq(Item), rekeyed : Seq(Nat)]

\* The type of every variable; a counter is at 0 only before the initialization.
TypeOK ==
    /\ writer \in State /\ (writer.counter = 0 => writer = Uninitialized)
    /\ reader \in State /\ (reader.counter = 0 => reader = Uninitialized)
    /\ verdict \in Tags \cup {"none"}
    /\ network \subseteq [state : State, item : Item]
    /\ opened \subseteq Headers
    /\ pushed \in [Headers -> Seq(Item)]
    /\ accepted \in Seq(Item)
    /\ nonces \subseteq Headers \X Nat \X (0..CounterMod - 1)
    /\ rekeys \in 0..MaxRekey

\* The nonce the next message will use has not been used under the same key: a
\* counter comes back to a value only after a rekeying, implicit or explicit.
NonceIsFresh == Nonce(writer) \notin nonces

\* The reader never falls out of step: whatever it has rejected, the message
\* that follows the last one it accepted still verifies.  (Explicit rekeyings
\* are the application's to keep in step.)
NextIsAcceptable ==
    reader.header # NoHeader /\ rekeys = 0
    /\ Len(accepted) < Len(pushed[reader.header])
        => \E message \in network :
               /\ message.state = reader
               /\ message.item = pushed[reader.header][Len(accepted) + 1]

\* A final tag is reported only for a message the writer pushed with that tag,
\* after everything pushed before it has been pulled.
FinalIsGenuine ==
    verdict = "FINAL" =>
        /\ Len(accepted) \in 1..Len(pushed[reader.header])
        /\ accepted = SubSeq(pushed[reader.header], 1, Len(accepted))
        /\ accepted[Len(accepted)].tag = "FINAL"

\* The stream implements the reliable channel StreamFifo over any transport.
Fifo == INSTANCE StreamFifo WITH
            Items <- Item, sent <- pushed, reading <- reader.header, received <- accepted

IsFifo == Fifo!Spec
=============================================================================
