------------------------ MODULE SecretStream_proofs ------------------------
(***************************************************************************)
(* Theorems about SecretStream for any streams, messages, tags and counter  *)
(* width: no counter is used twice under one key, and whatever the          *)
(* transport does the reader sees a reliable channel.                       *)
(***************************************************************************)
EXTENDS SecretStream, SequenceTheorems, TLAPS

-----------------------------------------------------------------------------
\* The operators on states.

LEMMA StartIsState ==
    ASSUME NEW h \in Headers
    PROVE  Start(h) \in State /\ Start(h).counter # 0
  BY StreamAssumption DEF Start, State

\* A counter that is incremented below its last value does not wrap.
LEMMA CounterStep ==
    ASSUME NEW c \in 1..CounterMod - 1
    PROVE  /\ (c + 1) % CounterMod \in 0..CounterMod - 1
           /\ (c + 1) % CounterMod # 0 => (c + 1) % CounterMod = c + 1
  BY StreamAssumption

LEMMA RekeyOfState ==
    ASSUME NEW state \in State
    PROVE  /\ Rekey(state) \in State
           /\ Rekey(state).counter = 1
           /\ Rekey(state).header = state.header
           /\ Rekey(state).absorbed = state.absorbed
           /\ Len(Rekey(state).rekeyed) = Len(state.rekeyed) + 1
<1>1. Len(state.absorbed) \in Nat
  BY DEF State
<1>2. /\ Append(state.rekeyed, Len(state.absorbed)) \in Seq(Nat)
      /\ Len(Append(state.rekeyed, Len(state.absorbed))) = Len(state.rekeyed) + 1
  BY <1>1 DEF State
<1> DEFINE more == Append(state.rekeyed, Len(state.absorbed))
<1>3. /\ Rekey(state) = [state EXCEPT !.counter = 1, !.rekeyed = more]
      /\ more \in Seq(Nat) /\ Len(more) = Len(state.rekeyed) + 1
  BY <1>2 DEF Rekey
<1> HIDE DEF more
<1>4. 1 \in 0..CounterMod - 1
  BY StreamAssumption
<1>5. Rekey(state) \in State
  BY <1>3, <1>4 DEF State
<1> QED
  BY <1>3, <1>5 DEF State

\* After a message the counter is back at 1 under a new key, or one higher.
LEMMA AdvanceOfState ==
    ASSUME NEW state \in State, NEW item \in Item, state.counter # 0
    PROVE  /\ Advance(state, item) \in State
           /\ Advance(state, item).counter # 0
           /\ Advance(state, item).header = state.header
           /\ Advance(state, item).absorbed = Append(state.absorbed, item)
           /\ \/ Len(Advance(state, item).rekeyed) = Len(state.rekeyed) + 1
              \/ /\ Len(Advance(state, item).rekeyed) = Len(state.rekeyed)
                 /\ Advance(state, item).counter = state.counter + 1
<1> DEFINE next == Increment(Absorb(state, item))
<1>1. state.counter \in 1..CounterMod - 1
  BY StreamAssumption DEF State
<1>2. /\ next.counter = (state.counter + 1) % CounterMod
      /\ next.header = state.header
      /\ next.absorbed = Append(state.absorbed, item)
      /\ next.rekeyed = state.rekeyed
  BY DEF Increment, Absorb, State
<1>3. next \in State
  <2> DEFINE more == Append(state.absorbed, item)
  <2>1. Absorb(state, item) = [state EXCEPT !.absorbed = more] /\ more \in Seq(Item)
    BY DEF Absorb, State
  <2> HIDE DEF more
  <2>2. Absorb(state, item) \in State /\ Absorb(state, item).counter = state.counter
    BY <2>1 DEF State
  <2> QED
    BY <1>1, <2>2, CounterStep DEF Increment, State
<1>4. CASE item.tag \in TagsWithRekey \/ next.counter = 0
  <2>1. Advance(state, item) = Rekey(next)
    BY <1>4 DEF Advance
  <2> HIDE DEF next
  <2> QED
    BY <1>2, <1>3, <2>1, RekeyOfState
<1>5. CASE ~(item.tag \in TagsWithRekey \/ next.counter = 0)
  <2>1. Advance(state, item) = next
    BY <1>5 DEF Advance
  <2> HIDE DEF next
  <2> QED
    BY <1>1, <1>2, <1>3, <1>5, <2>1, CounterStep
<1> QED
  BY <1>4, <1>5

-----------------------------------------------------------------------------
\* Types.

LEMMA InitTypes == Init => TypeOK
<1> SUFFICES ASSUME Init PROVE TypeOK
  OBVIOUS
<1>1. Uninitialized \in State
  <2>1. Uninitialized = [header |-> NoHeader, counter |-> 0, absorbed |-> <<>>,
                         rekeyed |-> <<>>]
    BY DEF Uninitialized, Start
  <2>2. 0 \in 0..CounterMod - 1
    BY StreamAssumption
  <2> QED
    BY <2>1, <2>2 DEF State
<1>2. \A h \in Headers : pushed[h] = <<>>
  BY DEF Init
<1> QED
  BY <1>1, StreamAssumption DEF Init, TypeOK

\* An initialized state does not have the counter at 0.
LEMMA InitializedCounter ==
    ASSUME TypeOK
    PROVE  /\ writer.header # NoHeader => writer.counter # 0 /\ writer.header \in Headers
           /\ reader.header # NoHeader => reader.counter # 0 /\ reader.header \in Headers
  BY DEF TypeOK, Uninitialized, Start, State

LEMMA TypeStep == TypeOK /\ [Next]_vars => TypeOK'
<1> SUFFICES ASSUME TypeOK, [Next]_vars PROVE TypeOK'
  OBVIOUS
<1> USE DEF sending, receiving
<1>1. ASSUME NEW h \in Headers, InitPush(h) PROVE TypeOK'
  BY <1>1, StartIsState DEF InitPush, TypeOK
<1>2. ASSUME NEW h \in Headers, InitPull(h) PROVE TypeOK'
  BY <1>2, StartIsState DEF InitPull, TypeOK
<1>3. ASSUME NEW item \in Item, Push(item) PROVE TypeOK'
  <2>1. writer \in State /\ writer.counter # 0 /\ writer.header \in Headers
    BY <1>3, InitializedCounter DEF Push, TypeOK
  <2>2. writer' \in State /\ writer'.counter # 0
    BY <1>3, <2>1, AdvanceOfState DEF Push
  <2>3. network' \subseteq [state : State, item : Item]
    BY <1>3, <2>1 DEF Push, TypeOK
  <2>4. pushed' \in [Headers -> Seq(Item)]
    BY <1>3, <2>1 DEF Push, TypeOK
  <2>5. nonces' \subseteq Headers \X Nat \X (0..CounterMod - 1)
    BY <1>3, <2>1 DEF Push, TypeOK, Nonce, State
  <2> QED
    BY <1>3, <2>2, <2>3, <2>4, <2>5 DEF Push, TypeOK
<1>4. ASSUME NEW message \in network, NEW ad \in AdditionalData,
             reader.header # NoHeader, Pull(message, ad)
      PROVE  TypeOK'
  <2>1. /\ reader \in State /\ reader.counter # 0
        /\ message.item \in Item /\ message.item.tag \in Tags
    BY <1>4, InitializedCounter DEF TypeOK, Item
  <2>2. reader' \in State /\ reader'.counter # 0
    BY <1>4, <2>1, AdvanceOfState DEF Pull
  <2> QED
    BY <1>4, <2>1, <2>2 DEF Pull, TypeOK
<1>5. ASSUME NEW message \in network, NEW ad \in AdditionalData, Reject(message, ad)
      PROVE  TypeOK'
  BY <1>5 DEF Reject, TypeOK
<1>6. CASE RejectDamaged
  BY <1>6 DEF RejectDamaged, TypeOK
<1>7. CASE RekeyWriter
  <2>1. writer' \in State /\ writer'.counter # 0
    BY <1>7, RekeyOfState DEF RekeyWriter, TypeOK
  <2>2. rekeys' \in 0..MaxRekey
    BY <1>7, StreamAssumption DEF RekeyWriter, TypeOK
  <2> QED
    BY <1>7, <2>1, <2>2 DEF RekeyWriter, TypeOK
<1>8. CASE RekeyReader
  <2>1. reader' \in State /\ reader'.counter # 0
    BY <1>8, RekeyOfState DEF RekeyReader, TypeOK
  <2>2. rekeys' \in 0..MaxRekey
    BY <1>8, StreamAssumption DEF RekeyReader, TypeOK
  <2> QED
    BY <1>8, <2>1, <2>2 DEF RekeyReader, TypeOK
<1>9. CASE UNCHANGED vars
  BY <1>9 DEF vars, TypeOK
<1> QED
  BY <1>1, <1>2, <1>3, <1>4, <1>5, <1>6, <1>7, <1>8, <1>9 DEF Next

\* Every variable keeps its type, and counters stay within their width and,
\* once a state is initialized, off zero.
THEOREM TypeCorrect == Spec => []TypeOK
  BY InitTypes, TypeStep, PTL DEF Spec

-----------------------------------------------------------------------------
\* Nonces.

\* Of the stream being written, the nonces used are older than the next one:
\* they belong to an earlier key, or to a lower counter under the same.
NonceInv ==
    /\ writer.header \in opened \cup {NoHeader}
    /\ \A n \in nonces :
        /\ n[1] \in opened
        /\ n[1] = writer.header =>
               \/ n[2] < Len(writer.rekeyed)
               \/ n[2] = Len(writer.rekeyed) /\ n[3] < writer.counter

LEMMA NonceStep == TypeOK /\ NonceInv /\ [Next]_vars => NonceInv'
<1> SUFFICES ASSUME TypeOK, NonceInv, [Next]_vars PROVE NonceInv'
  OBVIOUS
<1> USE DEF sending, receiving
<1>0. /\ writer \in State
      /\ Len(writer.rekeyed) \in Nat
      /\ \A n \in nonces : n[2] \in Nat /\ n[3] \in Nat
  BY DEF TypeOK, State
<1>1. ASSUME NEW h \in Headers, InitPush(h) PROVE NonceInv'
  BY <1>1 DEF InitPush, NonceInv, Start
<1>2. ASSUME NEW item \in Item, Push(item) PROVE NonceInv'
  <2>1. writer.counter # 0 /\ writer.header \in Headers
    BY <1>2, InitializedCounter DEF Push
  <2>2. /\ writer'.header = writer.header
        /\ \/ Len(writer'.rekeyed) = Len(writer.rekeyed) + 1
           \/ /\ Len(writer'.rekeyed) = Len(writer.rekeyed)
              /\ writer'.counter = writer.counter + 1
    BY <1>0, <1>2, <2>1, AdvanceOfState DEF Push
  <2>3. ASSUME NEW n \in nonces'
        PROVE  /\ n[1] \in opened'
               /\ n[1] = writer'.header =>
                      \/ n[2] < Len(writer'.rekeyed)
                      \/ n[2] = Len(writer'.rekeyed) /\ n[3] < writer'.counter
    <3>0. writer.counter \in Nat
      BY <1>0 DEF State
    <3>1. CASE n \in nonces
      BY <1>0, <1>2, <2>2, <3>0, <3>1 DEF Push, NonceInv
    <3>2. CASE n = Nonce(writer)
      <4>1. n[1] = writer.header /\ n[2] = Len(writer.rekeyed) /\ n[3] = writer.counter
        BY <3>2 DEF Nonce
      <4>2. writer.header \in opened'
        BY <1>2, <2>1, StreamAssumption DEF Push, NonceInv
      <4> QED
        BY <1>0, <2>2, <3>0, <4>1, <4>2
    <3> QED
      BY <1>2, <3>1, <3>2 DEF Push
  <2> QED
    BY <1>2, <2>2, <2>3 DEF Push, NonceInv
<1>3. CASE RekeyWriter
  <2>1. writer'.header = writer.header /\ Len(writer'.rekeyed) = Len(writer.rekeyed) + 1
    BY <1>0, <1>3, RekeyOfState DEF RekeyWriter
  <2> QED
    BY <1>0, <1>3, <2>1 DEF RekeyWriter, NonceInv
<1>4. CASE UNCHANGED sending
  BY <1>4 DEF NonceInv
<1> QED
  BY <1>1, <1>2, <1>3, <1>4 DEF Next, vars, InitPull, Pull, Reject, RejectDamaged,
     RekeyReader

\* No counter is used twice under one key, for any counter width and any mix of
\* messages, tags, explicit rekeyings and new streams.
THEOREM NonceIsFreshTheorem == Spec => []NonceIsFresh
<1>1. Init => NonceInv
  BY DEF Init, NonceInv, Uninitialized, Start
<1>2. TypeOK /\ NonceInv => NonceIsFresh
  <2> SUFFICES ASSUME TypeOK, NonceInv, Nonce(writer) \in nonces PROVE FALSE
    BY DEF NonceIsFresh
  <2>1. Len(writer.rekeyed) \in Nat /\ writer.counter \in Nat
    BY DEF TypeOK, State
  <2> QED
    BY <2>1 DEF NonceInv, Nonce
<1> QED
  BY <1>1, <1>2, TypeCorrect, NonceStep, PTL DEF Spec

-----------------------------------------------------------------------------
\* The reliable channel.

\* Where the two ends and the messages under way are in the streams.
ChannelInv ==
    /\ writer.header \in opened \cup {NoHeader}
    /\ writer.header # NoHeader => writer.absorbed = pushed[writer.header]
    /\ reader.header \in opened \cup {NoHeader}
    /\ reader.absorbed = accepted
    /\ \A h \in Headers : h \notin opened => pushed[h] = <<>>
    /\ \A message \in network :
        LET h == message.state.header
        IN  /\ h \in opened
            /\ Len(message.state.absorbed) < Len(pushed[h])
            /\ message.item = pushed[h][Len(message.state.absorbed) + 1]

LEMMA ChannelStep == TypeOK /\ ChannelInv /\ [Next]_vars => ChannelInv'
<1> SUFFICES ASSUME TypeOK, ChannelInv, [Next]_vars PROVE ChannelInv'
  OBVIOUS
<1> USE DEF sending, receiving
<1>0. writer \in State /\ reader \in State /\ opened \subseteq Headers
  BY DEF TypeOK
<1>1. ASSUME NEW h \in Headers, InitPush(h) PROVE ChannelInv'
  BY <1>0, <1>1, StreamAssumption DEF InitPush, ChannelInv, Start
<1>2. ASSUME NEW h \in Headers, InitPull(h) PROVE ChannelInv'
  BY <1>2 DEF InitPull, ChannelInv, Start
<1>3. ASSUME NEW item \in Item, Push(item) PROVE ChannelInv'
  <2> DEFINE h == writer.header
  <2>1. writer.counter # 0 /\ h \in Headers /\ h \in opened
    BY <1>3, InitializedCounter, StreamAssumption DEF Push, ChannelInv
  <2>2. /\ writer'.header = h
        /\ writer'.absorbed = Append(writer.absorbed, item)
    BY <1>0, <1>3, <2>1, AdvanceOfState DEF Push
  <2>3. /\ pushed \in [Headers -> Seq(Item)]
        /\ pushed' = [pushed EXCEPT ![h] = Append(pushed[h], item)]
        /\ writer.absorbed = pushed[h]
    BY <1>3, StreamAssumption DEF Push, TypeOK, ChannelInv
  <2>4. ASSUME NEW g \in Headers
        PROVE  /\ Len(pushed[g]) \in Nat
               /\ Len(pushed'[g]) >= Len(pushed[g])
               /\ \A i \in 1..Len(pushed[g]) : pushed'[g][i] = pushed[g][i]
    <3>1. CASE g = h
      BY <2>1, <2>3, <3>1
    <3>2. CASE g # h
      BY <2>3, <3>2
    <3> QED
      BY <3>1, <3>2
  <2>5. ASSUME NEW message \in network'
        PROVE  /\ message.state.header \in opened
               /\ Len(message.state.absorbed) < Len(pushed'[message.state.header])
               /\ message.item =
                      pushed'[message.state.header][Len(message.state.absorbed) + 1]
    <3>1. CASE message \in network
      <4>1. message.state \in State /\ Len(message.state.absorbed) \in Nat
        BY <3>1 DEF TypeOK, State
      <4> DEFINE g == message.state.header
                 k == Len(message.state.absorbed)
      <4>2. g \in opened /\ k < Len(pushed[g]) /\ message.item = pushed[g][k + 1]
        BY <3>1 DEF ChannelInv
      <4>3. k \in Nat /\ g \in Headers
        BY <1>0, <4>1, <4>2
      <4> HIDE DEF g, k
      <4>4. k < Len(pushed'[g]) /\ message.item = pushed'[g][k + 1]
        BY <2>4, <4>2, <4>3
      <4> QED
        BY <4>2, <4>4 DEF g, k
    <3>2. CASE message = [state |-> writer, item |-> item]
      BY <2>1, <2>3, <3>2
    <3> QED
      BY <1>3, <3>1, <3>2 DEF Push
  <2>6. \A g \in Headers : g \notin opened => pushed'[g] = <<>>
    BY <2>1, <2>3 DEF ChannelInv
  <2>7. writer'.absorbed = pushed'[h]
    BY <2>1, <2>2, <2>3
  <2> QED
    BY <1>3, <2>1, <2>2, <2>5, <2>6, <2>7 DEF Push, ChannelInv
<1>4. ASSUME NEW message \in network, NEW ad \in AdditionalData,
             reader.header # NoHeader, Pull(message, ad)
      PROVE  ChannelInv'
  <2>1. reader.counter # 0 /\ message.item \in Item
    BY <1>4, InitializedCounter DEF TypeOK
  <2>2. /\ reader'.header = reader.header
        /\ reader'.absorbed = Append(reader.absorbed, message.item)
    BY <1>0, <1>4, <2>1, AdvanceOfState DEF Pull
  <2> QED
    BY <1>4, <2>2 DEF Pull, ChannelInv
<1>5. CASE RekeyWriter
  BY <1>0, <1>5, RekeyOfState DEF RekeyWriter, ChannelInv
<1>6. CASE RekeyReader
  BY <1>0, <1>6, RekeyOfState DEF RekeyReader, ChannelInv
<1>7. CASE UNCHANGED <<sending, reader, accepted>>
  BY <1>7 DEF ChannelInv
<1> QED
  BY <1>1, <1>2, <1>3, <1>4, <1>5, <1>6, <1>7 DEF Next, vars, Reject, RejectDamaged

\* A pull that succeeds yields the next item of the stream the reader has opened.
LEMMA PullReceives ==
    ASSUME TypeOK, ChannelInv, NEW message \in network, NEW ad \in AdditionalData,
           reader.header # NoHeader, Pull(message, ad)
    PROVE  /\ reader.header \in Headers
           /\ reader'.header = reader.header
           /\ Len(accepted) < Len(pushed[reader.header])
           /\ accepted' = Append(accepted, pushed[reader.header][Len(accepted) + 1])
<1>1. /\ reader.counter # 0 /\ reader.header \in Headers
      /\ reader \in State /\ message.item \in Item
  BY InitializedCounter DEF TypeOK
<1>2. reader'.header = reader.header
  BY <1>1, AdvanceOfState DEF Pull
<1> QED
  BY <1>1, <1>2 DEF Pull, Verifies, ChannelInv

\* Over a transport that loses, repeats, reorders, damages and mixes up messages
\* the stream implements the reliable channel of StreamFifo.
THEOREM StreamIsFifo == Spec => IsFifo
<1>1. Init => Fifo!Init /\ ChannelInv
  BY DEF Init, Fifo!Init, ChannelInv, Uninitialized, Start
<1>2. TypeOK /\ ChannelInv /\ [Next]_vars => [Fifo!Next]_Fifo!vars
  <2> SUFFICES ASSUME TypeOK, ChannelInv, [Next]_vars
               PROVE  Fifo!Next \/ UNCHANGED Fifo!vars
    OBVIOUS
  <2> USE DEF sending, receiving
  <2>0. writer \in State /\ reader \in State
    BY DEF TypeOK
  <2>1. ASSUME NEW h \in Headers, InitPush(h) PROVE UNCHANGED Fifo!vars
    BY <2>1 DEF InitPush, Fifo!vars
  <2>2. ASSUME NEW h \in Headers, InitPull(h) PROVE Fifo!Open(h)
    BY <2>2 DEF InitPull, Fifo!Open, Start
  <2>3. ASSUME NEW item \in Item, Push(item) PROVE Fifo!Send(writer.header, item)
    BY <2>3 DEF Push, Fifo!Send
  <2>4. ASSUME NEW message \in network, NEW ad \in AdditionalData,
               reader.header # NoHeader, Pull(message, ad)
        PROVE  Fifo!Receive
    BY <2>4, PullReceives DEF Pull, Fifo!Receive
  <2>5. CASE RekeyWriter \/ RekeyReader
    BY <2>0, <2>5, RekeyOfState DEF RekeyWriter, RekeyReader, Fifo!vars
  <2>6. CASE UNCHANGED <<sending, reader, accepted>>
    BY <2>6 DEF Fifo!vars
  <2>7. ASSUME NEW item \in Item, Push(item) PROVE writer.header \in Headers
    BY <2>7, InitializedCounter DEF Push
  <2> QED
    BY <2>1, <2>2, <2>3, <2>4, <2>5, <2>6, <2>7
       DEF Next, vars, Reject, RejectDamaged, Fifo!Next
<1> QED
  BY <1>1, <1>2, TypeCorrect, ChannelStep, PTL DEF Spec, IsFifo, Fifo!Spec

-----------------------------------------------------------------------------
\* The end of a stream.

\* What has been pulled is a prefix of what was pushed, and a final tag that was
\* reported is that of the last item pulled.
PrefixInv ==
    /\ reader.header # NoHeader =>
        /\ Len(accepted) <= Len(pushed[reader.header])
        /\ \A i \in 1..Len(accepted) : accepted[i] = pushed[reader.header][i]
    /\ verdict = "FINAL" =>
        /\ reader.header # NoHeader
        /\ Len(accepted) > 0
        /\ accepted[Len(accepted)].tag = "FINAL"

LEMMA PrefixStep == TypeOK /\ ChannelInv /\ PrefixInv /\ [Next]_vars => PrefixInv'
<1> SUFFICES ASSUME TypeOK, ChannelInv, PrefixInv, [Next]_vars PROVE PrefixInv'
  OBVIOUS
<1> USE DEF sending, receiving
<1>0. /\ writer \in State /\ reader \in State
      /\ accepted \in Seq(Item) /\ pushed \in [Headers -> Seq(Item)]
  BY DEF TypeOK
<1>1. ASSUME NEW h \in Headers, InitPush(h) PROVE PrefixInv'
  BY <1>1 DEF InitPush, PrefixInv
<1>2. ASSUME NEW h \in Headers, InitPull(h) PROVE PrefixInv'
  BY <1>0, <1>2 DEF InitPull, PrefixInv, Start
<1>3. ASSUME NEW item \in Item, Push(item) PROVE PrefixInv'
  <2> DEFINE h == reader.header
  <2>1. writer.header \in Headers
    BY <1>3, InitializedCounter DEF Push
  <2>2. CASE h = NoHeader
    BY <1>3, <2>2 DEF Push, PrefixInv
  <2>3. CASE h # NoHeader
    <3>1. h \in Headers
      BY <2>3, InitializedCounter
    <3>2. /\ Len(pushed'[h]) >= Len(pushed[h])
          /\ \A i \in 1..Len(pushed[h]) : pushed'[h][i] = pushed[h][i]
      <4>1. CASE h = writer.header
        BY <1>0, <1>3, <2>1, <4>1 DEF Push
      <4>2. CASE h # writer.header
        BY <1>0, <1>3, <3>1, <4>2 DEF Push
      <4> QED
        BY <4>1, <4>2
    <3> QED
      BY <1>0, <1>3, <2>3, <3>1, <3>2 DEF Push, PrefixInv
  <2> QED
    BY <2>2, <2>3
<1>4. ASSUME NEW message \in network, NEW ad \in AdditionalData,
             reader.header # NoHeader, Pull(message, ad)
      PROVE  PrefixInv'
  <2> DEFINE h == reader.header
  <2>1. /\ h \in Headers /\ reader'.header = h
        /\ Len(accepted) < Len(pushed[h])
        /\ accepted' = Append(accepted, pushed[h][Len(accepted) + 1])
        /\ pushed' = pushed
    BY <1>4, PullReceives DEF Pull
  <2>2. pushed[h] \in Seq(Item) /\ Len(accepted) + 1 \in 1..Len(pushed[h])
    BY <1>0, <2>1
  <2>3. /\ Len(accepted') = Len(accepted) + 1
        /\ \A i \in 1..Len(accepted) : accepted'[i] = accepted[i]
        /\ accepted'[Len(accepted) + 1] = pushed[h][Len(accepted) + 1]
    BY <1>0, <2>1, <2>2
  <2>4. \A i \in 1..Len(accepted') : accepted'[i] = pushed[h][i]
    BY <1>0, <1>4, <2>3 DEF PrefixInv
  <2>5. verdict' = accepted'[Len(accepted')].tag
    BY <1>0, <1>4, <2>3 DEF Pull
  <2> QED
    BY <1>0, <1>4, <2>1, <2>2, <2>3, <2>4, <2>5 DEF PrefixInv
<1>5. CASE UNCHANGED <<sending, reader, accepted>> /\ verdict' = "none"
  BY <1>5 DEF PrefixInv
<1>6. CASE RekeyWriter
  BY <1>6 DEF RekeyWriter, PrefixInv
<1>7. CASE RekeyReader
  BY <1>0, <1>7, RekeyOfState DEF RekeyReader, PrefixInv
<1>8. CASE UNCHANGED vars
  BY <1>8 DEF vars, PrefixInv
<1> QED
  BY <1>1, <1>2, <1>3, <1>4, <1>5, <1>6, <1>7, <1>8 DEF Next, Reject, RejectDamaged

\* A final tag is reported only at the genuine end of what was pushed before it.
THEOREM FinalIsGenuineTheorem == Spec => []FinalIsGenuine
<1>1. Init => ChannelInv /\ PrefixInv
  BY DEF Init, ChannelInv, PrefixInv, Uninitialized, Start
<1>2. TypeOK /\ PrefixInv => FinalIsGenuine
  <2> SUFFICES ASSUME TypeOK, PrefixInv, verdict = "FINAL"
               PROVE  /\ Len(accepted) \in 1..Len(pushed[reader.header])
                      /\ accepted = SubSeq(pushed[reader.header], 1, Len(accepted))
                      /\ accepted[Len(accepted)].tag = "FINAL"
    BY DEF FinalIsGenuine
  <2> DEFINE all == pushed[reader.header]
  <2>1. reader.header \in Headers /\ all \in Seq(Item) /\ accepted \in Seq(Item)
    BY InitializedCounter DEF PrefixInv, TypeOK
  <2>2. /\ Len(accepted) <= Len(all) /\ Len(accepted) > 0
        /\ \A i \in 1..Len(accepted) : accepted[i] = all[i]
        /\ accepted[Len(accepted)].tag = "FINAL"
    BY DEF PrefixInv
  <2> HIDE DEF all
  <2>3. Len(accepted) \in 1..Len(all)
    BY <2>1, <2>2
  <2>4. accepted = SubSeq(all, 1, Len(accepted))
    BY <2>1, <2>2, <2>3
  <2> QED
    BY <2>2, <2>3, <2>4 DEF all
<1> QED
  BY <1>1, <1>2, TypeCorrect, ChannelStep, PrefixStep, PTL DEF Spec

-----------------------------------------------------------------------------
\* The reader does not fall out of step.

\* A state is the one its stream begins with, or follows from that of the message before.
Follows(state) ==
    /\ Len(state.absorbed) = 0 => state = Start(state.header)
    /\ \A m \in network :
        /\ m.state.header = state.header
        /\ Len(m.state.absorbed) + 1 = Len(state.absorbed)
        => state = Advance(m.state, m.item)

\* As long as nobody has rekeyed explicitly, there is a message for every place of a
\* stream, all for one place have one state, and that of every message and of both ends
\* follows from the message before it.
LinkInv ==
    rekeys = 0 =>
        /\ \A h \in Headers : \A k \in 1..Len(pushed[h]) : \E m \in network :
            m.state.header = h /\ Len(m.state.absorbed) + 1 = k
        /\ \A m, n \in network :
            /\ m.state.header = n.state.header
            /\ Len(m.state.absorbed) = Len(n.state.absorbed)
            => m.state = n.state
        /\ \A m \in network : Follows(m.state)
        /\ writer.header # NoHeader => Follows(writer)
        /\ reader.header # NoHeader => Follows(reader)

LEMMA LinkStep == TypeOK /\ ChannelInv /\ PrefixInv /\ LinkInv /\ [Next]_vars => LinkInv'
<1> SUFFICES ASSUME TypeOK, ChannelInv, PrefixInv, LinkInv, [Next]_vars, rekeys' = 0
             PROVE  LinkInv'
  BY DEF LinkInv
<1> USE DEF sending, receiving
<1>0. /\ writer \in State /\ reader \in State /\ rekeys \in Nat
      /\ accepted \in Seq(Item) /\ pushed \in [Headers -> Seq(Item)]
      /\ \A m \in network : m.state \in State /\ m.item \in Item
      /\ \A s \in State : Len(s.absorbed) \in Nat
  BY DEF TypeOK, State
<1>1. ASSUME NEW h \in Headers, Len(Start(h).absorbed) = 0, network' = network
      PROVE  Follows(Start(h))'
  BY <1>0, <1>1 DEF Follows, Start
<1>2. ASSUME NEW h \in Headers, InitPush(h) PROVE LinkInv'
  BY <1>1, <1>2 DEF InitPush, LinkInv, Follows, Start
<1>3. ASSUME NEW h \in Headers, InitPull(h) PROVE LinkInv'
  BY <1>1, <1>3 DEF InitPull, LinkInv, Follows, Start
<1>4. ASSUME NEW item \in Item, Push(item) PROVE LinkInv'
  <2> DEFINE h == writer.header
             all == Len(writer.absorbed)
             new == [state |-> writer, item |-> item]
  <2>1. /\ h \in Headers /\ h # NoHeader /\ writer.counter # 0 /\ rekeys = 0
        /\ writer.absorbed = pushed[h] /\ all \in Nat
    BY <1>0, <1>4, InitializedCounter DEF Push, ChannelInv
  <2>2. /\ writer' = Advance(writer, item) /\ writer'.header = h
        /\ Len(writer'.absorbed) = all + 1
    BY <1>0, <1>4, <2>1, AdvanceOfState DEF Push
  <2>3. /\ network' = network \cup {new} /\ UNCHANGED <<reader, accepted, rekeys>>
        /\ Len(pushed'[h]) = all + 1
        /\ \A g \in Headers : g # h => pushed'[g] = pushed[g]
    BY <1>0, <1>4, <2>1 DEF Push
  <2>4. \A m \in network : m.state.header = h => Len(m.state.absorbed) < all
    BY <2>1 DEF ChannelInv
  <2>5. reader.header = h => Len(reader.absorbed) <= all
    BY <2>1 DEF ChannelInv, PrefixInv
  <2>6. new.state = writer /\ new.item = item
    OBVIOUS
  <2> HIDE DEF new, all
  <2>7. \A g \in Headers : \A k \in 1..Len(pushed'[g]) : \E m \in network' :
          m.state.header = g /\ Len(m.state.absorbed) + 1 = k
    <3> SUFFICES ASSUME NEW g \in Headers, NEW k \in 1..Len(pushed'[g])
                 PROVE  \E m \in network' :
                          m.state.header = g /\ Len(m.state.absorbed) + 1 = k
      OBVIOUS
    <3>1. CASE k \in 1..Len(pushed[g])
      BY <2>1, <2>3, <3>1 DEF LinkInv
    <3>2. CASE k \notin 1..Len(pushed[g])
      <4>1. g = h /\ k = all + 1
        BY <2>1, <2>3, <3>2 DEF all
      <4> QED
        BY <2>3, <2>6, <4>1 DEF all
    <3> QED
      BY <3>1, <3>2
  <2>8. \A m, n \in network' :
          /\ m.state.header = n.state.header
          /\ Len(m.state.absorbed) = Len(n.state.absorbed)
          => m.state = n.state
    BY <1>0, <2>1, <2>3, <2>4, <2>6 DEF LinkInv, all
  <2>9. ASSUME NEW s \in State, Follows(s), s.header = h => Len(s.absorbed) <= all
        PROVE  /\ Len(s.absorbed) = 0 => s = Start(s.header)
               /\ \A m \in network' :
                    /\ m.state.header = s.header
                    /\ Len(m.state.absorbed) + 1 = Len(s.absorbed)
                    => s = Advance(m.state, m.item)
    BY <1>0, <2>1, <2>3, <2>6, <2>9 DEF Follows, all
  <2>10. \A m \in network' : Follows(m.state)'
    <3> SUFFICES ASSUME NEW m \in network' PROVE Follows(m.state)'
      OBVIOUS
    <3>1. m.state \in State /\ Follows(m.state)
      BY <1>0, <2>1, <2>3, <2>6 DEF LinkInv
    <3>2. m.state.header = h => Len(m.state.absorbed) <= all
      BY <1>0, <2>1, <2>3, <2>4, <2>6 DEF all
    <3> QED
      BY <2>9, <3>1, <3>2 DEF Follows
  <2>11. Follows(writer)'
    BY <1>0, <2>1, <2>2, <2>3, <2>4, <2>6 DEF Follows, all
  <2>12. reader.header # NoHeader => Follows(reader)'
    BY <1>0, <2>1, <2>3, <2>5, <2>9 DEF Follows, LinkInv
  <2> QED
    BY <2>3, <2>7, <2>8, <2>10, <2>11, <2>12 DEF LinkInv
<1>5. ASSUME NEW message \in network, NEW ad \in AdditionalData,
             reader.header # NoHeader, Pull(message, ad)
      PROVE  LinkInv'
  <2>1. /\ reader.counter # 0 /\ message.item \in Item /\ message.state = reader
        /\ reader' = Advance(reader, message.item)
        /\ UNCHANGED <<writer, network, pushed, rekeys>>
    BY <1>0, <1>5, InitializedCounter DEF Pull, Verifies
  <2>2. /\ reader'.header = reader.header
        /\ Len(reader'.absorbed) = Len(reader.absorbed) + 1
    BY <1>0, <2>1, AdvanceOfState
  <2>3. ASSUME NEW m \in network, m.state.header = reader.header,
               Len(m.state.absorbed) = Len(reader.absorbed)
        PROVE  m.state = reader /\ m.item = message.item
    <3>1. rekeys = 0
      BY <2>1
    <3>2. m.state = message.state
      BY <2>1, <2>3, <3>1 DEF LinkInv
    <3> QED
      BY <2>1, <2>3, <3>2 DEF ChannelInv
  <2>4. Follows(reader)'
    <3>1. Len(reader.absorbed) \in Nat /\ Len(reader'.absorbed) # 0
      BY <1>0, <2>2
    <3>2. ASSUME NEW m \in network, m.state.header = reader'.header,
                 Len(m.state.absorbed) + 1 = Len(reader'.absorbed)
          PROVE  reader' = Advance(m.state, m.item)
      <4>1. Len(m.state.absorbed) \in Nat
        BY <1>0
      <4> QED
        BY <2>1, <2>2, <2>3, <3>1, <3>2, <4>1
    <3> QED
      BY <2>1, <3>1, <3>2 DEF Follows
  <2> QED
    BY <2>1, <2>4 DEF LinkInv, Follows
<1>6. CASE RekeyWriter \/ RekeyReader
  BY <1>0, <1>6 DEF RekeyWriter, RekeyReader
<1>7. CASE UNCHANGED <<sending, reader, accepted, rekeys>>
  BY <1>7 DEF LinkInv, Follows
<1> QED
  BY <1>2, <1>3, <1>4, <1>5, <1>6, <1>7 DEF Next, vars, Reject, RejectDamaged

\* Whatever the reader has rejected, the message after the last one it accepted verifies:
\* a message that is lost, damaged or out of place costs no message but itself.
THEOREM NextIsAcceptableTheorem == Spec => []NextIsAcceptable
<1>1. Init => ChannelInv /\ PrefixInv /\ LinkInv
  BY DEF Init, ChannelInv, PrefixInv, LinkInv, Follows, Uninitialized, Start
<1>2. TypeOK /\ ChannelInv /\ LinkInv => NextIsAcceptable
  <2> SUFFICES ASSUME TypeOK, ChannelInv, LinkInv, reader.header # NoHeader, rekeys = 0,
                      Len(accepted) < Len(pushed[reader.header])
               PROVE  \E message \in network :
                        /\ message.state = reader
                        /\ message.item = pushed[reader.header][Len(accepted) + 1]
    BY DEF NextIsAcceptable
  <2> DEFINE h == reader.header
             k == Len(accepted)
  <2>1. /\ h \in Headers /\ k \in Nat /\ Len(pushed[h]) \in Nat /\ reader \in State
        /\ Len(reader.absorbed) = k
        /\ \A m \in network : Len(m.state.absorbed) \in Nat
    BY InitializedCounter DEF TypeOK, State, ChannelInv
  <2>2. PICK next \in network : next.state.header = h /\ Len(next.state.absorbed) = k
    <3>1. k + 1 \in 1..Len(pushed[h])
      BY <2>1
    <3>2. \E m \in network : m.state.header = h /\ Len(m.state.absorbed) + 1 = k + 1
      BY <2>1, <3>1 DEF LinkInv
    <3> QED
      BY <2>1, <3>2
  <2>3. next.item = pushed[h][k + 1]
    BY <2>2 DEF ChannelInv
  <2>4. Follows(next.state) /\ Follows(reader)
    BY <2>2 DEF LinkInv
  <2>5. next.state = reader
    <3>1. CASE k = 0
      BY <2>1, <2>2, <2>4, <3>1 DEF Follows
    <3>2. CASE k # 0
      <4>1. k \in 1..Len(pushed[h])
        BY <2>1, <3>2
      <4>2. PICK m \in network : m.state.header = h /\ Len(m.state.absorbed) + 1 = k
        BY <2>1, <4>1 DEF LinkInv
      <4> QED
        BY <2>1, <2>2, <2>4, <4>2 DEF Follows
    <3> QED
      BY <3>1, <3>2
  <2> QED
    BY <2>2, <2>3, <2>5
<1> QED
  BY <1>1, <1>2, TypeCorrect, ChannelStep, PrefixStep, LinkStep, PTL DEF Spec
=============================================================================
