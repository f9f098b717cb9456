----------------------- MODULE InternalRandom_proofs -----------------------
(***************************************************************************)
(* Theorems about InternalRandom, for any threads, kernels, lengths of the *)
(* pool and numbers of calls.  The inductive invariant StreamsInv has      *)
(* three parts: where the threads are and what they have found out, how    *)
(* the global state of a process comes to be as long as nobody races on    *)
(* it, and how far the words that were handed out reach into each key      *)
(* stream.                                                                 *)
(***************************************************************************)
EXTENDS Naturals, Sequences, FiniteSets, TLAPS

CONSTANTS Threads, Kernels, PoolWords, MaxCalls

VARIABLES kernel, pc, op, stream, global, ended, seeds, calls, drawn, history

INSTANCE InternalRandom

Kernel == kernel /\ "raced" \notin history

\* What explains that a word is handed out twice has not happened.
Clean == Kernel /\ "leftover" \notin history /\ "masked" \notin history

Once == {"init", "probe", "mark"}
Stirrings == {"stir", "init", "probe", "mark", "pid", "seed"}

Links == {NoSeed, "buf", "pool"} \cup (Processes \X Threads \X Nat)
Keys == {key \in Seq(Links) : Len(key) > 0}
Streams == [initialized : BOOLEAN, outleft : 0..PoolWords, key : Keys, pool : Keys,
            inherited : BOOLEAN]

StateOK ==
    /\ kernel \in BOOLEAN
    /\ pc \in [Processes -> [Threads -> Labels]]
    /\ op \in [Processes -> [Threads -> {"none", "buf", "random", "stir"}]]
    /\ stream \in [Processes -> [Threads -> Streams]]
    /\ global \in [Processes -> [initialized : BOOLEAN, available : BOOLEAN,
                                 pid : Processes \cup {"none"}]]
    /\ ended \subseteq Processes
    /\ seeds \in [Processes -> [Threads -> Nat]]
    /\ calls \in 0..MaxCalls
    /\ drawn \subseteq Keys \X Nat
    /\ history \subseteq Happenings

\* Where a thread is, and whose stream it has.
Threading(p, t) ==
    /\ pc[p][t] = "check" => op[p][t] \in {"buf", "random"}
    /\ pc[p][t] \in Stirrings => op[p][t] # "none"
    /\ pc[p][t] \in Stirrings \ {"stir"} => stream[p][t].outleft = 0
    /\ pc[p][t] \in {"check", "buf", "random", "pop"} => stream[p][t].initialized
    /\ pc[p][t] = "pop" => stream[p][t].outleft > 0
    /\ stream[p][t].outleft > 0 => stream[p][t].initialized
    /\ pc[p][t] = "unborn" => p = "child"
    /\ stream[p][t].inherited => p = "child" /\ pc[p][t] # "unborn" /\ stream[p][t].initialized

\* A parent that has seeded a stream has recorded its pid, and no other.
Recorded ==
    /\ global["parent"].pid # "child"
    /\ \A t \in Threads :
         stream["parent"][t].initialized \/ pc["parent"][t] = "seed" =>
           global["parent"].pid = "parent"

\* The seed of every key was given to a thread.
Numbered == \A p \in Processes, t \in Threads : IsKey(stream[p][t].key) /\ IsKey(stream[p][t].pool)

\* If nobody races, a process finds out once that getrandom() works, knows it from then
\* on, and seeds every stream.
Probed ==
    \A p \in Processes :
      /\ \A t, u \in Threads : pc[p][t] \in Once /\ pc[p][u] \in Once => t = u
      /\ \A t \in Threads :
           /\ pc[p][t] \in Once => ~global[p].initialized
           /\ pc[p][t] = "mark" => global[p].available
           /\ pc[p][t] \in {"pid", "seed"} => global[p].initialized
           /\ stream[p][t].initialized => stream[p][t].key[1] # NoSeed
      /\ global[p].initialized => global[p].available

\* A child has its own pid only if one of its threads has stirred, and only with that can
\* a thread draw from an inherited stream.
Related ==
    /\ \A t \in Threads :
         /\ global["child"].pid = "child"
         /\ stream["child"][t].inherited
         /\ pc["child"][t] # "seed"
         => \E u \in Threads : u # t /\ pc["child"][u] # "unborn"
    /\ "masked" \in history =>
         \E t, u \in Threads : t # u /\ pc["child"][t] # "unborn" /\ pc["child"][u] # "unborn"
    /\ \A p \in Processes, t \in Threads :
         stream[p][t].inherited /\ pc[p][t] \in {"buf", "random"} => "masked" \in history

\* The seed of a word.
Seed(word) == word[1][1]

\* A stream that is a thread's own has the thread's last seed; its key is longer than that
\* of every word handed out from that seed, and of those of its pool none is left in it.
Ahead(p, t) ==
    LET s == stream[p][t]
    IN  s.initialized /\ ~s.inherited =>
          /\ seeds[p][t] > 0
          /\ s.key[1] = <<p, t, seeds[p][t]>>
          /\ s.outleft > 0 => s.pool[1] = s.key[1] /\ Len(s.pool) < Len(s.key)
          /\ \A word \in drawn : Seed(word) = s.key[1] =>
               /\ Len(word[1]) < Len(s.key)
               /\ s.outleft > 0 /\ word[1] = s.pool => word[2] >= s.outleft

\* No word is of a seed that is still to come.
SeedsArePast ==
    \A word \in drawn : \E p \in Processes, t \in Threads : \E n \in 1..seeds[p][t] :
      Seed(word) = <<p, t, n>>

Unrepeated ==
    /\ "repeated" \notin history
    /\ SeedsArePast
    /\ \A p \in Processes, t \in Threads : Ahead(p, t)

StreamsInv ==
    /\ StateOK
    /\ \A p \in Processes, t \in Threads : Threading(p, t)
    /\ Recorded
    /\ OnlyChildrenAreRefused
    /\ Numbered
    /\ Kernel => Probed /\ Related
    /\ Clean => Unrepeated

-----------------------------------------------------------------------------
\* Keys, and the ways a variable changes.

LEMMA KeyFacts ==
    /\ Zeros \in Keys /\ Zeros[1] = NoSeed
    /\ \A key \in Keys :
         /\ Len(key) \in Nat /\ Len(key) > 0
         /\ Append(key, "buf") \in Keys /\ Append(key, "pool") \in Keys
         /\ Append(key, "buf")[1] = key[1] /\ Append(key, "pool")[1] = key[1]
         /\ Len(Append(key, "buf")) = Len(key) + 1
         /\ Len(Append(key, "pool")) = Len(key) + 1
    /\ \A p \in Processes, t \in Threads, n \in Nat :
         /\ << <<p, t, n>> >> \in Keys /\ << <<p, t, n>> >>[1] = <<p, t, n>>
         /\ <<p, t, n>> # NoSeed
  BY DEF Keys, Links, Zeros, NoSeed

LEMMA NoStreamFacts ==
    ASSUME InternalParameters
    PROVE  /\ NoStream \in Streams /\ ~NoStream.initialized /\ ~NoStream.inherited
           /\ NoStream.outleft = 0 /\ NoStream.key = Zeros /\ NoStream.pool = Zeros
  BY KeyFacts DEF NoStream, Streams, InternalParameters

\* g is f but for x at p and t.
Changed(f, g, p, t, x) ==
    /\ g[p][t] = x
    /\ \A q \in Processes, u \in Threads : q # p \/ u # t => g[q][u] = f[q][u]

Ops == {"none", "buf", "random", "stir"}
Globals == [initialized : BOOLEAN, available : BOOLEAN, pid : Processes \cup {"none"}]

LEMMA Moves ==
    ASSUME StateOK, NEW p \in Processes, NEW t \in Threads, NEW to \in Labels, Goto(p, t, to)
    PROVE  pc' \in [Processes -> [Threads -> Labels]] /\ Changed(pc, pc', p, t, to)
  BY DEF StateOK, Goto, Changed

LEMMA Returns ==
    ASSUME StateOK, NEW p \in Processes, NEW t \in Threads, Return(p, t)
    PROVE  /\ pc' \in [Processes -> [Threads -> Labels]] /\ Changed(pc, pc', p, t, "idle")
           /\ op' \in [Processes -> [Threads -> Ops]] /\ Changed(op, op', p, t, "none")
<1>1. "idle" \in Labels /\ "none" \in Ops
  BY DEF Labels, Ops
<1>2. Goto(p, t, "idle") /\ op' = [op EXCEPT ![p][t] = "none"]
  BY DEF Return
<1>3. op \in [Processes -> [Threads -> Ops]]
  BY DEF StateOK, Ops
<1> QED
  BY <1>1, <1>2, <1>3, Moves DEF Changed

LEMMA Turns ==
    ASSUME StateOK, NEW p \in Processes, NEW t \in Threads, NEW s \in Streams,
           stream' = [stream EXCEPT ![p][t] = s]
    PROVE  stream' \in [Processes -> [Threads -> Streams]] /\ Changed(stream, stream', p, t, s)
  BY DEF StateOK, Changed

\* What a step leaves of a stream that it does not touch.
LEMMA AheadKept ==
    ASSUME NEW p, NEW t, Ahead(p, t), drawn' = drawn,
           stream'[p][t] = stream[p][t], seeds'[p][t] = seeds[p][t]
    PROVE  Ahead(p, t)'
  BY DEF Ahead

-----------------------------------------------------------------------------
\* Steps that neither draw, nor seed, nor touch a stream.

\* What they keep, whatever else they do.
LEMMA QuietStep ==
    ASSUME StreamsInv, UNCHANGED <<kernel, stream, seeds, drawn>>,
           history \subseteq history', "repeated" \in history' => "repeated" \in history
    PROVE  Numbered' /\ (Clean' => Unrepeated')
<1>5. Numbered'
  BY DEF StreamsInv, Numbered, IsKey
<1> SUFFICES ASSUME Clean' PROVE Unrepeated'
  BY <1>5
<1>1. Clean
  BY DEF Clean, Kernel
<1>2. Unrepeated
  BY <1>1 DEF StreamsInv
<1>3. SeedsArePast'
  BY <1>2 DEF Unrepeated, SeedsArePast, Seed
<1>4. \A p \in Processes, t \in Threads : Ahead(p, t)'
  BY <1>2, AheadKept DEF Unrepeated
<1> QED
  BY <1>2, <1>3, <1>4 DEF Unrepeated

LEMMA StepOfCall ==
    ASSUME InternalParameters, StreamsInv, UNCHANGED kernel, NEW p \in Processes, NEW t \in Threads,
           NEW f \in {"buf", "random", "stir"}, Begin(p, t, f)
    PROVE  StreamsInv'
<1> DEFINE to == IF f = "random" /\ stream[p][t].outleft > 0 THEN "pop"
                 ELSE IF f = "stir" \/ ~stream[p][t].initialized THEN "stir" ELSE "check"
<1>1. /\ pc[p][t] = "idle" /\ calls < MaxCalls /\ calls' = calls + 1
      /\ op' = [op EXCEPT ![p][t] = f] /\ Goto(p, t, to)
      /\ UNCHANGED <<stream, global, ended, seeds, drawn, history>>
  BY DEF Begin
<1>2. to \in Labels /\ to \in {"pop", "stir", "check"}
      /\ (to = "pop" => stream[p][t].outleft > 0) /\ (to = "check" => stream[p][t].initialized)
      /\ (to = "check" => f # "stir")
  BY DEF Labels
<1> HIDE DEF to
<1>3. pc' \in [Processes -> [Threads -> Labels]] /\ Changed(pc, pc', p, t, to)
  BY <1>1, <1>2, Moves DEF StreamsInv
<1>4. op' \in [Processes -> [Threads -> Ops]] /\ Changed(op, op', p, t, f)
  BY <1>1 DEF StreamsInv, StateOK, Ops, Changed
<1>5. StateOK'
  BY <1>1, <1>3, <1>4 DEF StreamsInv, StateOK, InternalParameters, Ops
<1>6. \A q \in Processes, u \in Threads : Threading(q, u)'
  <2>1. Threading(p, t)'
    BY <1>1, <1>2, <1>3, <1>4 DEF StreamsInv, Threading, Changed, Stirrings
  <2>2. ASSUME NEW q \in Processes, NEW u \in Threads, q # p \/ u # t PROVE Threading(q, u)'
    BY <1>1, <1>2, <1>3, <1>4, <2>2 DEF StreamsInv, Threading, Changed
  <2> QED
    BY <2>1, <2>2
<1>10. Recorded'
  BY <1>1, <1>2, <1>3, <1>4 DEF StreamsInv, Recorded, Changed, Processes
<1>7. OnlyChildrenAreRefused'
  BY <1>1 DEF StreamsInv, OnlyChildrenAreRefused
<1>8. Kernel' => Probed' /\ Related'
  <2> SUFFICES ASSUME Kernel' PROVE Probed' /\ Related'
    OBVIOUS
  <2>1. Probed /\ Related
    BY <1>1 DEF StreamsInv, Kernel
  <2>2. Probed'
    BY <1>1, <1>2, <1>3, <2>1 DEF Probed, Changed, Once
  <2>3. Related'
    BY <1>1, <1>2, <1>3, <2>1 DEF Related, Changed, Processes
  <2> QED
    BY <2>2, <2>3
<1>9. Numbered' /\ (Clean' => Unrepeated')
  BY <1>1, QuietStep
<1> QED
  BY <1>5, <1>6, <1>7, <1>8, <1>9, <1>10 DEF StreamsInv

LEMMA StepOfEnds ==
    ASSUME StreamsInv, UNCHANGED kernel, NEW p \in Processes, Ends(p), kernel => p # "parent"
    PROVE  StreamsInv'
<1>1. /\ ended' = ended \cup {p}
      /\ UNCHANGED <<pc, op, stream, global, seeds, calls, drawn, history>>
  BY DEF Ends
<1>2. StateOK'
  BY <1>1 DEF StreamsInv, StateOK
<1>3. (\A q \in Processes, u \in Threads : Threading(q, u)') /\ Recorded'
  BY <1>1 DEF StreamsInv, Threading, Recorded
<1>4. OnlyChildrenAreRefused'
  BY <1>1 DEF StreamsInv, OnlyChildrenAreRefused
<1>5. Kernel' => Probed' /\ Related'
  BY <1>1 DEF StreamsInv, Kernel, Probed, Related
<1>6. Numbered' /\ (Clean' => Unrepeated')
  BY <1>1, QuietStep
<1> QED
  BY <1>2, <1>3, <1>4, <1>5, <1>6 DEF StreamsInv

LEMMA StepOfCheckFails ==
    ASSUME StreamsInv, UNCHANGED kernel, NEW p \in Processes, NEW t \in Threads,
           CheckFails(p, t)
    PROVE  StreamsInv'
<1>1. p # "parent"
  BY DEF CheckFails, StreamsInv, Threading, Recorded, Processes
<1> QED
  BY <1>1, StepOfEnds DEF CheckFails

LEMMA StepOfCheckPasses ==
    ASSUME StreamsInv, UNCHANGED kernel, NEW p \in Processes, NEW t \in Threads,
           CheckPasses(p, t)
    PROVE  StreamsInv'
<1>1. /\ pc[p][t] = "check" /\ global[p].pid = p /\ Goto(p, t, op[p][t])
      /\ history' = history \cup (IF stream[p][t].inherited THEN {"masked"} ELSE {})
      /\ UNCHANGED <<op, stream, global, ended, seeds, calls, drawn>>
  BY DEF CheckPasses
<1>2. op[p][t] \in {"buf", "random"} /\ op[p][t] \in Labels /\ stream[p][t].initialized
  BY <1>1 DEF StreamsInv, Threading, Labels
<1>3. pc' \in [Processes -> [Threads -> Labels]] /\ Changed(pc, pc', p, t, op[p][t])
  BY <1>1, <1>2, Moves DEF StreamsInv
<1>4. history' \subseteq Happenings /\ history \subseteq history'
      /\ ("raced" \in history' => "raced" \in history)
      /\ ("repeated" \in history' => "repeated" \in history)
      /\ (stream[p][t].inherited => "masked" \in history')
      /\ ("masked" \in history' => "masked" \in history \/ stream[p][t].inherited)
  BY <1>1 DEF StreamsInv, StateOK, Happenings
<1>5. StateOK'
  BY <1>1, <1>3, <1>4 DEF StreamsInv, StateOK
<1>6. \A q \in Processes, u \in Threads : Threading(q, u)'
  <2>1. Threading(p, t)'
    BY <1>1, <1>2, <1>3 DEF StreamsInv, Threading, Changed, Stirrings
  <2>2. ASSUME NEW q \in Processes, NEW u \in Threads, q # p \/ u # t PROVE Threading(q, u)'
    BY <1>1, <1>2, <1>3, <2>2 DEF StreamsInv, Threading, Changed
  <2> QED
    BY <2>1, <2>2
<1>10. Recorded'
  BY <1>1, <1>2, <1>3 DEF StreamsInv, Recorded, Changed, Processes
<1>7. OnlyChildrenAreRefused'
  BY <1>1 DEF StreamsInv, OnlyChildrenAreRefused
<1>8. Kernel' => Probed' /\ Related'
  <2> SUFFICES ASSUME Kernel' PROVE Probed' /\ Related'
    OBVIOUS
  <2>1. Probed /\ Related
    BY <1>4 DEF StreamsInv, Kernel
  <2>2. Probed'
    BY <1>1, <1>2, <1>3, <2>1 DEF Probed, Changed, Once
  <2>3. stream[p][t].inherited =>
          \E u \in Threads : u # t /\ p = "child" /\ pc["child"][u] # "unborn"
    BY <1>1, <2>1 DEF StreamsInv, Threading, Related
  <2>4. \A u \in Threads : pc["child"][u] # "unborn" => pc'["child"][u] # "unborn"
    BY <1>1, <1>2, <1>3 DEF Changed, Processes
  <2>5. Related'
    BY <1>1, <1>2, <1>3, <1>4, <2>1, <2>3, <2>4 DEF Related, Changed, Processes
  <2> QED
    BY <2>2, <2>5
<1>9. Numbered' /\ (Clean' => Unrepeated')
  BY <1>1, <1>4, QuietStep
<1> QED
  BY <1>5, <1>6, <1>7, <1>8, <1>9, <1>10 DEF StreamsInv

-----------------------------------------------------------------------------
\* Stirring.

LEMMA StepOfStirReset ==
    ASSUME InternalParameters, StreamsInv, UNCHANGED kernel, NEW p \in Processes, NEW t \in Threads,
           StirReset(p, t)
    PROVE  StreamsInv'
<1> DEFINE s == [stream[p][t] EXCEPT !.outleft = 0, !.pool = Zeros]
           to == IF global[p].initialized THEN "pid" ELSE "init"
<1>1. /\ pc[p][t] = "stir" /\ stream' = [stream EXCEPT ![p][t] = s] /\ Goto(p, t, to)
      /\ history' = history \cup (IF ~global[p].initialized /\ Initializing(p) # {}
                                  THEN {"raced"} ELSE {})
      /\ UNCHANGED <<op, global, ended, seeds, calls, drawn>>
  BY DEF StirReset
<1>2. /\ s \in Streams /\ s.outleft = 0 /\ s.pool = Zeros
      /\ s.initialized = stream[p][t].initialized /\ s.inherited = stream[p][t].inherited
      /\ s.key = stream[p][t].key
  <2>1. stream[p][t] \in Streams /\ 0 \in 0..PoolWords /\ Zeros \in Keys
    BY KeyFacts DEF StreamsInv, StateOK, InternalParameters
  <2> QED
    BY <2>1 DEF Streams
<1>3. /\ to \in Labels /\ to \in {"pid", "init"}
      /\ (to = "pid" => global[p].initialized)
      /\ (to = "init" => ~global[p].initialized)
  BY DEF Labels
<1> HIDE DEF s, to
<1>4. pc' \in [Processes -> [Threads -> Labels]] /\ Changed(pc, pc', p, t, to)
  BY <1>1, <1>3, Moves DEF StreamsInv
<1>5. stream' \in [Processes -> [Threads -> Streams]] /\ Changed(stream, stream', p, t, s)
  BY <1>1, <1>2, Turns DEF StreamsInv
<1>6. /\ history' \subseteq Happenings /\ history \subseteq history'
      /\ ("raced" \notin history' => global[p].initialized \/ Initializing(p) = {})
      /\ ("repeated" \in history' <=> "repeated" \in history)
      /\ ("masked" \in history' <=> "masked" \in history)
  BY <1>1 DEF StreamsInv, StateOK, Happenings
<1>7. StateOK'
  BY <1>1, <1>4, <1>5, <1>6 DEF StreamsInv, StateOK
<1>8. \A q \in Processes, u \in Threads : Threading(q, u)'
  <2>1. Threading(p, t)'
    BY <1>1, <1>2, <1>3, <1>4, <1>5 DEF StreamsInv, Threading, Changed, Stirrings
  <2>2. ASSUME NEW q \in Processes, NEW u \in Threads, q # p \/ u # t PROVE Threading(q, u)'
    BY <1>1, <1>4, <1>5, <2>2 DEF StreamsInv, Threading, Changed
  <2> QED
    BY <2>1, <2>2
<1>9. Recorded'
  BY <1>1, <1>2, <1>3, <1>4, <1>5 DEF StreamsInv, Recorded, Changed, Processes
<1>10. OnlyChildrenAreRefused'
  BY <1>1 DEF StreamsInv, OnlyChildrenAreRefused
<1>11. Numbered'
  <2>1. \A q \in Processes, u \in Threads :
          /\ IsKey(stream[q][u].key) /\ IsKey(stream[q][u].pool)
          /\ stream'[q][u].key = stream[q][u].key
          /\ stream'[q][u].pool = stream[q][u].pool \/ stream'[q][u].pool = Zeros
    BY <1>2, <1>5 DEF StreamsInv, Numbered, Changed
  <2>2. Zeros[1] = NoSeed
    BY KeyFacts
  <2> QED
    BY <1>1, <2>1, <2>2 DEF Numbered, IsKey
<1>12. ASSUME Kernel' PROVE Probed' /\ Related'
  <2>1. Probed /\ Related
    BY <1>6, <1>12 DEF StreamsInv, Kernel
  <2>2. to = "init" => \A u \in Threads : pc[p][u] \notin Once
    BY <1>3, <1>6, <1>12 DEF Kernel, Initializing, Once
  <2>3. Probed'
    <3>1. \A q \in Processes, u \in Threads :
            /\ stream'[q][u].initialized = stream[q][u].initialized
            /\ stream'[q][u].key = stream[q][u].key
      BY <1>2, <1>5 DEF Changed
    <3>2. /\ pc'[p][t] = to
          /\ \A u \in Threads : u # t => pc'[p][u] = pc[p][u]
          /\ \A q \in Processes \ {p}, u \in Threads : pc'[q][u] = pc[q][u]
      BY <1>4 DEF Changed
    <3>3. "pid" \notin Once /\ (to = "init" => to # "mark" /\ to # "pid" /\ to # "seed")
      BY DEF Once
    <3> QED
      BY <1>1, <1>3, <2>1, <2>2, <3>1, <3>2, <3>3 DEF Probed
  <2>4. Related'
    BY <1>1, <1>2, <1>3, <1>4, <1>5, <1>6, <2>1 DEF Related, Changed, Processes
  <2> QED
    BY <2>3, <2>4
<1>13. ASSUME Clean' PROVE Unrepeated'
  <2>1. Unrepeated
    BY <1>6, <1>13 DEF StreamsInv, Clean, Kernel
  <2>2. Ahead(p, t)'
    <3>1. Ahead(p, t) /\ stream'[p][t] = s
      BY <1>5, <2>1 DEF Unrepeated, Changed
    <3> QED
      BY <1>1, <1>2, <3>1 DEF Ahead
  <2>3. \A q \in Processes, u \in Threads : Ahead(q, u)'
    BY <1>1, <1>5, <2>1, <2>2, AheadKept DEF Unrepeated, Changed
  <2>4. SeedsArePast'
    BY <1>1, <2>1 DEF Unrepeated, SeedsArePast, Seed
  <2> QED
    BY <1>6, <2>1, <2>3, <2>4 DEF Unrepeated
<1> QED
  BY <1>7, <1>8, <1>9, <1>10, <1>11, <1>12, <1>13 DEF StreamsInv

\* A step of stirring that moves on and changes the global state of its process.
LEMMA StirStep ==
    ASSUME StreamsInv, UNCHANGED <<kernel, op, stream, ended, seeds, calls, drawn, history>>,
           NEW p \in Processes, NEW t \in Threads,
           NEW to \in {"probe", "mark", "pid", "seed"}, Goto(p, t, to),
           pc[p][t] \in Stirrings \ {"stir", "seed"},
           NEW g \in Globals, global' = [global EXCEPT ![p] = g],
           g.pid = IF to = "seed" THEN p ELSE global[p].pid,
           Kernel => Probed'
    PROVE  StreamsInv'
<1>1. to \in Labels /\ to \in Stirrings \ {"stir"}
  BY DEF Labels, Stirrings
<1>2. pc' \in [Processes -> [Threads -> Labels]] /\ Changed(pc, pc', p, t, to)
  BY <1>1, Moves DEF StreamsInv
<1>3. /\ global' \in [Processes -> Globals] /\ global'[p] = g
      /\ \A q \in Processes : q # p => global'[q] = global[q]
  BY DEF StreamsInv, StateOK, Globals
<1>4. StateOK'
  BY <1>2, <1>3 DEF StreamsInv, StateOK, Globals
<1>5. \A q \in Processes, u \in Threads : Threading(q, u)'
  <2>1. Threading(p, t)'
    <3>1. Threading(p, t)
      BY DEF StreamsInv
    <3> QED
      BY <1>1, <1>2, <3>1 DEF Threading, Changed, Stirrings
  <2>2. ASSUME NEW q \in Processes, NEW u \in Threads, q # p \/ u # t PROVE Threading(q, u)'
    BY <1>2, <2>2 DEF StreamsInv, Threading, Changed
  <2> QED
    BY <2>1, <2>2
<1>6. Recorded'
  BY <1>2, <1>3 DEF StreamsInv, Recorded, Changed, Processes
<1>7. OnlyChildrenAreRefused'
  BY DEF StreamsInv, OnlyChildrenAreRefused
<1>8. Numbered' /\ (Clean' => Unrepeated')
  BY QuietStep
<1>9. ASSUME Kernel' PROVE Probed' /\ Related'
  <2>1. Related /\ Kernel
    BY <1>9 DEF StreamsInv, Kernel
  <2>2. ASSUME NEW u \in Threads, global'["child"].pid = "child",
               stream["child"][u].inherited, pc'["child"][u] # "seed"
        PROVE  \E v \in Threads : v # u /\ pc'["child"][v] # "unborn"
    <3>1. CASE p = "child" /\ to = "seed"
      BY <1>2, <2>2, <3>1 DEF Changed
    <3>2. CASE ~(p = "child" /\ to = "seed")
      <4>1. global["child"].pid = "child" /\ pc["child"][u] # "seed"
        BY <1>2, <1>3, <2>2, <3>2 DEF Changed, Processes
      <4> QED
        BY <1>2, <2>1, <2>2, <4>1 DEF Related, Changed, Processes
    <3> QED
      BY <3>1, <3>2
  <2>3. \A u \in Threads : pc["child"][u] # "unborn" => pc'["child"][u] # "unborn"
    BY <1>2 DEF Changed, Processes
  <2>4. Related'
    BY <1>2, <2>1, <2>2, <2>3 DEF Related, Changed
  <2> QED
    BY <2>1, <2>4
<1> QED
  BY <1>4, <1>5, <1>6, <1>7, <1>8, <1>9 DEF StreamsInv

LEMMA StepOfStirInit ==
    ASSUME StreamsInv, UNCHANGED kernel, NEW p \in Processes, NEW t \in Threads, StirInit(p, t)
    PROVE  StreamsInv'
<1> DEFINE g == [global[p] EXCEPT !.available = FALSE]
<1>1. /\ pc[p][t] = "init" /\ Goto(p, t, "probe") /\ global' = [global EXCEPT ![p] = g]
      /\ UNCHANGED <<op, stream, ended, seeds, calls, drawn, history>>
  BY DEF StirInit
<1>2. g \in Globals /\ g.pid = global[p].pid /\ g.initialized = global[p].initialized
  BY DEF StreamsInv, StateOK, Globals
<1>3. /\ global'[p] = g
      /\ \A q \in Processes : q # p => global'[q] = global[q]
  BY <1>1 DEF StreamsInv, StateOK
<1> HIDE DEF g
<1>4. Changed(pc, pc', p, t, "probe") /\ "init" \in Stirrings \ {"stir", "seed"}
  BY <1>1, Moves DEF StreamsInv, Labels, Stirrings
<1>5. Kernel => Probed'
  BY <1>1, <1>2, <1>3, <1>4 DEF StreamsInv, Probed, Changed, Once
<1> QED
  BY <1>1, <1>2, <1>4, <1>5, StirStep

LEMMA StepOfStirProbe ==
    ASSUME StreamsInv, UNCHANGED kernel, NEW p \in Processes, NEW t \in Threads,
           StirProbe(p, t)
    PROVE  StreamsInv'
<1> DEFINE g == [global[p] EXCEPT !.available = TRUE]
<1>1. /\ pc[p][t] = "probe" /\ Goto(p, t, "mark") /\ global' = [global EXCEPT ![p] = g]
      /\ UNCHANGED <<op, stream, ended, seeds, calls, drawn, history>>
  BY DEF StirProbe
<1>2. g \in Globals /\ g.pid = global[p].pid /\ g.initialized = global[p].initialized
      /\ g.available
  BY DEF StreamsInv, StateOK, Globals
<1>3. /\ global'[p] = g
      /\ \A q \in Processes : q # p => global'[q] = global[q]
  BY <1>1 DEF StreamsInv, StateOK
<1> HIDE DEF g
<1>4. Changed(pc, pc', p, t, "mark") /\ "probe" \in Stirrings \ {"stir", "seed"}
  BY <1>1, Moves DEF StreamsInv, Labels, Stirrings
<1>5. Kernel => Probed'
  BY <1>1, <1>2, <1>3, <1>4 DEF StreamsInv, Probed, Changed, Once
<1> QED
  BY <1>1, <1>2, <1>4, <1>5, StirStep

LEMMA StepOfStirOpenDevice ==
    ASSUME StreamsInv, UNCHANGED kernel, NEW p \in Processes, NEW t \in Threads,
           StirOpenDevice(p, t)
    PROVE  StreamsInv'
<1>1. pc[p][t] = "probe" /\ ~kernel
  BY DEF StirOpenDevice
<1>2. CASE Goto(p, t, "mark") /\ UNCHANGED <<op, stream, global, ended, seeds, calls, drawn, history>>
  <2>1. "probe" \in Stirrings \ {"stir", "seed"} /\ ~Kernel
    BY <1>1 DEF Stirrings, Kernel
  <2>2. global[p] \in Globals /\ global' = [global EXCEPT ![p] = global[p]]
    BY <1>2 DEF StreamsInv, StateOK, Globals
  <2> QED
    BY <1>1, <1>2, <2>1, <2>2, StirStep
<1>3. CASE Ends(p)
  BY <1>1, <1>3, StepOfEnds
<1> QED
  BY <1>2, <1>3 DEF StirOpenDevice

LEMMA StepOfStirMark ==
    ASSUME StreamsInv, UNCHANGED kernel, NEW p \in Processes, NEW t \in Threads, StirMark(p, t)
    PROVE  StreamsInv'
<1> DEFINE g == [global[p] EXCEPT !.initialized = TRUE]
<1>1. /\ pc[p][t] = "mark" /\ Goto(p, t, "pid") /\ global' = [global EXCEPT ![p] = g]
      /\ UNCHANGED <<op, stream, ended, seeds, calls, drawn, history>>
  BY DEF StirMark
<1>2. g \in Globals /\ g.pid = global[p].pid /\ g.initialized
      /\ g.available = global[p].available
  BY DEF StreamsInv, StateOK, Globals
<1>3. /\ global'[p] = g
      /\ \A q \in Processes : q # p => global'[q] = global[q]
  BY <1>1 DEF StreamsInv, StateOK
<1> HIDE DEF g
<1>4. Changed(pc, pc', p, t, "pid") /\ "mark" \in Stirrings \ {"stir", "seed"}
  BY <1>1, Moves DEF StreamsInv, Labels, Stirrings
<1>5. Kernel => Probed'
  BY <1>1, <1>2, <1>3, <1>4 DEF StreamsInv, Probed, Changed, Once
<1> QED
  BY <1>1, <1>2, <1>4, <1>5, StirStep

LEMMA StepOfStirPid ==
    ASSUME StreamsInv, UNCHANGED kernel, NEW p \in Processes, NEW t \in Threads, StirPid(p, t)
    PROVE  StreamsInv'
<1> DEFINE g == [global[p] EXCEPT !.pid = p]
<1>1. /\ pc[p][t] = "pid" /\ Goto(p, t, "seed") /\ global' = [global EXCEPT ![p] = g]
      /\ UNCHANGED <<op, stream, ended, seeds, calls, drawn, history>>
  BY DEF StirPid
<1>2. g \in Globals /\ g.pid = p /\ g.initialized = global[p].initialized
      /\ g.available = global[p].available
  BY DEF StreamsInv, StateOK, Globals
<1>3. /\ global'[p] = g
      /\ \A q \in Processes : q # p => global'[q] = global[q]
  BY <1>1 DEF StreamsInv, StateOK
<1> HIDE DEF g
<1>4. Changed(pc, pc', p, t, "seed") /\ "pid" \in Stirrings \ {"stir", "seed"}
  BY <1>1, Moves DEF StreamsInv, Labels, Stirrings
<1>5. Kernel => Probed'
  BY <1>1, <1>2, <1>3, <1>4 DEF StreamsInv, Probed, Changed, Once
<1> QED
  BY <1>1, <1>2, <1>4, <1>5, StirStep

\* IsKey, of any account of the seeds.
NumberedBy(key, given) ==
    \/ key[1] = NoSeed
    \/ \E p \in Processes, t \in Threads : \E n \in 1..given[p][t] : key[1] = <<p, t, n>>

LEMMA SeedFacts ==
    ASSUME NEW p \in Processes, NEW t \in Threads, NEW n \in Nat
    PROVE  /\ << <<p, t, n>> >> \in Keys
           /\ << <<p, t, n>> >>[1] = <<p, t, n>> /\ <<p, t, n>> # NoSeed
  BY KeyFacts

LEMMA StepOfStirSeed ==
    ASSUME StreamsInv, UNCHANGED kernel, NEW p \in Processes, NEW t \in Threads, StirSeed(p, t)
    PROVE  StreamsInv'
<1> DEFINE seeded == global[p].available
           n == seeds[p][t] + 1
           s == [stream[p][t] EXCEPT !.initialized = TRUE,
                                     !.inherited = stream[p][t].inherited /\ ~seeded,
                                     !.key = IF seeded THEN << <<p, t, n>> >>
                                             ELSE stream[p][t].key]
           to == IF op[p][t] = "stir" THEN "idle" ELSE op[p][t]
           f == IF op[p][t] = "stir" THEN "none" ELSE op[p][t]
<1>1. /\ pc[p][t] = "seed"
      /\ seeds' = IF seeded THEN [seeds EXCEPT ![p][t] = n] ELSE seeds
      /\ stream' = [stream EXCEPT ![p][t] = s]
      /\ IF op[p][t] = "stir" THEN Return(p, t) ELSE Goto(p, t, op[p][t]) /\ UNCHANGED op
      /\ UNCHANGED <<global, ended, calls, drawn, history>>
  <2>1. stream' = [stream EXCEPT ![p][t] = s]
    BY DEF StirSeed
  <2>2. seeds' = IF seeded THEN [seeds EXCEPT ![p][t] = n] ELSE seeds
    BY DEF StirSeed
  <2> QED
    BY <2>1, <2>2 DEF StirSeed
<1>2. /\ stream[p][t] \in Streams /\ seeds[p][t] \in Nat /\ n \in Nat
      /\ seeded \in BOOLEAN /\ op[p][t] \in Ops /\ Threading(p, t)
  BY DEF StreamsInv, StateOK, Globals, Ops
<1>3. op[p][t] \in {"buf", "random", "stir"} /\ stream[p][t].outleft = 0
  BY <1>1, <1>2 DEF Threading, Stirrings, Ops
<1>4. /\ s \in Streams /\ s.outleft = 0 /\ s.pool = stream[p][t].pool /\ s.initialized
      /\ s.inherited = (stream[p][t].inherited /\ ~seeded)
      /\ s.key = IF seeded THEN << <<p, t, n>> >> ELSE stream[p][t].key
  <2>1. << <<p, t, n>> >> \in Keys
    BY <1>2, SeedFacts
  <2> QED
    BY <1>2, <1>3, <2>1 DEF Streams
<1>5. to \in Labels /\ to \in {"idle", "buf", "random"}
  BY <1>3 DEF Labels
<1>6. /\ pc' \in [Processes -> [Threads -> Labels]] /\ Changed(pc, pc', p, t, to)
      /\ op' \in [Processes -> [Threads -> Ops]] /\ Changed(op, op', p, t, f)
  <2>1. CASE op[p][t] = "stir"
    BY <1>1, <2>1, Returns DEF StreamsInv
  <2>2. CASE op[p][t] # "stir"
    BY <1>1, <1>5, <2>2, Moves DEF StreamsInv, StateOK, Changed, Ops
  <2> QED
    BY <2>1, <2>2
<1>7. /\ seeds' \in [Processes -> [Threads -> Nat]]
      /\ Changed(seeds, seeds', p, t, IF seeded THEN n ELSE seeds[p][t])
  BY <1>1, <1>2 DEF StreamsInv, StateOK, Changed
<1> HIDE DEF s, to, f
<1>8. stream' \in [Processes -> [Threads -> Streams]] /\ Changed(stream, stream', p, t, s)
  BY <1>1, <1>4, Turns DEF StreamsInv
<1>9. StateOK'
  BY <1>1, <1>6, <1>7, <1>8 DEF StreamsInv, StateOK, Ops
<1>10. \A q \in Processes, u \in Threads : Threading(q, u)'
  <2>1. Threading(p, t)'
    BY <1>1, <1>2, <1>4, <1>5, <1>6, <1>8 DEF Threading, Changed, Stirrings
  <2>2. ASSUME NEW q \in Processes, NEW u \in Threads, q # p \/ u # t PROVE Threading(q, u)'
    <3>1. /\ Threading(q, u)
          /\ pc'[q][u] = pc[q][u] /\ op'[q][u] = op[q][u] /\ stream'[q][u] = stream[q][u]
      BY <1>6, <1>8, <2>2 DEF StreamsInv, Changed
    <3> QED
      BY <3>1 DEF Threading
  <2> QED
    BY <2>1, <2>2
<1>11. Recorded'
  BY <1>1, <1>4, <1>5, <1>6, <1>8 DEF StreamsInv, Recorded, Changed, Processes
<1>12. OnlyChildrenAreRefused'
  BY <1>1 DEF StreamsInv, OnlyChildrenAreRefused
<1>16. \A q \in Processes, u \in Threads : 1..seeds[q][u] \subseteq 1..seeds'[q][u]
  <2>1. \A q \in Processes, u \in Threads :
          seeds[q][u] \in Nat /\ seeds'[q][u] \in Nat /\ seeds[q][u] <= seeds'[q][u]
    <3>1. seeds'[p][t] = seeds[p][t] \/ seeds'[p][t] = n
      BY <1>7 DEF Changed
    <3>2. \A q \in Processes, u \in Threads :
            q # p \/ u # t => seeds'[q][u] = seeds[q][u]
      BY <1>7 DEF Changed
    <3>3. seeds \in [Processes -> [Threads -> Nat]]
      BY DEF StreamsInv, StateOK
    <3> QED
      BY <1>2, <1>7, <3>1, <3>2, <3>3
  <2> QED
    BY <2>1
<1>17. seeded => s.key[1] = <<p, t, n>> /\ s.key[1] # NoSeed /\ n \in 1..seeds'[p][t]
  <2> SUFFICES ASSUME seeded
               PROVE  s.key[1] = <<p, t, n>> /\ s.key[1] # NoSeed /\ n \in 1..seeds'[p][t]
    OBVIOUS
  <2>1. s.key = << <<p, t, n>> >> /\ seeds'[p][t] = n
    BY <1>4, <1>7 DEF Changed
  <2>2. n \in 1..n
    BY <1>2
  <2>3. s.key[1] = <<p, t, n>> /\ s.key[1] # NoSeed
    <3> HIDE DEF n, s
    <3>1. n \in Nat
      BY <1>2
    <3>2. << <<p, t, n>> >>[1] = <<p, t, n>> /\ <<p, t, n>> # NoSeed
      BY <3>1, SeedFacts
    <3> QED
      BY <2>1, <3>2
  <2> QED
    BY <2>1, <2>2, <2>3
<1>13. Numbered'
  <2>1. \A q \in Processes, u \in Threads :
          NumberedBy(stream[q][u].key, seeds) /\ NumberedBy(stream[q][u].pool, seeds)
    BY DEF StreamsInv, Numbered, IsKey, NumberedBy
  <2>5. ASSUME NEW key, NumberedBy(key, seeds) PROVE NumberedBy(key, seeds')
    <3>1. CASE key[1] = NoSeed
      BY <3>1 DEF NumberedBy
    <3>2. CASE key[1] # NoSeed
      <4>1. PICK q \in Processes, u \in Threads : \E m \in 1..seeds[q][u] : key[1] = <<q, u, m>>
        BY <2>5, <3>2 DEF NumberedBy
      <4>2. \E m \in 1..seeds'[q][u] : key[1] = <<q, u, m>>
        BY <1>16, <4>1
      <4> QED
        BY <4>2 DEF NumberedBy
    <3> QED
      BY <3>1, <3>2
  <2>2. \A q \in Processes, u \in Threads :
          NumberedBy(stream[q][u].key, seeds') /\ NumberedBy(stream[q][u].pool, seeds')
    BY <2>1, <2>5
  <2>3. NumberedBy(s.key, seeds') /\ NumberedBy(s.pool, seeds')
    <3>1. seeded => NumberedBy(s.key, seeds')
      BY <1>17 DEF NumberedBy
    <3> QED
      BY <1>4, <2>2, <3>1
  <2>4. \A q \in Processes, u \in Threads :
          NumberedBy(stream'[q][u].key, seeds') /\ NumberedBy(stream'[q][u].pool, seeds')
    BY <1>8, <2>2, <2>3 DEF Changed
  <2> QED
    BY <2>4 DEF Numbered, IsKey, NumberedBy
<1>14. ASSUME Kernel' PROVE Probed' /\ Related' /\ seeded
  <2>1. Probed /\ Related
    BY <1>1, <1>14 DEF StreamsInv, Kernel
  <2>2. seeded
    BY <1>1, <2>1 DEF Probed
  <2>3. s.key[1] # NoSeed /\ ~s.inherited
    BY <1>4, <1>17, <2>2
  <2>4. Probed'
    <3>1. /\ pc'[p][t] = to /\ stream'[p][t] = s
          /\ \A q \in Processes, u \in Threads : q # p \/ u # t =>
               pc'[q][u] = pc[q][u] /\ stream'[q][u] = stream[q][u]
      BY <1>6, <1>8 DEF Changed
    <3>2. to \notin Once /\ to \notin {"mark", "pid", "seed"}
      BY <1>5 DEF Once
    <3> QED
      BY <1>1, <2>1, <2>3, <3>1, <3>2 DEF Probed
  <2>5. \A u \in Threads : pc["child"][u] # "unborn" => pc'["child"][u] # "unborn"
    BY <1>5, <1>6 DEF Changed, Processes
  <2>6. ASSUME NEW u \in Threads, stream'["child"][u].inherited
        PROVE  stream["child"][u].inherited /\ pc'["child"][u] = pc["child"][u]
    BY <1>6, <1>8, <2>3, <2>6 DEF Changed, Processes
  <2>7. Related'
    <3>1. ASSUME NEW u \in Threads, global'["child"].pid = "child",
                 stream'["child"][u].inherited, pc'["child"][u] # "seed"
          PROVE  \E v \in Threads : v # u /\ pc'["child"][v] # "unborn"
      BY <1>1, <2>1, <2>5, <2>6, <3>1 DEF Related
    <3>2. ASSUME NEW q \in Processes, NEW u \in Threads, stream'[q][u].inherited,
                 pc'[q][u] \in {"buf", "random"}
          PROVE  "masked" \in history'
      <4>1. q # p \/ u # t
        BY <1>8, <2>3, <3>2 DEF Changed
      <4> QED
        BY <1>1, <1>6, <1>8, <2>1, <3>2, <4>1 DEF Related, Changed
    <3> QED
      BY <1>1, <2>1, <2>5, <3>1, <3>2 DEF Related
  <2> QED
    BY <2>2, <2>4, <2>7
<1>15. ASSUME Clean' PROVE Unrepeated'
  <2>1. Unrepeated /\ seeded
    BY <1>1, <1>14, <1>15 DEF StreamsInv, Clean, Kernel
  <2>2. s.key[1] = <<p, t, n>> /\ seeds'[p][t] = n /\ n > 0
    BY <1>2, <1>7, <1>17, <2>1 DEF Changed
  <2>3. \A word \in drawn : Seed(word) # <<p, t, n>>
    BY <1>2, <2>1 DEF Unrepeated, SeedsArePast
  <2>4. Ahead(p, t)'
    BY <1>1, <1>4, <1>8, <2>2, <2>3 DEF Ahead, Changed
  <2>5. ASSUME NEW q \in Processes, NEW u \in Threads, q # p \/ u # t PROVE Ahead(q, u)'
    BY <1>1, <1>7, <1>8, <2>1, <2>5, AheadKept DEF Unrepeated, Changed
  <2>6. SeedsArePast'
    BY <1>1, <1>16, <2>1 DEF Unrepeated, SeedsArePast, Seed
  <2> QED
    BY <1>1, <2>1, <2>4, <2>5, <2>6 DEF Unrepeated
<1> QED
  BY <1>9, <1>10, <1>11, <1>12, <1>13, <1>14, <1>15 DEF StreamsInv

-----------------------------------------------------------------------------
\* Drawing.

\* A word handed out from a key that is longer than all those before it, or from a pool at
\* a lower index than all those before it, is new.
LEMMA WordIsNew ==
    ASSUME NEW p \in Processes, NEW t \in Threads, NEW word \in Keys \X Nat,
           Unrepeated, Ahead(p, t), stream[p][t] \in Streams,
           stream[p][t].initialized, ~stream[p][t].inherited,
           Seed(word) = stream[p][t].key[1],
           \/ Len(word[1]) >= Len(stream[p][t].key)
           \/ /\ stream[p][t].outleft > 0 /\ word[1] = stream[p][t].pool
              /\ word[2] < stream[p][t].outleft
    PROVE  word \notin drawn
<1> SUFFICES ASSUME word \in drawn PROVE FALSE
  OBVIOUS
<1>1. /\ Len(word[1]) < Len(stream[p][t].key)
      /\ stream[p][t].outleft > 0 /\ word[1] = stream[p][t].pool =>
           word[2] >= stream[p][t].outleft
  BY DEF Ahead
<1>2. /\ Len(word[1]) \in Nat /\ Len(stream[p][t].key) \in Nat
      /\ stream[p][t].outleft \in Nat /\ word[2] \in Nat
  BY KeyFacts DEF Streams
<1> QED
  BY <1>1, <1>2

LEMMA StepOfBuf ==
    ASSUME StreamsInv, UNCHANGED kernel, NEW p \in Processes, NEW t \in Threads, Buf(p, t)
    PROVE  StreamsInv'
<1> DEFINE old == stream[p][t]
           s == [old EXCEPT !.key = Append(old.key, "buf")]
           word == <<old.key, 0>>
<1>1. /\ pc[p][t] = "buf" /\ Return(p, t) /\ stream' = [stream EXCEPT ![p][t] = s]
      /\ drawn' = drawn \cup {word}
      /\ history' = history \cup {} \cup (IF word \in drawn THEN {"repeated"} ELSE {})
      /\ UNCHANGED <<global, ended, seeds, calls>>
  BY DEF Buf, HandOut
<1>2. /\ old \in Streams /\ old.key \in Keys /\ old.outleft \in Nat /\ old.pool \in Keys
      /\ old.initialized /\ Threading(p, t)
  BY <1>1 DEF StreamsInv, StateOK, Streams, Threading
<1>3. /\ Append(old.key, "buf") \in Keys /\ Append(old.key, "buf")[1] = old.key[1]
      /\ Len(old.key) \in Nat /\ Len(Append(old.key, "buf")) = Len(old.key) + 1
  BY <1>2, KeyFacts
<1>4. /\ s \in Streams /\ s.outleft = old.outleft /\ s.pool = old.pool
      /\ s.initialized = old.initialized /\ s.inherited = old.inherited
      /\ s.key[1] = old.key[1] /\ Len(s.key) = Len(old.key) + 1
  BY <1>2, <1>3 DEF Streams
<1>5. word \in Keys \X Nat /\ word[1] = old.key /\ word[2] = 0 /\ Seed(word) = old.key[1]
  BY <1>2 DEF Seed
<1> HIDE DEF s, word
<1>6. /\ pc' \in [Processes -> [Threads -> Labels]] /\ Changed(pc, pc', p, t, "idle")
      /\ op' \in [Processes -> [Threads -> Ops]] /\ Changed(op, op', p, t, "none")
  BY <1>1, Returns DEF StreamsInv
<1>7. stream' \in [Processes -> [Threads -> Streams]] /\ Changed(stream, stream', p, t, s)
  BY <1>1, <1>4, Turns DEF StreamsInv
<1> HIDE DEF old
<1>8. /\ history' \subseteq Happenings /\ history \subseteq history'
      /\ ("raced" \in history' <=> "raced" \in history)
      /\ ("masked" \in history' <=> "masked" \in history)
      /\ ("leftover" \in history' <=> "leftover" \in history)
      /\ ("repeated" \in history' <=> "repeated" \in history \/ word \in drawn)
  BY <1>1 DEF StreamsInv, StateOK, Happenings
<1>9. StateOK'
  BY <1>1, <1>5, <1>6, <1>7, <1>8 DEF StreamsInv, StateOK, Ops
<1>10. \A q \in Processes, u \in Threads : Threading(q, u)'
  <2>1. Threading(p, t)'
    BY <1>2, <1>4, <1>6, <1>7 DEF Threading, Changed, Stirrings, old
  <2>2. ASSUME NEW q \in Processes, NEW u \in Threads, q # p \/ u # t PROVE Threading(q, u)'
    <3>1. /\ Threading(q, u)
          /\ pc'[q][u] = pc[q][u] /\ op'[q][u] = op[q][u] /\ stream'[q][u] = stream[q][u]
      BY <1>6, <1>7, <2>2 DEF StreamsInv, Changed
    <3> QED
      BY <3>1 DEF Threading
  <2> QED
    BY <2>1, <2>2
<1>11. Recorded'
  BY <1>1, <1>4, <1>6, <1>7 DEF StreamsInv, Recorded, Changed, Processes, old
<1>12. OnlyChildrenAreRefused'
  BY <1>1 DEF StreamsInv, OnlyChildrenAreRefused
<1>13. Numbered'
  <2>1. \A q \in Processes, u \in Threads :
          /\ IsKey(stream[q][u].key) /\ IsKey(stream[q][u].pool)
          /\ stream'[q][u].key[1] = stream[q][u].key[1]
          /\ stream'[q][u].pool = stream[q][u].pool
    BY <1>4, <1>7 DEF StreamsInv, Numbered, Changed, old
  <2> QED
    BY <1>1, <2>1 DEF Numbered, IsKey
<1>14. ASSUME Kernel' PROVE Probed' /\ Related'
  <2>1. Probed /\ Related
    BY <1>8, <1>14 DEF StreamsInv, Kernel
  <2>2. Probed'
    <3>1. /\ pc'[p][t] = "idle" /\ stream'[p][t] = s
          /\ \A q \in Processes, u \in Threads : q # p \/ u # t =>
               pc'[q][u] = pc[q][u] /\ stream'[q][u] = stream[q][u]
      BY <1>6, <1>7 DEF Changed
    <3>2. s.key[1] = stream[p][t].key[1] /\ s.initialized = stream[p][t].initialized
      BY <1>4 DEF old
    <3> QED
      BY <1>1, <2>1, <3>1, <3>2 DEF Probed, Once
  <2>3. Related'
    BY <1>1, <1>4, <1>6, <1>7, <1>8, <2>1 DEF Related, Changed, Processes, old
  <2> QED
    BY <2>2, <2>3
<1>15. ASSUME Clean' PROVE Unrepeated'
  <2>1. Unrepeated /\ ~old.inherited /\ Ahead(p, t)
    BY <1>1, <1>8, <1>15 DEF StreamsInv, Clean, Kernel, Related, Unrepeated, old
  <2>2. word \notin drawn
    BY <1>2, <1>3, <1>5, <2>1, WordIsNew DEF old
  <2>3. "repeated" \notin history'
    BY <1>8, <2>1, <2>2 DEF Unrepeated
  <2>4. seeds[p][t] \in Nat /\ seeds[p][t] > 0 /\ Seed(word) = <<p, t, seeds[p][t]>>
    BY <1>2, <1>5, <2>1 DEF StreamsInv, StateOK, Ahead, old
  <2>5. SeedsArePast'
    BY <1>1, <2>1, <2>4 DEF Unrepeated, SeedsArePast, Seed
  <2>6. Ahead(p, t)'
    <3>1. /\ stream'[p][t] = s /\ seeds' = seeds /\ s.key[1] = <<p, t, seeds[p][t]>>
          /\ (s.outleft > 0 => s.pool[1] = s.key[1] /\ Len(s.pool) < Len(old.key))
      BY <1>1, <1>2, <1>4, <1>7, <2>1 DEF Ahead, Changed, old
    <3>2. s.outleft > 0 => Len(s.pool) < Len(s.key)
      BY <1>2, <1>3, <1>4, <3>1, KeyFacts
    <3>3. ASSUME NEW w \in drawn', Seed(w) = s.key[1]
          PROVE  Len(w[1]) < Len(s.key) /\ (s.outleft > 0 /\ w[1] = s.pool => w[2] >= s.outleft)
      <4>1. CASE w \in drawn
        <5>1. Len(w[1]) < Len(old.key) /\ (s.outleft > 0 /\ w[1] = s.pool => w[2] >= s.outleft)
          BY <1>2, <1>4, <2>1, <3>3, <4>1 DEF Ahead, old
        <5>2. Len(w[1]) \in Nat
          BY <4>1, KeyFacts DEF StreamsInv, StateOK
        <5> QED
          BY <1>3, <1>4, <5>1, <5>2
      <4>2. CASE w = word
        BY <1>3, <1>4, <1>5, <3>1, <4>2
      <4> QED
        BY <1>1, <4>1, <4>2
    <3> QED
      BY <2>4, <3>1, <3>2, <3>3 DEF Ahead, Seed
  <2>7. ASSUME NEW q \in Processes, NEW u \in Threads, q # p \/ u # t PROVE Ahead(q, u)'
    <3>1. Ahead(q, u) /\ stream'[q][u] = stream[q][u] /\ seeds' = seeds
      BY <1>1, <1>7, <2>1, <2>7 DEF Unrepeated, Changed
    <3>2. <<p, t, seeds[p][t]>> # <<q, u, seeds[q][u]>>
      BY <2>7
    <3> QED
      BY <1>1, <2>4, <3>1, <3>2 DEF Ahead, Seed
  <2> QED
    BY <2>3, <2>5, <2>6, <2>7 DEF Unrepeated
<1> QED
  BY <1>9, <1>10, <1>11, <1>12, <1>13, <1>14, <1>15 DEF StreamsInv

LEMMA StepOfRefill ==
    ASSUME InternalParameters, StreamsInv, UNCHANGED kernel, NEW p \in Processes, NEW t \in Threads,
           Refill(p, t)
    PROVE  StreamsInv'
<1> DEFINE old == stream[p][t]
           s == [old EXCEPT !.outleft = PoolWords, !.pool = old.key,
                            !.key = Append(old.key, "pool")]
<1>1. /\ pc[p][t] = "random" /\ Goto(p, t, "pop") /\ stream' = [stream EXCEPT ![p][t] = s]
      /\ UNCHANGED <<op, global, ended, seeds, calls, drawn, history>>
  BY DEF Refill
<1>2. /\ old \in Streams /\ old.key \in Keys /\ old.initialized /\ Threading(p, t)
      /\ PoolWords \in Nat /\ PoolWords > 0
  BY <1>1 DEF StreamsInv, StateOK, Streams, Threading, InternalParameters
<1>3. /\ Append(old.key, "pool") \in Keys /\ Append(old.key, "pool")[1] = old.key[1]
      /\ Len(old.key) \in Nat /\ Len(Append(old.key, "pool")) = Len(old.key) + 1
  BY <1>2, KeyFacts
<1>4. /\ s \in Streams /\ s.outleft = PoolWords /\ s.pool = old.key
      /\ s.initialized = old.initialized /\ s.inherited = old.inherited
      /\ s.key[1] = old.key[1] /\ Len(s.key) = Len(old.key) + 1
  <2>1. PoolWords \in 0..PoolWords
    BY <1>2
  <2> QED
    BY <1>2, <1>3, <2>1 DEF Streams
<1> HIDE DEF s
<1>5. pc' \in [Processes -> [Threads -> Labels]] /\ Changed(pc, pc', p, t, "pop")
  BY <1>1, Moves DEF StreamsInv, Labels
<1>6. stream' \in [Processes -> [Threads -> Streams]] /\ Changed(stream, stream', p, t, s)
  BY <1>1, <1>4, Turns DEF StreamsInv
<1> HIDE DEF old
<1>7. StateOK'
  BY <1>1, <1>5, <1>6 DEF StreamsInv, StateOK
<1>8. \A q \in Processes, u \in Threads : Threading(q, u)'
  <2>1. Threading(p, t)'
    BY <1>1, <1>2, <1>4, <1>5, <1>6 DEF Threading, Changed, Stirrings, old
  <2>2. ASSUME NEW q \in Processes, NEW u \in Threads, q # p \/ u # t PROVE Threading(q, u)'
    <3>1. /\ Threading(q, u)
          /\ pc'[q][u] = pc[q][u] /\ op'[q][u] = op[q][u] /\ stream'[q][u] = stream[q][u]
      BY <1>1, <1>5, <1>6, <2>2 DEF StreamsInv, Changed
    <3> QED
      BY <3>1 DEF Threading
  <2> QED
    BY <2>1, <2>2
<1>9. Recorded'
  BY <1>1, <1>4, <1>5, <1>6 DEF StreamsInv, Recorded, Changed, Processes, old
<1>10. OnlyChildrenAreRefused'
  BY <1>1 DEF StreamsInv, OnlyChildrenAreRefused
<1>11. Numbered'
  <2>1. \A q \in Processes, u \in Threads :
          /\ IsKey(stream[q][u].key) /\ IsKey(stream[q][u].pool)
          /\ stream'[q][u].key[1] = stream[q][u].key[1]
          /\ stream'[q][u].pool \in {stream[q][u].pool, stream[q][u].key}
    BY <1>4, <1>6 DEF StreamsInv, Numbered, Changed, old
  <2> QED
    BY <1>1, <2>1 DEF Numbered, IsKey
<1>12. ASSUME Kernel' PROVE Probed' /\ Related'
  <2>1. Probed /\ Related
    BY <1>1, <1>12 DEF StreamsInv, Kernel
  <2>2. Probed'
    <3>1. /\ pc'[p][t] = "pop" /\ stream'[p][t] = s
          /\ \A q \in Processes, u \in Threads : q # p \/ u # t =>
               pc'[q][u] = pc[q][u] /\ stream'[q][u] = stream[q][u]
      BY <1>5, <1>6 DEF Changed
    <3>2. s.key[1] = stream[p][t].key[1] /\ s.initialized = stream[p][t].initialized
      BY <1>4 DEF old
    <3> QED
      BY <1>1, <2>1, <3>1, <3>2 DEF Probed, Once
  <2>3. Related'
    BY <1>1, <1>4, <1>5, <1>6, <2>1 DEF Related, Changed, Processes, old
  <2> QED
    BY <2>2, <2>3
<1>13. ASSUME Clean' PROVE Unrepeated'
  <2>1. Unrepeated /\ ~old.inherited /\ Ahead(p, t)
    BY <1>1, <1>13 DEF StreamsInv, Clean, Kernel, Related, Unrepeated, old
  <2>2. SeedsArePast'
    BY <1>1, <2>1 DEF Unrepeated, SeedsArePast, Seed
  <2>3. Ahead(p, t)'
    <3>1. stream'[p][t] = s /\ seeds' = seeds /\ drawn' = drawn
          /\ s.key[1] = <<p, t, seeds[p][t]>> /\ seeds[p][t] > 0
      BY <1>1, <1>2, <1>4, <1>6, <2>1 DEF Ahead, Changed, old
    <3>2. s.pool[1] = s.key[1] /\ Len(s.pool) < Len(s.key)
      BY <1>3, <1>4
    <3>3. ASSUME NEW w \in drawn, Seed(w) = s.key[1]
          PROVE  Len(w[1]) < Len(s.key) /\ w[1] # s.pool
      <4>1. Len(w[1]) < Len(old.key)
        BY <1>2, <1>4, <2>1, <3>3 DEF Ahead, old
      <4>2. Len(w[1]) \in Nat
        BY KeyFacts DEF StreamsInv, StateOK
      <4> QED
        BY <1>3, <1>4, <4>1, <4>2
    <3> QED
      BY <3>1, <3>2, <3>3 DEF Ahead, Seed
  <2>4. ASSUME NEW q \in Processes, NEW u \in Threads, q # p \/ u # t PROVE Ahead(q, u)'
    BY <1>1, <1>6, <2>1, <2>4, AheadKept DEF Unrepeated, Changed
  <2> QED
    BY <1>1, <2>1, <2>2, <2>3, <2>4 DEF Unrepeated
<1> QED
  BY <1>7, <1>8, <1>9, <1>10, <1>11, <1>12, <1>13 DEF StreamsInv

LEMMA StepOfPop ==
    ASSUME InternalParameters, StreamsInv, UNCHANGED kernel, NEW p \in Processes, NEW t \in Threads,
           Pop(p, t)
    PROVE  StreamsInv'
<1> DEFINE old == stream[p][t]
           s == [old EXCEPT !.outleft = old.outleft - 1,
                            !.pool = IF old.outleft = 1 THEN Zeros ELSE old.pool]
           word == <<old.pool, old.outleft - 1>>
<1>1. /\ pc[p][t] = "pop" /\ Return(p, t) /\ stream' = [stream EXCEPT ![p][t] = s]
      /\ drawn' = drawn \cup {word}
      /\ history' = history \cup (IF old.inherited THEN {"leftover"} ELSE {})
                            \cup (IF word \in drawn THEN {"repeated"} ELSE {})
      /\ UNCHANGED <<global, ended, seeds, calls>>
  BY DEF Pop, HandOut
<1>2. /\ old \in Streams /\ old.key \in Keys /\ old.outleft \in 0..PoolWords /\ old.pool \in Keys
      /\ old.initialized /\ old.outleft > 0 /\ Threading(p, t) /\ PoolWords \in Nat
  BY <1>1 DEF StreamsInv, StateOK, Streams, Threading, InternalParameters
<1>3. /\ old.outleft \in Nat /\ old.outleft - 1 \in Nat /\ old.outleft - 1 \in 0..PoolWords
      /\ old.outleft - 1 < old.outleft /\ (old.outleft # 1 => old.outleft - 1 > 0)
      /\ Len(old.key) \in Nat /\ Len(old.pool) \in Nat
  <2>1. Len(old.key) \in Nat /\ Len(old.pool) \in Nat
    BY <1>2, KeyFacts
  <2>2. old.outleft \in 0..PoolWords /\ old.outleft > 0 /\ PoolWords \in Nat
    BY <1>2
  <2> HIDE DEF old
  <2> QED
    BY <2>1, <2>2
<1>4. /\ s \in Streams /\ s.outleft = old.outleft - 1
      /\ s.pool = IF old.outleft = 1 THEN Zeros ELSE old.pool
      /\ s.initialized = old.initialized /\ s.inherited = old.inherited /\ s.key = old.key
  <2>1. Zeros \in Keys
    BY KeyFacts
  <2> QED
    BY <1>2, <1>3, <2>1 DEF Streams
<1>5. /\ word \in Keys \X Nat /\ word[1] = old.pool /\ word[2] = old.outleft - 1
      /\ Seed(word) = old.pool[1]
  BY <1>2, <1>3 DEF Seed
<1> HIDE DEF s, word
<1>6. /\ pc' \in [Processes -> [Threads -> Labels]] /\ Changed(pc, pc', p, t, "idle")
      /\ op' \in [Processes -> [Threads -> Ops]] /\ Changed(op, op', p, t, "none")
  BY <1>1, Returns DEF StreamsInv
<1>7. stream' \in [Processes -> [Threads -> Streams]] /\ Changed(stream, stream', p, t, s)
  BY <1>1, <1>4, Turns DEF StreamsInv
<1> HIDE DEF old
<1>8. /\ history' \subseteq Happenings /\ history \subseteq history'
      /\ ("raced" \in history' <=> "raced" \in history)
      /\ ("masked" \in history' <=> "masked" \in history)
      /\ ("leftover" \in history' <=> "leftover" \in history \/ old.inherited)
      /\ ("repeated" \in history' <=> "repeated" \in history \/ word \in drawn)
  BY <1>1 DEF StreamsInv, StateOK, Happenings
<1>9. StateOK'
  BY <1>1, <1>5, <1>6, <1>7, <1>8 DEF StreamsInv, StateOK, Ops
<1>10. \A q \in Processes, u \in Threads : Threading(q, u)'
  <2>1. Threading(p, t)'
    BY <1>2, <1>4, <1>6, <1>7 DEF Threading, Changed, Stirrings, old
  <2>2. ASSUME NEW q \in Processes, NEW u \in Threads, q # p \/ u # t PROVE Threading(q, u)'
    <3>1. /\ Threading(q, u)
          /\ pc'[q][u] = pc[q][u] /\ op'[q][u] = op[q][u] /\ stream'[q][u] = stream[q][u]
      BY <1>6, <1>7, <2>2 DEF StreamsInv, Changed
    <3> QED
      BY <3>1 DEF Threading
  <2> QED
    BY <2>1, <2>2
<1>11. Recorded'
  BY <1>1, <1>4, <1>6, <1>7 DEF StreamsInv, Recorded, Changed, Processes, old
<1>12. OnlyChildrenAreRefused'
  BY <1>1 DEF StreamsInv, OnlyChildrenAreRefused
<1>13. Numbered'
  <2>1. \A q \in Processes, u \in Threads :
          /\ IsKey(stream[q][u].key) /\ IsKey(stream[q][u].pool)
          /\ stream'[q][u].key = stream[q][u].key
          /\ stream'[q][u].pool = stream[q][u].pool \/ stream'[q][u].pool = Zeros
    BY <1>4, <1>7 DEF StreamsInv, Numbered, Changed, old
  <2>2. Zeros[1] = NoSeed
    BY KeyFacts
  <2> QED
    BY <1>1, <2>1, <2>2 DEF Numbered, IsKey
<1>14. ASSUME Kernel' PROVE Probed' /\ Related'
  <2>1. Probed /\ Related
    BY <1>8, <1>14 DEF StreamsInv, Kernel
  <2>2. Probed'
    <3>1. /\ pc'[p][t] = "idle" /\ stream'[p][t] = s
          /\ \A q \in Processes, u \in Threads : q # p \/ u # t =>
               pc'[q][u] = pc[q][u] /\ stream'[q][u] = stream[q][u]
      BY <1>6, <1>7 DEF Changed
    <3>2. s.key[1] = stream[p][t].key[1] /\ s.initialized = stream[p][t].initialized
      BY <1>4 DEF old
    <3> QED
      BY <1>1, <2>1, <3>1, <3>2 DEF Probed, Once
  <2>3. Related'
    BY <1>1, <1>4, <1>6, <1>7, <1>8, <2>1 DEF Related, Changed, Processes, old
  <2> QED
    BY <2>2, <2>3
<1>15. ASSUME Clean' PROVE Unrepeated'
  <2>1. Unrepeated /\ ~old.inherited /\ Ahead(p, t)
    BY <1>8, <1>15 DEF StreamsInv, Clean, Kernel, Unrepeated, old
  <2>2. /\ seeds[p][t] \in Nat /\ seeds[p][t] > 0 /\ old.key[1] = <<p, t, seeds[p][t]>>
        /\ old.pool[1] = old.key[1] /\ Len(old.pool) < Len(old.key)
    BY <1>2, <2>1 DEF StreamsInv, StateOK, Ahead, old
  <2>3. word \notin drawn
    BY <1>2, <1>3, <1>5, <2>1, <2>2, WordIsNew DEF old
  <2>4. "repeated" \notin history'
    BY <1>8, <2>1, <2>3 DEF Unrepeated
  <2>5. SeedsArePast'
    BY <1>1, <1>5, <2>1, <2>2 DEF Unrepeated, SeedsArePast, Seed
  <2>6. Ahead(p, t)'
    <3>1. stream'[p][t] = s /\ seeds' = seeds /\ s.key[1] = <<p, t, seeds[p][t]>>
      BY <1>1, <1>4, <1>7, <2>2 DEF Changed
    <3>2. s.outleft > 0 => s.pool = old.pool /\ s.pool[1] = s.key[1] /\ Len(s.pool) < Len(s.key)
      BY <1>3, <1>4, <2>2
    <3>3. ASSUME NEW w \in drawn', Seed(w) = s.key[1]
          PROVE  Len(w[1]) < Len(s.key) /\ (s.outleft > 0 /\ w[1] = s.pool => w[2] >= s.outleft)
      <4>1. CASE w \in drawn
        <5>1. Len(w[1]) < Len(old.key) /\ (w[1] = old.pool => w[2] >= old.outleft)
          BY <1>2, <1>4, <2>1, <3>3, <4>1 DEF Ahead, old
        <5>2. w[2] \in Nat
          BY <4>1 DEF StreamsInv, StateOK
        <5> QED
          BY <1>3, <1>4, <3>2, <5>1, <5>2
      <4>2. CASE w = word
        BY <1>3, <1>4, <1>5, <2>2, <4>2
      <4> QED
        BY <1>1, <4>1, <4>2
    <3> QED
      BY <2>2, <3>1, <3>2, <3>3 DEF Ahead, Seed
  <2>7. ASSUME NEW q \in Processes, NEW u \in Threads, q # p \/ u # t PROVE Ahead(q, u)'
    <3>1. Ahead(q, u) /\ stream'[q][u] = stream[q][u] /\ seeds' = seeds
      BY <1>1, <1>7, <2>1, <2>7 DEF Unrepeated, Changed
    <3>2. <<p, t, seeds[p][t]>> # <<q, u, seeds[q][u]>>
      BY <2>7
    <3> QED
      BY <1>1, <1>5, <2>2, <3>1, <3>2 DEF Ahead, Seed
  <2> QED
    BY <2>4, <2>5, <2>6, <2>7 DEF Unrepeated
<1> QED
  BY <1>9, <1>10, <1>11, <1>12, <1>13, <1>14, <1>15 DEF StreamsInv

\* A stream that is wiped is nobody's; a forked thread's is its parent's.
LEMMA Replaced ==
    ASSUME StreamsInv, UNCHANGED <<kernel, ended, seeds, drawn, history>>,
           NEW p \in Processes, NEW t \in Threads, NEW s \in Streams,
           stream' = [stream EXCEPT ![p][t] = s],
           IsKey(s.key), IsKey(s.pool), s.inherited = s.initialized
    PROVE  OnlyChildrenAreRefused' /\ Numbered' /\ (Clean' => Unrepeated')
<1>1. Changed(stream, stream', p, t, s)
  BY Turns DEF StreamsInv
<1>2. OnlyChildrenAreRefused'
  BY DEF StreamsInv, OnlyChildrenAreRefused
<1>3. Numbered'
  <2>1. \A q \in Processes, u \in Threads :
          IsKey(stream'[q][u].key) /\ IsKey(stream'[q][u].pool)
    BY <1>1 DEF StreamsInv, Numbered, Changed
  <2> QED
    BY <2>1 DEF Numbered, IsKey
<1>4. ASSUME Clean' PROVE Unrepeated'
  <2>1. Unrepeated
    BY <1>4 DEF StreamsInv, Clean, Kernel
  <2>2. Ahead(p, t)'
    BY <1>1 DEF Ahead, Changed
  <2>3. ASSUME NEW q \in Processes, NEW u \in Threads, q # p \/ u # t PROVE Ahead(q, u)'
    BY <1>1, <2>1, <2>3, AheadKept DEF Unrepeated, Changed
  <2>4. SeedsArePast'
    BY <2>1 DEF Unrepeated, SeedsArePast, Seed
  <2> QED
    BY <2>1, <2>2, <2>3, <2>4 DEF Unrepeated
<1> QED
  BY <1>2, <1>3, <1>4

LEMMA StepOfClose ==
    ASSUME InternalParameters, StreamsInv, UNCHANGED kernel, NEW p \in Processes, NEW t \in Threads,
           Close(p, t)
    PROVE  StreamsInv'
<1>1. /\ pc[p][t] = "idle" /\ calls < MaxCalls /\ calls' = calls + 1
      /\ stream' = [stream EXCEPT ![p][t] = NoStream]
      /\ UNCHANGED <<pc, op, global, ended, seeds, drawn, history>>
  BY DEF Close
<1>2. /\ NoStream \in Streams /\ ~NoStream.initialized /\ ~NoStream.inherited
      /\ NoStream.outleft = 0 /\ IsKey(NoStream.key) /\ IsKey(NoStream.pool)
  BY NoStreamFacts, KeyFacts DEF IsKey
<1>3. stream' \in [Processes -> [Threads -> Streams]] /\ Changed(stream, stream', p, t, NoStream)
  BY <1>1, <1>2, Turns DEF StreamsInv
<1>4. StateOK'
  BY <1>1, <1>3 DEF StreamsInv, StateOK, InternalParameters
<1>5. \A q \in Processes, u \in Threads : Threading(q, u)'
  BY <1>1, <1>2, <1>3 DEF StreamsInv, Threading, Changed, Stirrings
<1>6. Recorded'
  BY <1>1, <1>2, <1>3 DEF StreamsInv, Recorded, Changed, Processes
<1>7. OnlyChildrenAreRefused' /\ Numbered' /\ (Clean' => Unrepeated')
  <2>1. NoStream.inherited = NoStream.initialized
    BY DEF NoStream
  <2> QED
    BY <1>1, <1>2, <2>1, Replaced
<1>8. ASSUME Kernel' PROVE Probed' /\ Related'
  <2>1. Probed /\ Related
    BY <1>1, <1>8 DEF StreamsInv, Kernel
  <2>2. Probed'
    BY <1>1, <1>2, <1>3, <2>1 DEF Probed, Changed
  <2>3. Related'
    BY <1>1, <1>2, <1>3, <2>1 DEF Related, Changed, Processes
  <2> QED
    BY <2>2, <2>3
<1> QED
  BY <1>4, <1>5, <1>6, <1>7, <1>8 DEF StreamsInv

-----------------------------------------------------------------------------
\* Processes and threads.

LEMMA StepOfFork ==
    ASSUME StreamsInv, UNCHANGED kernel, NEW t \in Threads, Fork(t)
    PROVE  StreamsInv'
<1> DEFINE old == stream["parent"][t]
           s == [old EXCEPT !.inherited = old.initialized]
<1>1. /\ pc["parent"][t] = "idle" /\ \A u \in Threads : pc["child"][u] = "unborn"
      /\ Goto("child", t, "idle")
      /\ global' = [global EXCEPT !["child"] = global["parent"]]
      /\ stream' = [stream EXCEPT !["child"][t] = s]
      /\ UNCHANGED <<op, ended, seeds, calls, drawn, history>>
  BY DEF Fork
<1>2. "parent" \in Processes /\ "child" \in Processes /\ Processes = {"parent", "child"}
  BY DEF Processes
<1>3. old \in Streams /\ IsKey(old.key) /\ IsKey(old.pool) /\ Threading("parent", t)
  BY <1>2 DEF StreamsInv, StateOK, Numbered
<1>4. /\ s \in Streams /\ s.outleft = old.outleft /\ s.pool = old.pool /\ s.key = old.key
      /\ s.initialized = old.initialized /\ s.inherited = old.initialized
  BY <1>3 DEF Streams
<1> HIDE DEF s
<1>5. pc' \in [Processes -> [Threads -> Labels]] /\ Changed(pc, pc', "child", t, "idle")
  BY <1>1, <1>2, Moves DEF StreamsInv, Labels
<1>6. stream' \in [Processes -> [Threads -> Streams]] /\ Changed(stream, stream', "child", t, s)
  BY <1>1, <1>2, <1>4, Turns DEF StreamsInv
<1>7. /\ global' \in [Processes -> Globals] /\ global'["child"] = global["parent"]
      /\ global'["parent"] = global["parent"]
  BY <1>1, <1>2 DEF StreamsInv, StateOK, Globals
<1> HIDE DEF old
<1>8. StateOK'
  BY <1>1, <1>5, <1>6, <1>7 DEF StreamsInv, StateOK, Globals
<1>9. \A q \in Processes, u \in Threads : Threading(q, u)'
  <2>1. Threading("child", t)'
    BY <1>3, <1>4, <1>5, <1>6 DEF Threading, Changed, Stirrings, old
  <2>2. ASSUME NEW q \in Processes, NEW u \in Threads, q # "child" \/ u # t
        PROVE  Threading(q, u)'
    <3>1. /\ Threading(q, u)
          /\ pc'[q][u] = pc[q][u] /\ op'[q][u] = op[q][u] /\ stream'[q][u] = stream[q][u]
      BY <1>1, <1>5, <1>6, <2>2 DEF StreamsInv, Changed
    <3> QED
      BY <3>1 DEF Threading
  <2> QED
    BY <2>1, <2>2
<1>10. Recorded'
  BY <1>2, <1>5, <1>6, <1>7 DEF StreamsInv, Recorded, Changed
<1>11. OnlyChildrenAreRefused' /\ Numbered' /\ (Clean' => Unrepeated')
  BY <1>1, <1>2, <1>3, <1>4, Replaced
<1>12. ASSUME Kernel' PROVE Probed' /\ Related'
  <2>1. Probed /\ Related
    BY <1>1, <1>12 DEF StreamsInv, Kernel
  <2>2. /\ pc'["child"][t] = "idle" /\ stream'["child"][t] = s
        /\ \A u \in Threads : u # t => pc'["child"][u] = "unborn"
                                       /\ stream'["child"][u] = stream["child"][u]
        /\ \A u \in Threads : pc'["parent"][u] = pc["parent"][u]
                              /\ stream'["parent"][u] = stream["parent"][u]
    BY <1>1, <1>2, <1>5, <1>6 DEF Changed
  <2>3. Probed'
    <3>1. s.initialized => s.key[1] # NoSeed
      BY <1>2, <1>4, <2>1 DEF Probed, old
    <3> QED
      BY <1>2, <1>7, <2>1, <2>2, <3>1 DEF Probed, Once
  <2>4. "masked" \notin history /\ global["parent"].pid # "child"
    BY <1>1, <2>1 DEF StreamsInv, Related, Recorded
  <2>5. Related'
    BY <1>1, <1>2, <1>7, <2>1, <2>2, <2>4 DEF Related
  <2> QED
    BY <2>3, <2>5
<1> QED
  BY <1>8, <1>9, <1>10, <1>11, <1>12 DEF StreamsInv

LEMMA StepOfStartThread ==
    ASSUME StreamsInv, UNCHANGED kernel, NEW t \in Threads, StartThread(t)
    PROVE  StreamsInv'
<1>1. /\ pc["child"][t] = "unborn" /\ Goto("child", t, "idle")
      /\ UNCHANGED <<op, stream, global, ended, seeds, calls, drawn, history>>
  BY DEF StartThread
<1>2. "parent" \in Processes /\ "child" \in Processes /\ Processes = {"parent", "child"}
  BY DEF Processes
<1>3. pc' \in [Processes -> [Threads -> Labels]] /\ Changed(pc, pc', "child", t, "idle")
  BY <1>1, <1>2, Moves DEF StreamsInv, Labels
<1>4. StateOK'
  BY <1>1, <1>3 DEF StreamsInv, StateOK
<1>5. \A q \in Processes, u \in Threads : Threading(q, u)'
  BY <1>1, <1>2, <1>3 DEF StreamsInv, Threading, Changed, Stirrings
<1>6. Recorded'
  BY <1>1, <1>2, <1>3 DEF StreamsInv, Recorded, Changed
<1>7. OnlyChildrenAreRefused'
  BY <1>1 DEF StreamsInv, OnlyChildrenAreRefused
<1>8. Numbered' /\ (Clean' => Unrepeated')
  BY <1>1, QuietStep
<1>9. ASSUME Kernel' PROVE Probed' /\ Related'
  <2>1. Probed /\ Related
    BY <1>1, <1>9 DEF StreamsInv, Kernel
  <2>2. Probed'
    BY <1>1, <1>2, <1>3, <2>1 DEF Probed, Changed, Once
  <2>3. Related'
    BY <1>1, <1>2, <1>3, <2>1 DEF StreamsInv, Threading, Related, Changed
  <2> QED
    BY <2>2, <2>3
<1> QED
  BY <1>4, <1>5, <1>6, <1>7, <1>8, <1>9 DEF StreamsInv

-----------------------------------------------------------------------------
\* The invariant, and the theorems.

LEMMA StreamsInvInit ==
    ASSUME InternalParameters, InternalInit
    PROVE  StreamsInv
<1>1. /\ kernel \in BOOLEAN /\ ended = {} /\ calls = 0 /\ drawn = {} /\ history = {}
      /\ pc = [parent |-> [t \in Threads |-> "idle"], child |-> [t \in Threads |-> "unborn"]]
      /\ op = [p \in Processes |-> [t \in Threads |-> "none"]]
      /\ stream = [p \in Processes |-> [t \in Threads |-> NoStream]]
      /\ global = [p \in Processes |->
                     [initialized |-> FALSE, available |-> FALSE, pid |-> "none"]]
      /\ seeds = [p \in Processes |-> [t \in Threads |-> 0]]
  BY DEF InternalInit, InternalParameters
<1>2. /\ NoStream \in Streams /\ ~NoStream.initialized /\ ~NoStream.inherited
      /\ NoStream.outleft = 0 /\ IsKey(NoStream.key) /\ IsKey(NoStream.pool)
  BY NoStreamFacts, KeyFacts DEF IsKey
<1>3. Processes = {"parent", "child"}
  BY DEF Processes
<1>4. \A t \in Threads : pc["parent"][t] = "idle" /\ pc["child"][t] = "unborn"
  BY <1>1
<1>5. \A p \in Processes, t \in Threads : stream[p][t] = NoStream
  BY <1>1
<1>6. \A p \in Processes : ~global[p].initialized /\ global[p].pid = "none"
  BY <1>1
<1>7. StateOK
  <2>1. pc \in [Processes -> [Threads -> Labels]]
    <3>1. /\ [t \in Threads |-> "idle"] \in [Threads -> Labels]
          /\ [t \in Threads |-> "unborn"] \in [Threads -> Labels]
      BY DEF Labels
    <3> QED
      BY <1>1, <1>3, <3>1
  <2>2. stream \in [Processes -> [Threads -> Streams]]
    BY <1>1, <1>2
  <2>3. global \in [Processes -> Globals]
    BY <1>1 DEF Globals
  <2>4. op \in [Processes -> [Threads -> {"none", "buf", "random", "stir"}]]
    BY <1>1
  <2>5. seeds \in [Processes -> [Threads -> Nat]]
    BY <1>1
  <2>6. calls \in 0..MaxCalls
    BY <1>1 DEF InternalParameters
  <2> QED
    BY <1>1, <2>1, <2>2, <2>3, <2>4, <2>5, <2>6 DEF StateOK, Globals
<1>8. \A p \in Processes, t \in Threads : Threading(p, t)
  BY <1>2, <1>3, <1>4, <1>5 DEF Threading, Stirrings
<1>9. Recorded
  BY <1>2, <1>3, <1>4, <1>5, <1>6 DEF Recorded
<1>10. OnlyChildrenAreRefused /\ Numbered
  BY <1>1, <1>2, <1>5 DEF OnlyChildrenAreRefused, Numbered
<1>11. Probed
  BY <1>2, <1>3, <1>4, <1>5, <1>6 DEF Probed, Once
<1>12. Related
  BY <1>1, <1>2, <1>3, <1>5, <1>6 DEF Related
<1>13. Unrepeated
  BY <1>1, <1>2, <1>5 DEF Unrepeated, SeedsArePast, Ahead
<1> QED
  BY <1>7, <1>8, <1>9, <1>10, <1>11, <1>12, <1>13 DEF StreamsInv

LEMMA StreamsInvOfStep ==
    ASSUME InternalParameters, StreamsInv, UNCHANGED kernel, NEW p \in Processes, NEW t \in Threads,
           StepOf(p, t)
    PROVE  StreamsInv'
<1>1. ASSUME NEW f \in {"buf", "random", "stir"}, Begin(p, t, f) PROVE StreamsInv'
  BY <1>1, StepOfCall
<1>2. CASE CheckFails(p, t)
  BY <1>2, StepOfCheckFails
<1>3. CASE CheckPasses(p, t)
  BY <1>3, StepOfCheckPasses
<1>4. CASE StirReset(p, t)
  BY <1>4, StepOfStirReset
<1>5. CASE StirInit(p, t)
  BY <1>5, StepOfStirInit
<1>6. CASE StirProbe(p, t)
  BY <1>6, StepOfStirProbe
<1>7. CASE StirOpenDevice(p, t)
  BY <1>7, StepOfStirOpenDevice
<1>8. CASE StirMark(p, t)
  BY <1>8, StepOfStirMark
<1>9. CASE StirPid(p, t)
  BY <1>9, StepOfStirPid
<1>10. CASE StirSeed(p, t)
  BY <1>10, StepOfStirSeed
<1>11. CASE Buf(p, t)
  BY <1>11, StepOfBuf
<1>12. CASE Refill(p, t)
  BY <1>12, StepOfRefill
<1>13. CASE Pop(p, t)
  BY <1>13, StepOfPop
<1>14. CASE Close(p, t)
  BY <1>14, StepOfClose
<1> QED
  BY <1>1, <1>2, <1>3, <1>4, <1>5, <1>6, <1>7, <1>8, <1>9, <1>10, <1>11, <1>12, <1>13, <1>14
     DEF StepOf

LEMMA StreamsInvStep ==
    ASSUME InternalParameters, StreamsInv, [InternalNext]_internalVars
    PROVE  StreamsInv'
<1>1. ASSUME UNCHANGED kernel, NEW p \in Processes \ ended, NEW t \in Threads, StepOf(p, t)
      PROVE  StreamsInv'
  BY <1>1, StreamsInvOfStep
<1>2. ASSUME UNCHANGED kernel, NEW t \in Threads, Fork(t) PROVE StreamsInv'
  BY <1>2, StepOfFork
<1>3. ASSUME UNCHANGED kernel, NEW t \in Threads, StartThread(t) PROVE StreamsInv'
  BY <1>3, StepOfStartThread
<1>4. CASE UNCHANGED internalVars
  <2>1. UNCHANGED <<kernel, pc, op, stream, global, ended, seeds, calls, drawn, history>>
    BY <1>4 DEF internalVars
  <2>2. StateOK' /\ Recorded' /\ OnlyChildrenAreRefused'
    BY <2>1 DEF StreamsInv, StateOK, Recorded, OnlyChildrenAreRefused
  <2>3. \A p \in Processes, t \in Threads : Threading(p, t)'
    BY <2>1 DEF StreamsInv, Threading
  <2>4. Kernel' => Probed' /\ Related'
    BY <2>1 DEF StreamsInv, Kernel, Probed, Related
  <2>5. Numbered' /\ (Clean' => Unrepeated')
    BY <2>1, QuietStep
  <2> QED
    BY <2>2, <2>3, <2>4, <2>5 DEF StreamsInv
<1> QED
  BY <1>1, <1>2, <1>3, <1>4 DEF InternalNext

LEMMA StreamsInvAlways ==
    ASSUME InternalParameters
    PROVE  InternalSpec => []StreamsInv
<1>1. InternalInit => StreamsInv
  BY StreamsInvInit
<1>2. StreamsInv /\ [InternalNext]_internalVars => StreamsInv'
  BY StreamsInvStep
<1> QED
  BY <1>1, <1>2, PTL DEF InternalSpec

\* Every variable has its type: every key in use comes from a seed that was given out, or
\* from none.
THEOREM InternalTypeCorrect ==
    ASSUME InternalParameters
    PROVE  InternalSpec => []InternalTypeOK
<1>1. ASSUME StreamsInv PROVE InternalTypeOK
  <2>1. /\ kernel \in BOOLEAN /\ ended \subseteq Processes /\ history \subseteq Happenings
        /\ calls \in 0..MaxCalls
    BY <1>1 DEF StreamsInv, StateOK
  <2>2. ASSUME NEW p \in Processes
        PROVE  /\ global[p].initialized \in BOOLEAN /\ global[p].available \in BOOLEAN
               /\ global[p].pid \in Processes \cup {"none"}
    BY <1>1 DEF StreamsInv, StateOK
  <2>3. ASSUME NEW p \in Processes, NEW t \in Threads
        PROVE  /\ pc[p][t] \in Labels
               /\ op[p][t] \in {"none", "buf", "random", "stir"}
               /\ stream[p][t].initialized \in BOOLEAN /\ stream[p][t].inherited \in BOOLEAN
               /\ stream[p][t].outleft \in 0..PoolWords
               /\ IsKey(stream[p][t].key) /\ IsKey(stream[p][t].pool)
    <3>1. stream[p][t] \in Streams
      BY <1>1 DEF StreamsInv, StateOK
    <3>2. IsKey(stream[p][t].key) /\ IsKey(stream[p][t].pool)
      BY <1>1 DEF StreamsInv, Numbered
    <3>3. pc[p][t] \in Labels /\ op[p][t] \in {"none", "buf", "random", "stir"}
      BY <1>1 DEF StreamsInv, StateOK
    <3> QED
      BY <3>1, <3>2, <3>3 DEF Streams
  <2> QED
    BY <2>1, <2>2, <2>3 DEF InternalTypeOK
<1> QED
  BY <1>1, StreamsInvAlways, PTL

\* The check of the pid never ends the process that did not fork from another, whatever
\* its threads do at one time and whether or not it has closed its streams.
THEOREM OnlyChildrenAreRefusedTheorem ==
    ASSUME InternalParameters
    PROVE  InternalSpec => []OnlyChildrenAreRefused
<1>1. StreamsInv => OnlyChildrenAreRefused
  BY DEF StreamsInv
<1> QED
  BY <1>1, StreamsInvAlways, PTL

\* Where getrandom() works, every stream that is marked as initialized has a key that
\* comes from a seed, unless two threads initialized the global state at one time.
THEOREM SeededUnlessRacedTheorem ==
    ASSUME InternalParameters
    PROVE  InternalSpec => []SeededUnlessRaced
<1>1. StreamsInv => SeededUnlessRaced
  BY DEF StreamsInv, SeededUnlessRaced, Seeded, Kernel, Probed
<1> QED
  BY <1>1, StreamsInvAlways, PTL

\* No word is handed out a second time, but by streams without a seed, by a child that
\* drains the pool it inherited, or by one that passes the check of the pid, which it does
\* only with two threads.
THEOREM RepeatsAreExplainedTheorem ==
    ASSUME InternalParameters
    PROVE  InternalSpec => []RepeatsAreExplained
<1>1. ASSUME StreamsInv PROVE RepeatsAreExplained
  <2>1. "repeated" \in history => history \cap {"leftover", "masked", "raced"} # {} \/ ~kernel
    <3>1. Clean => "repeated" \notin history
      BY <1>1 DEF StreamsInv, Unrepeated
    <3> QED
      BY <3>1 DEF Clean, Kernel
  <2>2. kernel /\ "raced" \notin history /\ "masked" \in history =>
          \E t, u \in Threads : t # u /\ pc["child"][t] # "unborn" /\ pc["child"][u] # "unborn"
    BY <1>1 DEF StreamsInv, Kernel, Related
  <2> QED
    BY <2>1, <2>2 DEF RepeatsAreExplained
<1> QED
  BY <1>1, StreamsInvAlways, PTL

=============================================================================
