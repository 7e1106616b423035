-------------------------- MODULE AgentLoopProofs ---------------------------
(***************************************************************************)
(* What holds of an agent's turns for every number of turns, rounds and    *)
(* tool calls, every history and every limit of the context.               *)
(*                                                                         *)
(* The first part is about the calls: one has its effect at most once, and *)
(* a publishing one only after the user confirmed it.  The second part is  *)
(* about the messages: whatever the loop drops, prunes or compacts, every  *)
(* request to the provider holds exactly the results its calls ask for,    *)
(* but for the two cases that RequestsArePaired names.                     *)
(***************************************************************************)
EXTENDS AgentLoop, SequenceTheorems, FiniteSetTheorems, TLAPS

-----------------------------------------------------------------------------
(***************************************************************************)
(* The calls of a turn (AgentLoop).                                        *)
(***************************************************************************)

\* A list of calls that names none of them twice.
Distinct(list) == \A i, j \in DOMAIN list : list[i] = list[j] => i = j

\* The position of a call among others.
Rank(c, ids) == Cardinality({d \in ids : d <= c})

\* Among finitely many numbers each has a position of its own, in their order.
LEMMA RankFacts ==
    ASSUME NEW ids \in SUBSET Int, IsFiniteSet(ids)
    PROVE  /\ Cardinality(ids) \in Nat
           /\ \A c \in ids : Rank(c, ids) \in 1 .. Cardinality(ids)
           /\ \A c, d \in ids : c < d => Rank(c, ids) < Rank(d, ids)
           /\ \A c, d \in ids : Rank(c, ids) = Rank(d, ids) => c = d
  <1>1. Cardinality(ids) \in Nat
    BY FS_CardinalityType
  <1>2. ASSUME NEW c \in ids
        PROVE  Rank(c, ids) \in 1 .. Cardinality(ids)
    <2> DEFINE S == {d \in ids : d <= c}
    <2>1. IsFiniteSet(S) /\ Cardinality(S) \in Nat /\ Cardinality(S) <= Cardinality(ids)
      BY FS_Subset, FS_CardinalityType
    <2>2. c \in S
      OBVIOUS
    <2>3. Cardinality(S) # 0
      BY <2>1, <2>2, FS_EmptySet
    <2> QED
      BY <1>1, <2>1, <2>3 DEF Rank
  <1>3. ASSUME NEW c \in ids, NEW d \in ids, c < d
        PROVE  Rank(c, ids) < Rank(d, ids)
    <2> DEFINE S == {e \in ids : e <= c}
               T == {e \in ids : e <= d}
    <2>1. S \subseteq T /\ d \in T /\ d \notin S
      <3>1. \A e \in ids : e <= c => e <= d
        BY <1>3
      <3>2. d <= d /\ ~(d <= c)
        BY <1>3
      <3> QED
        BY <3>1, <3>2
    <2>2. IsFiniteSet(T) /\ Cardinality(T) \in Nat /\ Cardinality(S) \in Nat
      BY FS_Subset, FS_CardinalityType
    <2>3. Cardinality(S) <= Cardinality(T) /\ Cardinality(T) # Cardinality(S)
      BY <2>1, <2>2, FS_Subset
    <2>4. Cardinality(S) < Cardinality(T)
      BY <2>2, <2>3
    <2> QED
      BY <2>4 DEF Rank
  <1>4. ASSUME NEW c \in ids, NEW d \in ids, Rank(c, ids) = Rank(d, ids)
        PROVE  c = d
    <2>1. Rank(c, ids) \in Int
      BY <1>1, <1>2
    <2>2. ~(c < d) /\ ~(d < c)
      BY <1>3, <1>4, <2>1
    <2> QED
      BY <2>2
  <1> QED
    BY <1>1, <1>2, <1>3, <1>4

\* In their order there is each of them, once.
LEMMA OrderedFacts ==
    ASSUME NEW ids \in SUBSET Int, IsFiniteSet(ids)
    PROVE  /\ Ordered(ids) \in Seq(ids) /\ Len(Ordered(ids)) = Cardinality(ids)
           /\ DOMAIN Ordered(ids) = 1 .. Cardinality(ids) /\ Cardinality(ids) \in Nat
           /\ Distinct(Ordered(ids))
           /\ \A i \in DOMAIN Ordered(ids) : Ordered(ids)[i] \in ids
           /\ \A i, j \in DOMAIN Ordered(ids) : i < j <=> Ordered(ids)[i] < Ordered(ids)[j]
           /\ \A c \in ids : \E i \in DOMAIN Ordered(ids) : Ordered(ids)[i] = c
  <1> DEFINE n == Cardinality(ids)
             rank == [c \in ids |-> Rank(c, ids)]
  <1>1. n \in Nat
    BY RankFacts
  <1>2. rank \in Injection(ids, 1 .. n)
    BY RankFacts DEF Injection, IsInjective
  <1>3. IsFiniteSet(1 .. n) /\ Cardinality(1 .. n) = n
    BY <1>1, FS_Interval
  <1>4. rank \in Surjection(ids, 1 .. n)
    BY <1>1, <1>2, <1>3, FS_Injection
  <1>5. \A i \in 1 .. n : \E c \in ids : Rank(c, ids) = i
    BY <1>4 DEF Surjection
  <1>6. \A i \in 1 .. n : Ordered(ids)[i] \in ids /\ Rank(Ordered(ids)[i], ids) = i
    BY <1>5 DEF Ordered, Rank
  <1>7. DOMAIN Ordered(ids) = 1 .. n
    BY DEF Ordered
  <1>8. Ordered(ids) \in [1 .. n -> ids]
    BY <1>6 DEF Ordered
  <1>9. Ordered(ids) \in Seq(ids) /\ Len(Ordered(ids)) = n
    BY <1>1, <1>8
  <1>10. Distinct(Ordered(ids))
    BY <1>6, <1>7 DEF Distinct
  <1>11. ASSUME NEW c \in ids
         PROVE  \E i \in DOMAIN Ordered(ids) : Ordered(ids)[i] = c
    <2>1. Rank(c, ids) \in 1 .. n
      BY RankFacts
    <2>2. Ordered(ids)[Rank(c, ids)] = c
      BY <1>6, <2>1, RankFacts
    <2> QED
      BY <1>7, <2>1, <2>2
  <1>12. ASSUME NEW i \in 1 .. n, NEW j \in 1 .. n
         PROVE  i < j <=> Ordered(ids)[i] < Ordered(ids)[j]
    <2> DEFINE c == Ordered(ids)[i]
               d == Ordered(ids)[j]
    <2>1. c \in ids /\ d \in ids /\ Rank(c, ids) = i /\ Rank(d, ids) = j
      BY <1>6
    <2> HIDE DEF c, d
    <2>2. /\ c < d => Rank(c, ids) < Rank(d, ids)
          /\ d < c => Rank(d, ids) < Rank(c, ids)
      BY <2>1, RankFacts
    <2>3. c < d \/ d < c \/ c = d
      BY <2>1
    <2>4. i < j <=> c < d
      BY <2>1, <2>2, <2>3
    <2> QED
      BY <2>4 DEF c, d
  <1> QED
    BY <1>1, <1>6, <1>7, <1>9, <1>10, <1>11, <1>12

\* So of calls.
LEMMA OrderedCalls ==
    ASSUME NEW ids \in SUBSET Calls
    PROVE  /\ IsFiniteSet(ids)
           /\ Ordered(ids) \in Seq(Calls) /\ Distinct(Ordered(ids))
           /\ \A i \in DOMAIN Ordered(ids) : Ordered(ids)[i] \in ids
           /\ \A c \in ids : \E i \in DOMAIN Ordered(ids) : Ordered(ids)[i] = c
  <1>1. IsFiniteSet(Calls) /\ Calls \subseteq Int
    BY FS_Interval, CallsAssumption DEF Calls
  <1>2. IsFiniteSet(ids) /\ ids \in SUBSET Int
    BY <1>1, FS_Subset
  <1>3. Ordered(ids) \in Seq(Calls)
    <2>1. Ordered(ids) \in Seq(ids)
      BY <1>2, OrderedFacts
    <2> QED
      BY <2>1
  <1> QED
    BY <1>2, <1>3, OrderedFacts

\* What is left of a list after its first call.
LEMMA RestFacts ==
    ASSUME NEW list \in Seq(Calls), Distinct(list), list # <<>>
    PROVE  /\ Tail(list) \in Seq(Calls) /\ Distinct(Tail(list)) /\ Head(list) \in Calls
           /\ 1 \in DOMAIN list /\ list[1] = Head(list)
           /\ \A i \in DOMAIN Tail(list) :
                 /\ Tail(list)[i] # Head(list)
                 /\ \E j \in DOMAIN list : Tail(list)[i] = list[j]
  <1>1. /\ Len(list) \in Nat /\ Len(list) > 0
        /\ DOMAIN list = 1 .. Len(list) /\ DOMAIN Tail(list) = 1 .. Len(list) - 1
        /\ \A i \in 1 .. Len(list) - 1 : Tail(list)[i] = list[i + 1]
        /\ Head(list) = list[1] /\ Tail(list) \in Seq(Calls)
    OBVIOUS
  <1>2. Head(list) \in Calls
    BY <1>1
  <1> QED
    BY <1>1, <1>2 DEF Distinct

-----------------------------------------------------------------------------

\* The call is on the list.
Listed(list, c) == \E i \in DOMAIN list : list[i] = c

\* A call that is still to have its effect.
Unspent(c) == kind[c] # "none" /\ ran[c] = 0

\* The types of what the calls are decided by.
CallTypes ==
    /\ where \in Places
    /\ kind \in [Calls -> {"none"} \cup ToolKinds]
    /\ together \subseteq Calls
    /\ todo \in Seq(Calls) /\ pending \in Seq(Calls)
    /\ resumed \in BOOLEAN
    /\ ran \in [Calls -> 0 .. 2]

\* What is to be run or to be confirmed has not run, and is on one list only, once.
CallsOnce ==
    /\ \A c \in Calls : kind[c] = "none" => ran[c] = 0
    /\ Distinct(todo) /\ Distinct(pending)
    /\ \A c \in Calls : Listed(todo, c) => Unspent(c) /\ c \notin together
    /\ \A c \in Calls : Listed(pending, c) => Unspent(c)
    /\ \A c \in together : ran[c] = 0 /\ kind[c] = "parallel"

\* Where the lists are what: only what the user confirmed is run while nothing else
\* is pending, and what publishes is run in no other place.
CallsPlaced ==
    /\ where \in {"idle", "round"} => todo = <<>>
    /\ where \in {"idle", "resolving", "confirmed", "round", "serial"} => together = {}
    /\ where = "resolving" => todo = pending
    /\ where \in {"confirmed", "round", "parallel", "serial"} => pending = <<>>
    /\ where = "confirmed" => resumed = TRUE
    /\ where \in {"parallel", "serial"} =>
          \A c \in Calls : Listed(todo, c) => kind[c] # "publish"

\* The inductive invariant of the calls of a conversation.
CallsInv == CallTypes /\ CallsOnce /\ CallsPlaced

\* The empty list is a list, and no call is on it.
LEMMA NothingListed ==
    <<>> \in Seq(Calls) /\ Distinct(<<>>) /\ \A c : ~Listed(<<>>, c)
  BY DEF Distinct, Listed

\* Before the first turn nothing was called.
LEMMA CallsInit == LoopInit => CallsInv
  <1> SUFFICES ASSUME LoopInit PROVE CallsInv
    OBVIOUS
  <1>1. CallTypes
    <2>1. where \in Places /\ together \subseteq Calls /\ resumed \in BOOLEAN
      BY DEF LoopInit, Places
    <2>2. kind \in [Calls -> {"none"} \cup ToolKinds] /\ ran \in [Calls -> 0 .. 2]
      BY DEF LoopInit
    <2>3. todo \in Seq(Calls) /\ pending \in Seq(Calls)
      BY NothingListed DEF LoopInit
    <2> QED
      BY <2>1, <2>2, <2>3 DEF CallTypes
  <1> QED
    BY <1>1, NothingListed DEF LoopInit, CallsInv, CallsOnce, CallsPlaced

\* A call that had no effect has one.
LEMMA RanOnceFacts ==
    ASSUME CallTypes, NEW c \in Calls
    PROVE  /\ RanOnce(c) \in [Calls -> 0 .. 2]
           /\ \A d \in Calls \ {c} : RanOnce(c)[d] = ran[d]
  BY DEF CallTypes, RanOnce

\* What a step does to the calls, and what it may not do.
CallsRight ==
    /\ CallsInv'
    /\ \A c \in Calls :
          ran'[c] # ran[c] => ran[c] = 0 /\ (kind[c] = "publish" => resumed)

\* A step that has no call run, and at most forgets some.
LEMMA ForgetsSome ==
    ASSUME CallsInv, UNCHANGED <<kind, ran>>,
           todo' \in {todo, pending, <<>>}, pending' \in {pending, <<>>},
           together' \in {together, {}}, todo' = todo \/ together' = {},
           resumed' \in BOOLEAN, where' \in Places, CallsPlaced'
    PROVE  CallsRight
  <1>1. /\ todo' \in Seq(Calls) /\ Distinct(todo')
        /\ \A c \in Calls : Listed(todo', c) => Unspent(c) /\ c \notin together'
    BY NothingListed DEF CallsInv, CallTypes, CallsOnce
  <1>2. /\ pending' \in Seq(Calls) /\ Distinct(pending')
        /\ \A c \in Calls : Listed(pending', c) => Unspent(c)
    BY NothingListed DEF CallsInv, CallTypes, CallsOnce
  <1>3. CallTypes'
    BY <1>1, <1>2 DEF CallsInv, CallTypes
  <1>4. \A c \in Calls : Unspent(c)' = Unspent(c)
    BY DEF Unspent
  <1>5. Distinct(todo)' /\ Distinct(pending)'
    BY <1>1, <1>2 DEF Distinct
  <1>6. \A c \in Calls : /\ Listed(todo, c)' => Unspent(c)' /\ c \notin together'
                         /\ Listed(pending, c)' => Unspent(c)'
    BY <1>1, <1>2, <1>4 DEF Listed
  <1>7. CallsOnce'
    BY <1>5, <1>6 DEF CallsInv, CallsOnce
  <1> QED
    BY <1>3, <1>7 DEF CallsInv, CallsRight

\* The next call of a list is run, which nothing else is pending beside.
LEMMA RunsNext ==
    ASSUME CallsInv, where \in {"confirmed", "serial"}, todo # <<>>,
           ran' = RanOnce(Head(todo)),
           UNCHANGED <<kind, together, pending, resumed>>,
           \/ where' \in {where, "ending"} /\ todo' = Tail(todo)
           \/ where' = "idle" /\ todo' = <<>>
    PROVE  CallsRight
  <1> USE DEF CallsInv
  <1> DEFINE c == Head(todo)
  <1>1. /\ Tail(todo) \in Seq(Calls) /\ Distinct(Tail(todo)) /\ c \in Calls
        /\ Listed(todo, c) /\ ~Listed(Tail(todo), c)
        /\ \A d \in Calls : Listed(Tail(todo), d) => Listed(todo, d)
    <2>1. todo \in Seq(Calls) /\ Distinct(todo)
      BY DEF CallTypes, CallsOnce
    <2> QED
      BY <2>1, RestFacts DEF Listed
  <1>2. /\ ran' \in [Calls -> 0 .. 2]
        /\ \A d \in Calls \ {c} : ran'[d] = ran[d]
    BY <1>1, RanOnceFacts
  <1>3. /\ todo' \in Seq(Calls) /\ Distinct(todo')
        /\ \A d \in Calls : Listed(todo', d) => Listed(todo, d) /\ d # c
    BY <1>1, NothingListed
  <1>4. pending = <<>> /\ together = {}
    BY DEF CallsPlaced
  <1>5. Unspent(c) /\ (kind[c] = "publish" => resumed)
    BY <1>1 DEF CallsOnce, CallsPlaced
  <1> HIDE DEF c
  <1>6. CallTypes'
    BY <1>2, <1>3 DEF CallTypes, Places
  <1>7. \A d \in Calls : d # c => Unspent(d)' = Unspent(d)
    BY <1>2 DEF Unspent
  <1>8. CallsOnce'
    <2>1. \A d \in Calls : kind'[d] = "none" => ran'[d] = 0
      BY <1>2, <1>5 DEF CallsOnce, Unspent
    <2>2. Distinct(todo)' /\ Distinct(pending)'
      BY <1>3, <1>4, NothingListed DEF Distinct
    <2>3. \A d \in Calls : Listed(todo, d)' => Unspent(d)'
      BY <1>3, <1>7 DEF CallsOnce, Listed
    <2>4. \A d \in Calls : ~Listed(pending, d)'
      BY <1>4, NothingListed DEF Listed
    <2> QED
      BY <1>4, <2>1, <2>2, <2>3, <2>4 DEF CallsOnce
  <1>9. CallsPlaced'
    <2>1. \A d \in Calls : Listed(todo, d)' => Listed(todo, d)
      BY <1>3 DEF Listed
    <2> QED
      BY <1>4, <2>1 DEF CallsPlaced
  <1>10. \A d \in Calls : ran'[d] # ran[d] => ran[d] = 0 /\ (kind[d] = "publish" => resumed)
    BY <1>2, <1>5 DEF Unspent
  <1> QED
    BY <1>6, <1>8, <1>9, <1>10 DEF CallsRight

\* The model calls tools: what it calls is new, and goes on one list.
LEMMA CallsRespond ==
    ASSUME CallsInv, NEW ids \in SUBSET Calls, NEW kinds \in [ids -> ToolKinds],
           RespondCalls(ids, kinds)
    PROVE  CallsRight
  <1> USE DEF CallsInv
  <1> DEFINE publish == {c \in ids : kinds[c] = "publish"}
             serial == {c \in ids : kinds[c] # "parallel"}
  <1>1. /\ where = "round" /\ todo = <<>> /\ together = {} /\ pending = <<>>
        /\ ran' = ran /\ resumed' = resumed
        /\ \A c \in ids : kind[c] = "none" /\ ran[c] = 0
    BY DEF RespondCalls, FreshReply, CallsPlaced, CallsOnce
  <1>2. /\ kind' = [c \in Calls |-> IF c \in ids THEN kinds[c] ELSE kind[c]]
        /\ \/ /\ pending' \in {Ordered(publish), pending}
              /\ where' = "ending" /\ todo' = todo /\ together' = together
           \/ /\ publish = {}
              /\ together' = {c \in ids : kinds[c] = "parallel"}
              /\ todo' = Ordered(serial) /\ pending' = pending
              /\ where' = IF together' = {} THEN "serial" ELSE "parallel"
    BY DEF RespondCalls
  <1>3. /\ kind' \in [Calls -> {"none"} \cup ToolKinds]
        /\ \A c \in Calls : kind'[c] = "none" => kind[c] = "none"
        /\ \A c \in ids : kind'[c] = kinds[c] /\ kinds[c] # "none"
    BY <1>2 DEF CallTypes, ToolKinds
  <1>4. \A some \in SUBSET ids : /\ Ordered(some) \in Seq(Calls) /\ Distinct(Ordered(some))
                                 /\ \A c \in Calls : Listed(Ordered(some), c) => c \in some
    BY OrderedCalls DEF Listed
  <1>5. \A c \in ids : Unspent(c)'
    BY <1>1, <1>3 DEF Unspent
  <1>6. \A c \in Calls : kind'[c] = "none" => ran'[c] = 0
    BY <1>1, <1>3 DEF CallsOnce
  <1>7. CASE /\ pending' \in {Ordered(publish), pending}
             /\ where' = "ending" /\ todo' = todo /\ together' = together
    <2>1. /\ pending' \in Seq(Calls) /\ Distinct(pending')
          /\ \A c \in Calls : Listed(pending', c) => c \in ids
      BY <1>1, <1>4, <1>7, NothingListed
    <2>2. CallTypes'
      BY <1>1, <1>3, <1>7, <2>1 DEF CallTypes, Places
    <2>3. Distinct(todo)' /\ Distinct(pending)' /\ \A c \in Calls : ~Listed(todo, c)'
      BY <1>1, <1>7, <2>1, NothingListed DEF Distinct, Listed
    <2>4. \A c \in Calls : Listed(pending, c)' => Unspent(c)'
      BY <1>5, <2>1 DEF Listed
    <2>5. CallsOnce'
      BY <1>1, <1>6, <1>7, <2>3, <2>4 DEF CallsOnce
    <2>6. CallsPlaced'
      BY <1>7 DEF CallsPlaced
    <2> QED
      BY <1>1, <2>2, <2>5, <2>6 DEF CallsRight
  <1>8. CASE /\ publish = {}
             /\ together' = {c \in ids : kinds[c] = "parallel"}
             /\ todo' = Ordered(serial) /\ pending' = pending
             /\ where' = IF together' = {} THEN "serial" ELSE "parallel"
    <2>1. /\ todo' \in Seq(Calls) /\ Distinct(todo')
          /\ \A c \in Calls : Listed(todo', c) => c \in serial
      BY <1>4, <1>8
    <2>2. CallTypes'
      BY <1>1, <1>3, <1>8, <2>1 DEF CallTypes, Places
    <2>3. Distinct(todo)' /\ Distinct(pending)' /\ \A c \in Calls : ~Listed(pending, c)'
      BY <1>1, <1>8, <2>1, NothingListed DEF Distinct, Listed
    <2>4. \A c \in Calls : Listed(todo, c)' => c \in serial
      BY <2>1 DEF Listed
    <2>5. \A c \in Calls : Listed(todo, c)' => Unspent(c)' /\ c \notin together'
      BY <1>5, <1>8, <2>4
    <2>6. \A c \in together' : ran'[c] = 0 /\ kind'[c] = "parallel"
      BY <1>1, <1>3, <1>8
    <2>7. CallsOnce'
      BY <1>6, <2>3, <2>5, <2>6 DEF CallsOnce
    <2>8. \A c \in Calls : Listed(todo, c)' => kind'[c] # "publish"
      BY <1>3, <1>8, <2>4
    <2>9. CallsPlaced'
      BY <1>1, <1>8, <2>8 DEF CallsPlaced
    <2> QED
      BY <1>1, <2>2, <2>7, <2>9 DEF CallsRight
  <1> QED
    BY <1>2, <1>7, <1>8

\* The parallel calls are run.
LEMMA CallsParallel ==
    ASSUME CallsInv, NEW stop \in BOOLEAN, RunParallel(stop)
    PROVE  CallsRight
  <1> USE DEF CallsInv
  <1>1. /\ where = "parallel" /\ pending = <<>> /\ together' = {}
        /\ where' \in {"ending", "serial"}
        /\ ran' = [c \in Calls |-> IF c \in together THEN RanOnce(c)[c] ELSE ran[c]]
        /\ UNCHANGED <<kind, todo, pending, resumed>>
    BY DEF RunParallel, CallsPlaced
  <1>2. \A c \in Calls : RanOnce(c)[c] \in 0 .. 2
    BY RanOnceFacts
  <1>3. CallTypes'
    BY <1>1, <1>2 DEF CallTypes, Places
  <1>4. \A c \in Calls : c \notin together => ran'[c] = ran[c]
    BY <1>1
  <1>5. \A c \in together : kind[c] = "parallel" /\ ran[c] = 0
    BY DEF CallsOnce
  <1>6. \A c \in Calls : Listed(todo, c)' => Unspent(c)'
    BY <1>1, <1>4 DEF CallsOnce, Listed, Unspent
  <1>7. CallsOnce'
    <2>1. \A c \in Calls : kind'[c] = "none" => ran'[c] = 0
      BY <1>1, <1>4, <1>5 DEF CallsOnce
    <2>2. Distinct(todo)' /\ Distinct(pending)' /\ \A c \in Calls : ~Listed(pending, c)'
      BY <1>1, NothingListed DEF CallsOnce, Distinct, Listed
    <2> QED
      BY <1>1, <1>6, <2>1, <2>2 DEF CallsOnce
  <1>8. CallsPlaced'
    BY <1>1 DEF CallsPlaced, Listed
  <1> QED
    BY <1>3, <1>4, <1>5, <1>7, <1>8 DEF CallsRight

\* Every step of a turn keeps the invariant, and has a call run only if it has not run
\* and, if it publishes, only after the user resumed the turn.
LEMMA CallsStep ==
    ASSUME CallsInv, [LoopNext]_loopVars
    PROVE  CallsRight
  <1>1. CASE UserMessage
    <2>1. /\ UNCHANGED <<kind, together, todo, pending, ran>> /\ resumed' = FALSE
          /\ where = "idle" /\ where' = "round" /\ pending = <<>>
      BY <1>1 DEF UserMessage, Begin
    <2>2. CallsPlaced' /\ together' = {}
      BY <2>1 DEF CallsInv, CallsPlaced
    <2> QED
      BY <2>1, <2>2, ForgetsSome DEF Places
  <1>2. CASE UserAnswers
    <2>1. /\ UNCHANGED <<kind, together, pending, ran>> /\ resumed' = FALSE
          /\ where = "idle" /\ where' = "resolving" /\ todo' = pending
      BY <1>2 DEF UserAnswers, Begin
    <2>2. CallsPlaced' /\ together' = {}
      BY <2>1 DEF CallsInv, CallsPlaced
    <2> QED
      BY <2>1, <2>2, ForgetsSome DEF Places
  <1>3. CASE Confirmed
    <2>1. /\ UNCHANGED <<kind, together, todo, ran>> /\ resumed' = TRUE
          /\ where = "resolving" /\ where' = "confirmed" /\ pending' = <<>>
      BY <1>3 DEF Confirmed, NothingPending
    <2>2. CallsPlaced' /\ together' = {}
      BY <2>1 DEF CallsInv, CallsPlaced
    <2> QED
      BY <2>1, <2>2, ForgetsSome DEF Places
  <1>4. CASE Declined
    <2>1. /\ UNCHANGED <<kind, together, resumed, ran>>
          /\ where = "resolving" /\ where' = "idle" /\ todo' = <<>>
          /\ pending' \in {<<>>, pending}
      BY <1>4 DEF Declined, CallsInv, CallsPlaced, turnVars
    <2>2. CallsPlaced' /\ together' = {} /\ resumed' \in BOOLEAN
      BY <2>1 DEF CallsInv, CallTypes, CallsPlaced
    <2> QED
      BY <2>1, <2>2, ForgetsSome DEF Places
  <1>5. CASE RunConfirmed
    <2>1. where = "confirmed" /\ UNCHANGED <<kind, together, pending, resumed>>
      BY <1>5 DEF RunConfirmed, turnVars
    <2>2. CASE todo = <<>>
      <3>1. where' = "round" /\ UNCHANGED <<todo, ran>>
        BY <1>5, <2>2 DEF RunConfirmed
      <3>2. CallsPlaced' /\ together' = {} /\ resumed' \in BOOLEAN
        BY <2>1, <2>2, <3>1 DEF CallsInv, CallTypes, CallsPlaced
      <3> QED
        BY <2>1, <3>1, <3>2, ForgetsSome DEF Places
    <2>3. CASE todo # <<>>
      BY <1>5, <2>1, <2>3, RunsNext DEF RunConfirmed
    <2> QED
      BY <2>2, <2>3
  <1>6. CASE \/ Compact \/ RunTimeout \/ AmendedBefore \/ NextRound
             \/ \E text \in BOOLEAN : RespondText(text)
    <2>1. /\ UNCHANGED <<kind, together, todo, pending, resumed, ran>>
          /\ where' \in {"ending", "round"}
          /\ where = "round" \/ (where = "serial" /\ todo = <<>>)
      BY <1>6 DEF Compact, RunTimeout, AmendedBefore, RespondText, NextRound, turnVars
    <2>2. CallsPlaced' /\ together' = {} /\ resumed' \in BOOLEAN
      BY <2>1 DEF CallsInv, CallTypes, CallsPlaced
    <2> QED
      BY <2>1, <2>2, ForgetsSome DEF Places
  <1>7. ASSUME NEW ids \in SUBSET Calls, NEW kinds \in [ids -> ToolKinds],
               RespondCalls(ids, kinds)
        PROVE  CallsRight
    BY <1>7, CallsRespond
  <1>8. ASSUME NEW stop \in BOOLEAN, RunParallel(stop)
        PROVE  CallsRight
    BY <1>8, CallsParallel
  <1>9. ASSUME NEW stop \in BOOLEAN, RunSerial(stop)
        PROVE  CallsRight
    BY <1>9, RunsNext DEF RunSerial
  <1>10. CASE ForceAnswer \/ \E text \in BOOLEAN : Forced(text)
    <2>1. /\ UNCHANGED <<kind, together, todo, pending, resumed, ran>>
          /\ where \in {"ending", "forced"} /\ where' \in {"ending", "forced"}
      BY <1>10 DEF ForceAnswer, Forced, turnVars
    <2>2. CallsPlaced' /\ resumed' \in BOOLEAN /\ where' \in Places
      BY <2>1 DEF CallsInv, CallTypes, CallsPlaced, Places
    <2> QED
      BY <2>1, <2>2, ForgetsSome
  <1>11. CASE EndTurn \/ (Interrupt /\ UNCHANGED ran)
    <2>1. /\ UNCHANGED <<kind, pending, resumed, ran>>
          /\ where' = "idle" /\ todo' = <<>> /\ together' = {}
      BY <1>11 DEF EndTurn, Interrupt, turnVars
    <2>2. CallsPlaced' /\ resumed' \in BOOLEAN
      BY <2>1 DEF CallsInv, CallTypes, CallsPlaced
    <2> QED
      BY <2>1, <2>2, ForgetsSome DEF Places
  <1>12. CASE Interrupt /\ ran' # ran
    <2>1. /\ where \in {"confirmed", "serial"} /\ todo # <<>> /\ ran' = RanOnce(Head(todo))
          /\ where' = "idle" /\ todo' = <<>> /\ together' = {}
          /\ UNCHANGED <<kind, pending, resumed>>
      BY <1>12 DEF Interrupt, turnVars
    <2>2. together = {}
      BY <2>1 DEF CallsInv, CallsPlaced
    <2> QED
      BY <2>1, <2>2, RunsNext
  <1>13. CASE UNCHANGED loopVars
    BY <1>13 DEF loopVars, turnVars, CallsRight, CallsInv, CallTypes, CallsOnce, CallsPlaced,
                 Unspent, Listed, Distinct
  <1> QED
    BY <1>1, <1>2, <1>3, <1>4, <1>5, <1>6, <1>7, <1>8, <1>9, <1>10, <1>11, <1>12, <1>13
       DEF LoopNext

\* The lists of calls are right in every state of the conversation.
THEOREM CallsInvariant == LoopSpec => []CallsInv
  <1>1. CallsInv /\ [LoopNext]_loopVars => CallsInv'
    BY CallsStep DEF CallsRight
  <1> QED
    BY <1>1, CallsInit, PTL DEF LoopSpec

\* However often confirmations are asked for again, turns are interrupted and others
\* follow, a call has its effect at most once, and one that publishes only in a turn
\* in which the user confirmed it; for any number of turns, calls and rounds.
THEOREM CallsSound == LoopSpec => CallsRunOnce
  <1>1. CallsInv /\ [LoopNext]_loopVars =>
          [\A c \in Calls :
             ran'[c] # ran[c] => ran[c] = 0 /\ (kind[c] = "publish" => resumed)]_loopVars
    BY CallsStep DEF CallsRight
  <1> QED
    BY <1>1, CallsInvariant, PTL DEF LoopSpec, CallsRunOnce

-----------------------------------------------------------------------------
(***************************************************************************)
(* The context (AgentLoop): lists of messages, and what is done to them.   *)
(***************************************************************************)

\* The messages of a context.
Message == [role : Roles, ids : SUBSET Calls]

\* The messages from j to k are results.
Answers(messages, j, k) == \A m \in j + 1 .. k : messages[m].role = "tool"

\* All that follows j are results.
Last(messages, j) == Answers(messages, j, Len(messages))

\* The results that follow the message at i.
Results(messages, i) ==
    {c \in Calls : \E k \in DOMAIN messages :
                      k > i /\ Answers(messages, i, k) /\ c \in messages[k].ids}

\* A result answers every message that has its call.
InPlace(messages) ==
    /\ \A k \in DOMAIN messages :
          /\ messages[k].role = "tool" => \E c \in Calls : messages[k].ids = {c}
          /\ messages[k].role \in {"user", "summary"} => messages[k].ids = {}
    /\ \A j, k \in DOMAIN messages : \A c \in Calls :
          /\ messages[j].role = "assistant" /\ messages[k].role = "tool"
          /\ c \in messages[j].ids /\ c \in messages[k].ids
          => j < k /\ Answers(messages, j, k)

\* Every call has its result but those that are owed to the last message of calls.
PairedBut(messages, owed) ==
    /\ \A i \in DOMAIN messages :
          /\ messages[i].role = "assistant" =>
                messages[i].ids = Results(messages, i)
                                     \cup (IF Last(messages, i) THEN owed ELSE {})
          /\ messages[i].role = "tool" =>
                i > 1 /\ messages[i - 1].role \in {"assistant", "tool"}
    /\ owed # {} => messages # <<>> /\ messages[Len(messages)].role \in {"assistant", "tool"}

\* With nothing owed that is what providers accept.
LEMMA PairedMeans ==
    ASSUME context \in Seq(Message), PairedBut(context, {})
    PROVE  Paired
  <1>1. ASSUME NEW i \in DOMAIN context
        PROVE  ResultsAfter(i) = Results(context, i)
    <2>1. \A k \in DOMAIN context : context[k] \in Message
      OBVIOUS
    <2>2. \A k \in DOMAIN context : context[k].ids \subseteq Calls
      BY <2>1 DEF Message
    <2> QED
      BY <2>2 DEF ResultsAfter, Results, Answers
  <1>2. \A i \in DOMAIN context : context[i].role = "assistant" => context[i].ids = ResultsAfter(i)
    BY <1>1 DEF PairedBut
  <1>3. \A i \in DOMAIN context :
           context[i].role = "tool" => i > 1 /\ context[i - 1].role \in {"assistant", "tool"}
    BY DEF PairedBut
  <1> QED
    BY <1>2, <1>3 DEF Paired

-----------------------------------------------------------------------------

\* The messages at some positions, in their order.
LEMMA SelectedFacts ==
    ASSUME NEW messages \in Seq(Message), NEW positions \in SUBSET DOMAIN messages
    PROVE  LET s == Selected(messages, positions)
               o == Ordered(positions) IN
           /\ s \in Seq(Message) /\ DOMAIN s = 1 .. Len(s) /\ Len(s) \in Nat
           /\ \A i \in DOMAIN s : o[i] \in positions /\ s[i] = messages[o[i]]
           /\ \A i, j \in DOMAIN s : i < j <=> o[i] < o[j]
           /\ \A p \in positions : \E i \in DOMAIN s : o[i] = p
  <1> DEFINE o == Ordered(positions)
             n == Cardinality(positions)
             s == Selected(messages, positions)
  <1>1. positions \in SUBSET Int /\ IsFiniteSet(positions)
    <2>1. DOMAIN messages = 1 .. Len(messages) /\ Len(messages) \in Nat
      OBVIOUS
    <2>2. IsFiniteSet(1 .. Len(messages))
      BY <2>1, FS_Interval
    <2> QED
      BY <2>1, <2>2, FS_Subset
  <1>2. /\ n \in Nat /\ DOMAIN o = 1 .. n
        /\ \A i \in 1 .. n : o[i] \in positions
        /\ \A i, j \in 1 .. n : i < j <=> o[i] < o[j]
        /\ \A p \in positions : \E i \in 1 .. n : o[i] = p
    BY <1>1, OrderedFacts
  <1>3. s = [i \in 1 .. n |-> messages[o[i]]]
    BY DEF Selected
  <1> HIDE DEF o, n, s
  <1>4. \A i \in 1 .. n : messages[o[i]] \in Message
    BY <1>2
  <1>5. s \in Seq(Message) /\ DOMAIN s = 1 .. n /\ Len(s) = n
    BY <1>2, <1>3, <1>4
  <1> QED
    BY <1>2, <1>3, <1>5 DEF o, s

\* Selection keeps results next to what they answer, as long as it leaves out
\* results only, and what is stripped of calls before are not results.
LEMMA SelectKeeps ==
    ASSUME NEW messages \in Seq(Message), InPlace(messages),
           NEW stripped \in Seq(Message), Len(stripped) = Len(messages),
           NEW positions \in SUBSET DOMAIN messages,
           \A i \in DOMAIN messages :
              /\ stripped[i].role = messages[i].role
              /\ stripped[i].ids \subseteq messages[i].ids
              /\ messages[i].role # "tool" => i \in positions
              /\ messages[i].role = "tool" /\ i \in positions =>
                    stripped[i].ids = messages[i].ids
    PROVE  LET s == Selected(stripped, positions)
               o == Ordered(positions) IN
           /\ s \in Seq(Message) /\ InPlace(s)
           /\ \A i \in DOMAIN s : o[i] \in positions /\ s[i] = stripped[o[i]]
           /\ \A p \in positions : \E i \in DOMAIN s : o[i] = p
           /\ \A i, k \in DOMAIN s : i < k <=> o[i] < o[k]
           /\ \A i, k \in DOMAIN s : i < k =>
                 (Answers(s, i, k) <=> Answers(messages, o[i], o[k]))
           /\ \A i \in DOMAIN s : Last(messages, o[i]) => Last(s, i)
  <1> DEFINE s == Selected(stripped, positions)
             o == Ordered(positions)
  <1>1. /\ s \in Seq(Message) /\ DOMAIN s = 1 .. Len(s) /\ Len(s) \in Nat
        /\ \A i \in DOMAIN s : o[i] \in positions /\ s[i] = stripped[o[i]]
        /\ \A i, k \in DOMAIN s : i < k <=> o[i] < o[k]
        /\ \A p \in positions : \E i \in DOMAIN s : o[i] = p
    <2>1. positions \in SUBSET DOMAIN stripped
      OBVIOUS
    <2> QED
      BY <2>1, SelectedFacts
  <1> HIDE DEF s, o
  <1>2. /\ DOMAIN messages = 1 .. Len(messages) /\ Len(messages) \in Nat
        /\ positions \subseteq 1 .. Len(messages)
    OBVIOUS
  <1>3. \A i \in DOMAIN s : o[i] \in 1 .. Len(messages) /\ s[i].role = messages[o[i]].role
    BY <1>1, <1>2
  <1>4. ASSUME NEW i \in DOMAIN s, NEW k \in DOMAIN s, i < k, Answers(messages, o[i], o[k])
        PROVE  Answers(s, i, k)
    <2>1. ASSUME NEW m \in i + 1 .. k
          PROVE  s[m].role = "tool"
      <3>1. m \in DOMAIN s /\ i < m /\ (m < k \/ m = k)
        BY <1>1, <1>4, <2>1
      <3>2. o[i] < o[m] /\ (o[m] < o[k] \/ o[m] = o[k])
        BY <1>1, <3>1
      <3>3. o[m] \in o[i] + 1 .. o[k]
        BY <1>3, <3>1, <3>2
      <3> QED
        BY <1>3, <1>4, <3>1, <3>3 DEF Answers
    <2> QED
      BY <2>1 DEF Answers
  <1>5. ASSUME NEW i \in DOMAIN s, NEW k \in DOMAIN s, i < k, Answers(s, i, k)
        PROVE  Answers(messages, o[i], o[k])
    <2>1. ASSUME NEW p \in o[i] + 1 .. o[k], messages[p].role # "tool"
          PROVE  FALSE
      <3>1. p \in DOMAIN messages /\ p \in positions
        BY <1>2, <1>3, <1>5, <2>1
      <3>2. PICK m \in DOMAIN s : o[m] = p
        BY <1>1, <3>1
      <3>3. o[i] < o[m] /\ ~(o[k] < o[m])
        BY <1>3, <2>1, <3>2
      <3>4. i < m /\ ~(k < m)
        BY <1>1, <3>2, <3>3
      <3>5. m \in i + 1 .. k
        BY <1>1, <3>2, <3>4
      <3> QED
        BY <1>3, <1>5, <2>1, <3>2, <3>5 DEF Answers
    <2> QED
      BY <2>1 DEF Answers
  <1>6. ASSUME NEW i \in DOMAIN s, Last(messages, o[i])
        PROVE  Last(s, i)
    <2>1. ASSUME NEW m \in i + 1 .. Len(s)
          PROVE  s[m].role = "tool"
      <3>1. m \in DOMAIN s /\ i < m
        BY <1>1, <1>6, <2>1
      <3>2. o[m] \in o[i] + 1 .. Len(messages)
        BY <1>1, <1>3, <3>1
      <3> QED
        BY <1>3, <1>6, <3>1, <3>2 DEF Last, Answers
    <2> QED
      BY <2>1 DEF Last, Answers
  <1>7. InPlace(s)
    <2>1. ASSUME NEW k \in DOMAIN s
          PROVE  /\ s[k].role = "tool" => \E c \in Calls : s[k].ids = {c}
                 /\ s[k].role \in {"user", "summary"} => s[k].ids = {}
      <3>1. /\ o[k] \in DOMAIN messages /\ o[k] \in positions /\ s[k] = stripped[o[k]]
            /\ s[k].role = messages[o[k]].role /\ s[k].ids \subseteq messages[o[k]].ids
        BY <1>1, <1>2, <1>3
      <3>2. s[k].role = "tool" => s[k].ids = messages[o[k]].ids
        BY <3>1
      <3> QED
        BY <3>1, <3>2 DEF InPlace
    <2>2. ASSUME NEW j \in DOMAIN s, NEW k \in DOMAIN s, NEW c \in Calls,
                 s[j].role = "assistant", s[k].role = "tool", c \in s[j].ids, c \in s[k].ids
          PROVE  j < k /\ Answers(s, j, k)
      <3>1. /\ o[j] \in DOMAIN messages /\ o[k] \in DOMAIN messages
            /\ messages[o[j]].role = "assistant" /\ messages[o[k]].role = "tool"
            /\ c \in messages[o[j]].ids /\ c \in messages[o[k]].ids
        BY <1>1, <1>2, <1>3, <2>2
      <3>2. o[j] < o[k] /\ Answers(messages, o[j], o[k])
        BY <3>1 DEF InPlace
      <3>3. j < k
        BY <1>1, <3>2
      <3> QED
        BY <1>4, <3>2, <3>3
    <2> QED
      BY <2>1, <2>2 DEF InPlace
  <1> QED
    BY <1>1, <1>4, <1>5, <1>6, <1>7 DEF s, o

\* The ids of the messages of a role.
LEMMA IdsFacts ==
    ASSUME NEW messages \in Seq(Message), NEW role
    PROVE  /\ IdsOf(messages, role) \subseteq Calls
           /\ \A c \in Calls : c \in IdsOf(messages, role) <=>
                 \E i \in DOMAIN messages : messages[i].role = role /\ c \in messages[i].ids
  <1>1. \A k \in DOMAIN messages : messages[k] \in Message
    OBVIOUS
  <1>2. \A k \in DOMAIN messages : messages[k].ids \subseteq Calls
    BY <1>1 DEF Message
  <1> QED
    BY <1>2 DEF IdsOf

\* A message with other ids.
LEMMA SaidFacts ==
    /\ \A role \in Roles, ids \in SUBSET Calls :
          /\ Said(role, ids) \in Message
          /\ Said(role, ids).role = role /\ Said(role, ids).ids = ids
    /\ \A m \in Message : m.role \in Roles /\ m.ids \subseteq Calls
  BY DEF Said, Message

\* Where some calls are nowhere but in the last message before results.
OnlyLast(messages, c) ==
    \A j \in DOMAIN messages :
        messages[j].role = "assistant" /\ c \in messages[j].ids => Last(messages, j)

\* What a list of messages keeps of another one's ids.
IdsKept(s, messages) ==
    \A i \in DOMAIN s : \A c \in s[i].ids :
        \E j \in DOMAIN messages : c \in messages[j].ids

\* Whatever results are missing or left over: sanitized, a list is paired.
LEMMA SanitizedFacts ==
    ASSUME NEW messages \in Seq(Message), InPlace(messages)
    PROVE  LET s == Sanitized(messages) IN
           /\ s \in Seq(Message) /\ InPlace(s) /\ PairedBut(s, {})
           /\ \A c \in Calls : OnlyLast(messages, c) => OnlyLast(s, c)
           /\ IdsKept(s, messages)
  <1> DEFINE results == IdsOf(messages, "tool")
             stripped == [i \in DOMAIN messages |->
                            IF messages[i].role = "assistant"
                            THEN Said("assistant", messages[i].ids \cap results)
                            ELSE messages[i]]
             kept == Called(messages)
             s == Selected(stripped, kept)
             o == Ordered(kept)
  <1>1. Sanitized(messages) = s
    BY DEF Sanitized
  <1>2. /\ DOMAIN messages = 1 .. Len(messages) /\ Len(messages) \in Nat
        /\ \A i \in DOMAIN messages :
              /\ messages[i] \in Message /\ messages[i].role \in Roles
              /\ messages[i].ids \subseteq Calls
    BY SaidFacts
  <1>3. \A i \in DOMAIN messages :
           /\ stripped[i] \in Message /\ stripped[i].role = messages[i].role
           /\ messages[i].role = "assistant" =>
                 stripped[i].ids = messages[i].ids \cap results
           /\ messages[i].role # "assistant" => stripped[i].ids = messages[i].ids
    <2>1. "assistant" \in Roles
      BY DEF Roles
    <2>2. \A i \in DOMAIN messages : messages[i].ids \cap results \in SUBSET Calls
      BY <1>2
    <2> HIDE DEF results
    <2> QED
      BY <1>2, <2>1, <2>2, SaidFacts
  <1>4. stripped \in Seq(Message) /\ Len(stripped) = Len(messages)
    <2> HIDE DEF results
    <2>1. DOMAIN stripped = 1 .. Len(messages)
      BY <1>2
    <2>2. stripped = [i \in 1 .. Len(messages) |-> stripped[i]]
      BY <2>1
    <2>3. \A i \in 1 .. Len(messages) : stripped[i] \in Message
      BY <1>2, <1>3
    <2> HIDE DEF stripped
    <2> QED
      BY <1>2, <2>1, <2>2, <2>3, IsASeq
  <1>5. /\ kept \in SUBSET DOMAIN messages
        /\ \A i \in DOMAIN messages :
              i \in kept <=> (messages[i].role = "tool" =>
                                 messages[i].ids \subseteq IdsOf(messages, "assistant"))
    BY DEF Called
  <1>6. \A c \in Calls : c \in results <=>
           \E i \in DOMAIN messages : messages[i].role = "tool" /\ c \in messages[i].ids
    BY IdsFacts
  <1> HIDE DEF results, stripped, kept, s, o
  <1>7. /\ s \in Seq(Message) /\ InPlace(s)
        /\ \A i \in DOMAIN s : o[i] \in kept /\ s[i] = stripped[o[i]]
        /\ \A p \in kept : \E i \in DOMAIN s : o[i] = p
        /\ \A i, k \in DOMAIN s : i < k <=> o[i] < o[k]
        /\ \A i, k \in DOMAIN s : i < k =>
              (Answers(s, i, k) <=> Answers(messages, o[i], o[k]))
        /\ \A i \in DOMAIN s : Last(messages, o[i]) => Last(s, i)
    <2>1. \A i \in DOMAIN messages :
              /\ stripped[i].role = messages[i].role
              /\ stripped[i].ids \subseteq messages[i].ids
              /\ messages[i].role # "tool" => i \in kept
              /\ messages[i].role = "tool" /\ i \in kept =>
                    stripped[i].ids = messages[i].ids
      BY <1>3, <1>5
    <2> QED
      BY <1>4, <1>5, <2>1, SelectKeeps DEF s, o
  <1>8. /\ DOMAIN s = 1 .. Len(s) /\ Len(s) \in Nat
        /\ \A i \in DOMAIN s : /\ o[i] \in DOMAIN messages
                               /\ s[i].role = messages[o[i]].role
                               /\ s[i].ids \subseteq messages[o[i]].ids
                               /\ s[i].role = "assistant" =>
                                     s[i].ids = messages[o[i]].ids \cap results
                               /\ s[i].role # "assistant" => s[i].ids = messages[o[i]].ids
    BY <1>3, <1>5, <1>7
  \* A result that is kept answers a message of calls with its call.
  <1>9. ASSUME NEW k \in DOMAIN s, s[k].role = "tool"
        PROVE  \E i \in DOMAIN s : \E c \in Calls :
                  /\ s[k].ids = {c} /\ s[i].role = "assistant" /\ c \in s[i].ids
                  /\ i < k /\ Answers(s, i, k)
    <2>1. PICK c \in Calls : s[k].ids = {c}
      BY <1>7, <1>9 DEF InPlace
    <2>2. /\ messages[o[k]].role = "tool" /\ messages[o[k]].ids = {c}
          /\ o[k] \in DOMAIN messages /\ o[k] \in kept
      BY <1>7, <1>8, <1>9, <2>1
    <2>3. c \in IdsOf(messages, "assistant") /\ c \in results
      BY <1>5, <1>6, <2>2
    <2>4. PICK p \in DOMAIN messages : messages[p].role = "assistant" /\ c \in messages[p].ids
      BY <2>3, IdsFacts
    <2>5. PICK i \in DOMAIN s : o[i] = p
      BY <1>5, <1>7, <2>4
    <2>6. s[i].role = "assistant" /\ c \in s[i].ids
      BY <1>8, <2>3, <2>4, <2>5
    <2> QED
      BY <1>7, <1>9, <2>1, <2>6 DEF InPlace
  <1>10. ASSUME NEW i \in DOMAIN s, s[i].role = "assistant", NEW c \in Calls
         PROVE  c \in s[i].ids <=> c \in Results(s, i)
    <2>1. ASSUME c \in s[i].ids
          PROVE  c \in Results(s, i)
      <3>1. c \in messages[o[i]].ids /\ c \in results /\ messages[o[i]].role = "assistant"
        BY <1>8, <1>10, <2>1
      <3>2. PICK q \in DOMAIN messages : messages[q].role = "tool" /\ c \in messages[q].ids
        BY <1>6, <3>1
      <3>3. q \in kept
        <4>1. messages[q].ids = {c}
          BY <3>2 DEF InPlace
        <4>2. c \in IdsOf(messages, "assistant")
          BY <1>8, <3>1, IdsFacts
        <4> QED
          BY <1>5, <4>1, <4>2
      <3>4. PICK k \in DOMAIN s : o[k] = q
        BY <1>7, <3>3
      <3>5. s[k].role = "tool" /\ c \in s[k].ids
        BY <1>8, <3>2, <3>4
      <3>6. i < k /\ Answers(s, i, k)
        BY <1>7, <1>10, <2>1, <3>5 DEF InPlace
      <3> QED
        BY <1>8, <3>5, <3>6 DEF Results
    <2>2. ASSUME c \in Results(s, i)
          PROVE  c \in s[i].ids
      <3>1. PICK k \in DOMAIN s : k > i /\ Answers(s, i, k) /\ c \in s[k].ids
        BY <2>2 DEF Results
      <3>2. s[k].role = "tool"
        BY <1>8, <3>1 DEF Answers
      <3>3. PICK j \in DOMAIN s : /\ s[j].role = "assistant" /\ c \in s[j].ids
                                  /\ j < k /\ Answers(s, j, k)
        BY <1>9, <3>1, <3>2
      <3>4. i = j
        <4>1. ASSUME i < j PROVE FALSE
          <5>1. j \in i + 1 .. k
            BY <1>8, <3>1, <3>3, <4>1
          <5> QED
            BY <3>1, <3>3, <5>1 DEF Answers
        <4>2. ASSUME j < i PROVE FALSE
          <5>1. i \in j + 1 .. k
            BY <1>8, <3>1, <3>3, <4>2
          <5> QED
            BY <1>10, <3>3, <5>1 DEF Answers
        <4> QED
          BY <1>8, <4>1, <4>2
      <3> QED
        BY <3>3, <3>4
    <2> QED
      BY <2>1, <2>2
  <1>11. PairedBut(s, {})
    <2>1. ASSUME NEW i \in DOMAIN s, s[i].role = "assistant"
          PROVE  s[i].ids = Results(s, i)
      <3>1. s[i].ids \subseteq Calls /\ Results(s, i) \subseteq Calls
        BY <1>2, <1>8 DEF Results
      <3> QED
        BY <1>10, <2>1, <3>1
    <2>2. ASSUME NEW k \in DOMAIN s, s[k].role = "tool"
          PROVE  k > 1 /\ s[k - 1].role \in {"assistant", "tool"}
      <3>1. PICK i \in DOMAIN s : s[i].role = "assistant" /\ i < k /\ Answers(s, i, k)
        BY <1>9, <2>2
      <3>2. k - 1 = i \/ k - 1 \in i + 1 .. k
        BY <1>8, <3>1
      <3>3. k > 1
        BY <1>8, <3>1
      <3> QED
        BY <3>1, <3>2, <3>3 DEF Answers
    <2> QED
      BY <2>1, <2>2 DEF PairedBut
  <1>12. ASSUME NEW c \in Calls, OnlyLast(messages, c)
         PROVE  OnlyLast(s, c)
    <2>1. ASSUME NEW j \in DOMAIN s, s[j].role = "assistant", c \in s[j].ids
          PROVE  Last(s, j)
      <3>1. /\ o[j] \in DOMAIN messages /\ messages[o[j]].role = "assistant"
            /\ c \in messages[o[j]].ids
        BY <1>8, <2>1
      <3> QED
        BY <1>7, <1>12, <3>1 DEF OnlyLast
    <2> QED
      BY <2>1 DEF OnlyLast
  <1>13. IdsKept(s, messages)
    BY <1>8 DEF IdsKept
  <1> QED
    BY <1>1, <1>7, <1>11, <1>12, <1>13

\* Pruning leaves results in place.
LEMMA PrunedFacts ==
    ASSUME NEW messages \in Seq(Message), InPlace(messages)
    PROVE  LET s == Pruned(messages) IN
           /\ s \in Seq(Message) /\ InPlace(s)
           /\ \A c \in Calls : OnlyLast(messages, c) => OnlyLast(s, c)
           /\ IdsKept(s, messages)
  <1> DEFINE memory == {c \in Calls : kind[c] = "memory"}
             stripped == [i \in DOMAIN messages |->
                            Said(messages[i].role, messages[i].ids \ memory)]
             kept == {i \in DOMAIN messages :
                        messages[i].role = "tool" => messages[i].ids \cap memory = {}}
             s == Selected(stripped, kept)
             o == Ordered(kept)
  <1>1. Pruned(messages) = s
    BY DEF Pruned
  <1>2. /\ DOMAIN messages = 1 .. Len(messages) /\ Len(messages) \in Nat
        /\ \A i \in DOMAIN messages :
              /\ messages[i] \in Message /\ messages[i].role \in Roles
              /\ messages[i].ids \subseteq Calls
    BY SaidFacts
  <1>3. \A i \in DOMAIN messages :
           /\ stripped[i] \in Message /\ stripped[i].role = messages[i].role
           /\ stripped[i].ids = messages[i].ids \ memory
    <2>1. \A i \in DOMAIN messages : messages[i].ids \ memory \in SUBSET Calls
      BY <1>2
    <2> HIDE DEF memory
    <2> QED
      BY <1>2, <2>1, SaidFacts
  <1>4. stripped \in Seq(Message) /\ Len(stripped) = Len(messages)
    <2> HIDE DEF memory
    <2>1. DOMAIN stripped = 1 .. Len(messages)
      BY <1>2
    <2>2. stripped = [i \in 1 .. Len(messages) |-> stripped[i]]
      BY <2>1
    <2>3. \A i \in 1 .. Len(messages) : stripped[i] \in Message
      BY <1>2, <1>3
    <2> HIDE DEF stripped
    <2> QED
      BY <1>2, <2>1, <2>2, <2>3, IsASeq
  <1>5. /\ kept \in SUBSET DOMAIN messages
        /\ \A i \in DOMAIN messages :
              /\ messages[i].role # "tool" => i \in kept
              /\ messages[i].role = "tool" /\ i \in kept => messages[i].ids \cap memory = {}
    OBVIOUS
  <1> HIDE DEF memory, stripped, kept, s, o
  <1>6. /\ s \in Seq(Message) /\ InPlace(s)
        /\ \A i \in DOMAIN s : o[i] \in kept /\ s[i] = stripped[o[i]]
        /\ \A i \in DOMAIN s : Last(messages, o[i]) => Last(s, i)
    <2>1. \A i \in DOMAIN messages :
              /\ stripped[i].role = messages[i].role
              /\ stripped[i].ids \subseteq messages[i].ids
              /\ messages[i].role # "tool" => i \in kept
              /\ messages[i].role = "tool" /\ i \in kept =>
                    stripped[i].ids = messages[i].ids
      BY <1>3, <1>5
    <2> QED
      BY <1>4, <1>5, <2>1, SelectKeeps DEF s, o
  <1>7. \A i \in DOMAIN s : /\ o[i] \in DOMAIN messages
                            /\ s[i].role = messages[o[i]].role
                            /\ s[i].ids \subseteq messages[o[i]].ids
    BY <1>3, <1>5, <1>6
  <1>8. ASSUME NEW c \in Calls, OnlyLast(messages, c)
        PROVE  OnlyLast(s, c)
    <2>1. ASSUME NEW j \in DOMAIN s, s[j].role = "assistant", c \in s[j].ids
          PROVE  Last(s, j)
      <3>1. /\ o[j] \in DOMAIN messages /\ messages[o[j]].role = "assistant"
            /\ c \in messages[o[j]].ids
        BY <1>7, <2>1
      <3> QED
        BY <1>6, <1>8, <3>1 DEF OnlyLast
    <2> QED
      BY <2>1 DEF OnlyLast
  <1>9. IdsKept(s, messages)
    BY <1>7 DEF IdsKept
  <1> QED
    BY <1>1, <1>6, <1>8, <1>9

-----------------------------------------------------------------------------

\* A message that is no result, with calls that were in no message.
LEMMA AppendMessage ==
    ASSUME NEW messages \in Seq(Message), InPlace(messages),
           NEW role \in {"user", "assistant"}, NEW ids \in SUBSET Calls,
           role = "user" => ids = {},
           \A i \in DOMAIN messages : messages[i].ids \cap ids = {}
    PROVE  LET s == Append(messages, Said(role, ids)) IN
           /\ s \in Seq(Message) /\ InPlace(s)
           /\ \A i \in DOMAIN s : (i \in DOMAIN messages /\ s[i] = messages[i])
                                  \/ (i \notin DOMAIN messages /\ s[i].ids = ids)
           /\ \A c \in ids : OnlyLast(s, c)
           /\ PairedBut(messages, {}) => PairedBut(s, ids)
  <1> DEFINE n == Len(messages)
             m == Said(role, ids)
             s == Append(messages, m)
  <1>1. m \in Message /\ m.role = role /\ m.ids = ids
    BY SaidFacts DEF Roles
  <1>2. n \in Nat /\ DOMAIN messages = 1 .. n
    OBVIOUS
  <1> HIDE DEF m
  <1>3. /\ s \in Seq(Message) /\ Len(s) = n + 1 /\ DOMAIN s = 1 .. n + 1
        /\ \A i \in 1 .. n : s[i] = messages[i]
        /\ s[n + 1] = m
    BY <1>1
  <1> HIDE DEF s, n
  <1>4. \A i \in 1 .. n, k \in 1 .. n : Answers(s, i, k) <=> Answers(messages, i, k)
    BY <1>2, <1>3 DEF Answers
  <1>5. \A i \in 1 .. n : ~Answers(s, i, n + 1)
    <2>1. \A i \in 1 .. n : n + 1 \in i + 1 .. n + 1
      BY <1>2
    <2>2. s[n + 1].role # "tool"
      BY <1>1, <1>3
    <2> QED
      BY <2>1, <2>2 DEF Answers
  <1>6. Last(s, n + 1) /\ \A i \in 1 .. n : ~Last(s, i)
    <2>1. n + 2 .. n + 1 = {}
      BY <1>2
    <2>2. Last(s, n + 1)
      BY <1>2, <1>3, <2>1 DEF Last, Answers
    <2> QED
      BY <1>3, <1>5, <2>2 DEF Last
  <1>7. InPlace(s)
    <2>1. ASSUME NEW k \in 1 .. n + 1
          PROVE  /\ s[k].role = "tool" => \E c \in Calls : s[k].ids = {c}
                 /\ s[k].role \in {"user", "summary"} => s[k].ids = {}
      <3>1. CASE k \in 1 .. n
        BY <1>2, <1>3, <3>1 DEF InPlace
      <3>2. CASE k = n + 1
        BY <1>1, <1>3, <3>2
      <3> QED
        BY <1>2, <3>1, <3>2
    <2>2. ASSUME NEW j \in 1 .. n + 1, NEW k \in 1 .. n + 1, NEW c \in Calls,
                 s[j].role = "assistant", s[k].role = "tool", c \in s[j].ids, c \in s[k].ids
          PROVE  j < k /\ Answers(s, j, k)
      <3>1. k \in 1 .. n
        BY <1>1, <1>2, <1>3, <2>2
      <3>2. j \in 1 .. n
        BY <1>1, <1>2, <1>3, <2>2, <3>1
      <3> QED
        BY <1>2, <1>3, <1>4, <2>2, <3>1, <3>2 DEF InPlace
    <2> QED
      BY <1>3, <2>1, <2>2 DEF InPlace
  <1>8. ASSUME NEW c \in ids
        PROVE  OnlyLast(s, c)
    <2>1. \A j \in 1 .. n : c \notin s[j].ids
      BY <1>2, <1>3
    <2>2. \A j \in 1 .. n + 1 : j \in 1 .. n \/ j = n + 1
      BY <1>2
    <2> QED
      BY <1>3, <1>6, <2>1, <2>2 DEF OnlyLast
  <1>9. ASSUME PairedBut(messages, {})
        PROVE  PairedBut(s, ids)
    <2>1. ASSUME NEW i \in 1 .. n
          PROVE  Results(s, i) = Results(messages, i)
      BY <1>2, <1>3, <1>4, <1>5 DEF Results
    <2>2. Results(s, n + 1) = {}
      BY <1>2, <1>3 DEF Results
    <2>3. ASSUME NEW i \in 1 .. n + 1, s[i].role = "assistant"
          PROVE  s[i].ids = Results(s, i) \cup (IF Last(s, i) THEN ids ELSE {})
      <3>1. CASE i \in 1 .. n
        BY <1>2, <1>3, <1>6, <1>9, <2>1, <2>3, <3>1 DEF PairedBut
      <3>2. CASE i = n + 1
        BY <1>1, <1>3, <1>6, <2>2, <3>2
      <3> QED
        BY <1>2, <3>1, <3>2
    <2>4. ASSUME NEW i \in 1 .. n + 1, s[i].role = "tool"
          PROVE  i > 1 /\ s[i - 1].role \in {"assistant", "tool"}
      <3>1. i \in 1 .. n
        BY <1>1, <1>2, <1>3, <2>4
      <3>2. i > 1 /\ messages[i - 1].role \in {"assistant", "tool"}
        BY <1>2, <1>3, <1>9, <2>4, <3>1 DEF PairedBut
      <3> QED
        BY <1>2, <1>3, <3>1, <3>2
    <2>5. ids # {} => s # <<>> /\ s[Len(s)].role \in {"assistant", "tool"}
      <3>1. s # <<>>
        BY <1>2, <1>3
      <3>2. ids # {} => m.role = "assistant"
        BY <1>1
      <3> QED
        BY <1>3, <3>1, <3>2
    <2> QED
      BY <1>3, <2>3, <2>4, <2>5 DEF PairedBut
  <1>10. \A i \in DOMAIN s : (i \in DOMAIN messages /\ s[i] = messages[i])
                             \/ (i \notin DOMAIN messages /\ s[i].ids = ids)
    BY <1>1, <1>2, <1>3
  <1> QED
    BY <1>3, <1>7, <1>8, <1>9, <1>10 DEF s, m

\* The list has got the results of some calls, one after the other.
Given(messages, list, s) ==
    /\ s \in Seq(Message)
    /\ Len(s) = Len(messages) + Len(list)
    /\ \A i \in DOMAIN messages : s[i] = messages[i]
    /\ \A k \in 1 .. Len(list) : s[Len(messages) + k] = Said("tool", {list[k]})

\* Results of calls that only the last message has, or none.
LEMMA AppendResults ==
    ASSUME NEW messages \in Seq(Message), InPlace(messages),
           NEW list \in Seq(Calls), NEW s, Given(messages, list, s),
           \A k \in DOMAIN list : OnlyLast(messages, list[k])
    PROVE  /\ InPlace(s)
           /\ \A i \in DOMAIN s : (i \in DOMAIN messages /\ s[i] = messages[i])
                                  \/ \E k \in DOMAIN list : s[i].ids = {list[k]}
           /\ \A c \in Calls : OnlyLast(messages, c) => OnlyLast(s, c)
           /\ \A owed \in SUBSET Calls :
                 PairedBut(messages, owed \cup {list[k] : k \in DOMAIN list})
                 => PairedBut(s, owed)
  <1> DEFINE n == Len(messages)
             l == Len(list)
  <1>1. /\ n \in Nat /\ l \in Nat /\ DOMAIN messages = 1 .. n /\ DOMAIN list = 1 .. l
        /\ s \in Seq(Message) /\ Len(s) = n + l /\ DOMAIN s = 1 .. n + l
        /\ \A i \in 1 .. n : s[i] = messages[i]
    BY DEF Given
  <1>2. \A k \in 1 .. l : s[n + k].role = "tool" /\ s[n + k].ids = {list[k]}
    <2>1. \A k \in 1 .. l : list[k] \in Calls
      BY <1>1
    <2>2. \A k \in 1 .. l : {list[k]} \in SUBSET Calls
      BY <2>1
    <2>3. \A k \in 1 .. l : Said("tool", {list[k]}).role = "tool"
                            /\ Said("tool", {list[k]}).ids = {list[k]}
      BY <2>2, SaidFacts DEF Roles
    <2> QED
      BY <2>3 DEF Given
  <1> HIDE DEF n, l
  <1>3. \A i \in n + 1 .. n + l : /\ i - n \in 1 .. l /\ s[i].role = "tool"
                                  /\ s[i].ids = {list[i - n]}
    <2>1. \A i \in n + 1 .. n + l : i - n \in 1 .. l /\ n + (i - n) = i
      BY <1>1
    <2> QED
      BY <1>2, <2>1
  <1>4. \A i \in 1 .. n + l : i \in 1 .. n \/ i \in n + 1 .. n + l
    BY <1>1
  <1>5. \A i \in 1 .. n, k \in 1 .. n : Answers(s, i, k) <=> Answers(messages, i, k)
    BY <1>1 DEF Answers
  <1>6. ASSUME NEW i \in 1 .. n, NEW k \in n .. n + l
        PROVE  Answers(s, i, k) <=> Last(messages, i)
    <2>1. ASSUME Answers(s, i, k)
          PROVE  Last(messages, i)
      <3>1. \A m \in i + 1 .. n : m \in i + 1 .. k /\ m \in 1 .. n
        BY <1>1
      <3> QED
        BY <1>1, <2>1, <3>1 DEF Answers, Last, n
    <2>2. ASSUME Last(messages, i)
          PROVE  Answers(s, i, k)
      <3>1. ASSUME NEW m \in i + 1 .. k
            PROVE  s[m].role = "tool"
        <4>1. CASE m \in i + 1 .. n
          BY <1>1, <2>2, <4>1 DEF Answers, Last, n
        <4>2. CASE m \in n + 1 .. n + l
          BY <1>3, <4>2
        <4> QED
          BY <1>1, <4>1, <4>2
      <3> QED
        BY <3>1 DEF Answers
    <2> QED
      BY <2>1, <2>2
  <1>7. \A i \in 1 .. n : Last(s, i) <=> Last(messages, i)
    <2>1. n + l \in n .. n + l
      BY <1>1
    <2> QED
      BY <1>1, <1>6, <2>1 DEF Last
  <1>8. InPlace(s)
    <2>1. ASSUME NEW k \in 1 .. n + l
          PROVE  /\ s[k].role = "tool" => \E c \in Calls : s[k].ids = {c}
                 /\ s[k].role \in {"user", "summary"} => s[k].ids = {}
      <3>1. CASE k \in 1 .. n
        BY <1>1, <3>1 DEF InPlace
      <3>2. CASE k \in n + 1 .. n + l
        <4>1. list[k - n] \in Calls
          BY <1>1, <1>3, <3>2
        <4>2. s[k].role = "tool" /\ s[k].ids = {list[k - n]}
          BY <1>3, <3>2
        <4> QED
          BY <4>1, <4>2
      <3> QED
        BY <1>4, <3>1, <3>2
    <2>2. ASSUME NEW j \in 1 .. n + l, NEW k \in 1 .. n + l, NEW c \in Calls,
                 s[j].role = "assistant", s[k].role = "tool", c \in s[j].ids, c \in s[k].ids
          PROVE  j < k /\ Answers(s, j, k)
      <3>1. j \in 1 .. n
        BY <1>3, <1>4, <2>2
      <3>2. CASE k \in 1 .. n
        BY <1>1, <1>5, <2>2, <3>1, <3>2 DEF InPlace
      <3>3. CASE k \in n + 1 .. n + l
        <4>1. c = list[k - n] /\ k - n \in 1 .. l
          BY <1>3, <2>2, <3>3
        <4>2. Last(messages, j)
          BY <1>1, <2>2, <3>1, <4>1 DEF OnlyLast
        <4>3. j < k /\ k \in n .. n + l
          BY <1>1, <3>1, <3>3
        <4> QED
          BY <1>6, <3>1, <4>2, <4>3
      <3> QED
        BY <1>4, <3>2, <3>3
    <2> QED
      BY <1>1, <2>1, <2>2 DEF InPlace
  <1>9. ASSUME NEW c \in Calls, OnlyLast(messages, c)
        PROVE  OnlyLast(s, c)
    <2>1. ASSUME NEW j \in 1 .. n + l, s[j].role = "assistant", c \in s[j].ids
          PROVE  Last(s, j)
      <3>1. j \in 1 .. n
        BY <1>3, <1>4, <2>1
      <3> QED
        BY <1>1, <1>7, <1>9, <2>1, <3>1 DEF OnlyLast
    <2> QED
      BY <1>1, <2>1 DEF OnlyLast
  <1>10. ASSUME NEW owed \in SUBSET Calls,
                PairedBut(messages, owed \cup {list[k] : k \in DOMAIN list})
         PROVE  PairedBut(s, owed)
    <2> DEFINE given == {list[k] : k \in 1 .. l}
    <2>1. PairedBut(messages, owed \cup given)
      BY <1>1, <1>10
    <2>2. given \subseteq Calls
      BY <1>1
    <2>3. ASSUME NEW i \in 1 .. n
          PROVE  Results(s, i) = Results(messages, i) \cup (IF Last(messages, i) THEN given ELSE {})
      <3>1. ASSUME NEW c \in Results(s, i)
            PROVE  c \in Results(messages, i) \/ (Last(messages, i) /\ c \in given)
        <4>1. PICK k \in 1 .. n + l : k > i /\ Answers(s, i, k) /\ c \in s[k].ids
          BY <1>1 DEF Results
        <4>2. CASE k \in 1 .. n
          BY <1>1, <1>5, <4>1, <4>2 DEF Results
        <4>3. CASE k \in n + 1 .. n + l
          <5>1. k \in n .. n + l
            BY <1>1, <4>3
          <5>2. Last(messages, i)
            BY <1>6, <4>1, <5>1
          <5>3. c = list[k - n] /\ k - n \in 1 .. l
            BY <1>3, <4>1, <4>3
          <5> QED
            BY <5>2, <5>3
        <4> QED
          BY <1>4, <4>2, <4>3
      <3>2. ASSUME NEW c \in Results(messages, i)
            PROVE  c \in Results(s, i)
        BY <1>1, <1>5 DEF Results
      <3>3. ASSUME Last(messages, i), NEW c \in given
            PROVE  c \in Results(s, i)
        <4>1. PICK k \in 1 .. l : c = list[k]
          BY <3>3
        <4>2. n + k \in n .. n + l /\ n + k \in 1 .. n + l /\ n + k > i
          BY <1>1
        <4>3. Answers(s, i, n + k) /\ c \in s[n + k].ids
          BY <1>2, <1>6, <3>3, <4>1, <4>2
        <4>4. c \in Calls
          BY <2>2
        <4> QED
          BY <1>1, <4>2, <4>3, <4>4 DEF Results
      <3> HIDE DEF given
      <3> QED
        BY <3>1, <3>2, <3>3
    <2> HIDE DEF given
    <2>4. ASSUME NEW i \in 1 .. n + l, s[i].role = "assistant"
          PROVE  s[i].ids = Results(s, i) \cup (IF Last(s, i) THEN owed ELSE {})
      <3>1. i \in 1 .. n
        BY <1>3, <1>4, <2>4
      <3>2. messages[i].ids = Results(messages, i)
                                \cup (IF Last(messages, i) THEN owed \cup given ELSE {})
        BY <1>1, <2>1, <2>4, <3>1 DEF PairedBut
      <3>3. s[i].ids = messages[i].ids /\ (Last(s, i) <=> Last(messages, i))
        BY <1>1, <1>7, <3>1
      <3> QED
        BY <2>3, <3>1, <3>2, <3>3
    <2>5. l > 0 => n > 0 /\ messages[n].role \in {"assistant", "tool"}
      <3>1. l > 0 => list[1] \in given
        BY <1>1 DEF given
      <3>2. l > 0 => messages # <<>> /\ messages[n].role \in {"assistant", "tool"}
        BY <2>1, <3>1 DEF PairedBut, n
      <3> QED
        BY <1>1, <3>2 DEF n
    <2>6. ASSUME NEW i \in 1 .. n + l, s[i].role = "tool"
          PROVE  i > 1 /\ s[i - 1].role \in {"assistant", "tool"}
      <3>1. CASE i \in 1 .. n
        <4>1. i > 1 /\ messages[i - 1].role \in {"assistant", "tool"}
          BY <1>1, <2>1, <2>6, <3>1 DEF PairedBut
        <4>2. i - 1 \in 1 .. n
          BY <1>1, <3>1, <4>1
        <4> QED
          BY <1>1, <4>1, <4>2
      <3>2. CASE i = n + 1 /\ l > 0
        <4>1. i - 1 = n /\ n \in 1 .. n /\ i > 1
          BY <1>1, <2>5, <3>2
        <4> QED
          BY <1>1, <2>5, <3>2, <4>1
      <3>3. CASE i \in n + 2 .. n + l
        <4>1. i - 1 \in n + 1 .. n + l /\ i > 1
          BY <1>1, <3>3
        <4> QED
          BY <1>3, <4>1
      <3> QED
        BY <1>1, <3>1, <3>2, <3>3
    <2>7. ASSUME owed # {}
          PROVE  s # <<>> /\ s[Len(s)].role \in {"assistant", "tool"}
      <3>1. messages # <<>> /\ messages[n].role \in {"assistant", "tool"}
        BY <2>1, <2>7 DEF PairedBut, n
      <3>2. n \in 1 .. n
        BY <1>1, <3>1 DEF n
      <3>3. CASE l = 0
        BY <1>1, <3>1, <3>2, <3>3
      <3>4. CASE l > 0
        <4>1. n + l \in n + 1 .. n + l
          BY <1>1, <3>4
        <4> QED
          BY <1>1, <1>3, <4>1
      <3> QED
        BY <1>1, <3>3, <3>4
    <2> QED
      BY <1>1, <2>4, <2>6, <2>7 DEF PairedBut
  <1>11. \A i \in DOMAIN s : (i \in DOMAIN messages /\ s[i] = messages[i])
                             \/ \E k \in DOMAIN list : s[i].ids = {list[k]}
    BY <1>1, <1>3, <1>4
  <1> QED
    BY <1>8, <1>9, <1>10, <1>11

\* A summary of what was before a message of the user.
LEMMA CompactFacts ==
    ASSUME NEW messages \in Seq(Message), InPlace(messages),
           NEW b \in DOMAIN messages, messages[b].role = "user"
    PROVE  LET s == <<Said("summary", {})>> \o SubSeq(messages, b, Len(messages)) IN
           /\ s \in Seq(Message) /\ InPlace(s) /\ IdsKept(s, messages)
           /\ PairedBut(messages, {}) => PairedBut(s, {})
  <1> DEFINE n == Len(messages)
             first == <<Said("summary", {})>>
             rest == SubSeq(messages, b, n)
             s == first \o rest
             l == n - b + 2
             At(k) == k + b - 2
  <1>1. n \in Nat /\ DOMAIN messages = 1 .. n /\ b \in 1 .. n
    OBVIOUS
  <1>2. /\ Said("summary", {}) \in Message
        /\ Said("summary", {}).role = "summary" /\ Said("summary", {}).ids = {}
    BY SaidFacts DEF Roles
  <1>3. /\ rest \in Seq(Message) /\ Len(rest) = n - b + 1
        /\ \A k \in 1 .. n - b + 1 : rest[k] = messages[b + k - 1]
    BY <1>1
  <1>4. first \in Seq(Message) /\ Len(first) = 1 /\ first[1] = Said("summary", {})
    BY <1>2
  <1> HIDE DEF n, first, rest
  <1>5. /\ s \in Seq(Message) /\ Len(s) = l /\ DOMAIN s = 1 .. l /\ l \in Nat
        /\ s[1] = Said("summary", {})
        /\ \A k \in 2 .. l : s[k] = messages[At(k)] /\ At(k) \in b .. n
    <2>1. /\ s \in Seq(Message) /\ Len(s) = Len(first) + Len(rest)
          /\ \A i \in 1 .. Len(first) + Len(rest) :
                s[i] = IF i <= Len(first) THEN first[i] ELSE rest[i - Len(first)]
      BY <1>3, <1>4, ConcatProperties
    <2>2. s \in Seq(Message) /\ Len(s) = 1 + (n - b + 1)
      BY <1>1, <1>3, <1>4, <2>1
    <2> HIDE DEF s
    <2>3. s[1] = first[1]
      BY <1>1, <1>3, <1>4, <2>1
    <2>4. \A k \in 2 .. l : s[k] = rest[k - 1] /\ k - 1 \in 1 .. n - b + 1
      BY <1>1, <1>3, <1>4, <2>1
    <2>5. \A k \in 2 .. l : b + (k - 1) - 1 = At(k) /\ At(k) \in b .. n
      BY <1>1
    <2> QED
      BY <1>1, <1>3, <1>4, <2>2, <2>3, <2>4, <2>5
  <1>6. s[1].role = "summary" /\ s[1].ids = {} /\ l >= 2
    BY <1>1, <1>2, <1>5
  <1>7. \A p \in b .. n : p - b + 2 \in 2 .. l /\ At(p - b + 2) = p
    BY <1>1
  <1>8. \A k \in 1 .. l : k = 1 \/ k \in 2 .. l
    BY <1>1
  <1> HIDE DEF s
  <1>9. ASSUME NEW i \in 2 .. l, NEW k \in 2 .. l
        PROVE  Answers(s, i, k) <=> Answers(messages, At(i), At(k))
    <2>1. ASSUME Answers(s, i, k), NEW p \in At(i) + 1 .. At(k)
          PROVE  messages[p].role = "tool"
      <3>1. p \in b .. n /\ p - b + 2 \in i + 1 .. k
        BY <1>1, <1>5, <2>1
      <3>2. s[p - b + 2].role = "tool"
        BY <2>1, <3>1 DEF Answers
      <3> QED
        BY <1>5, <1>7, <3>1, <3>2
    <2>2. ASSUME Answers(messages, At(i), At(k)), NEW m \in i + 1 .. k
          PROVE  s[m].role = "tool"
      <3>1. m \in 2 .. l /\ At(m) \in At(i) + 1 .. At(k)
        BY <1>1, <1>5, <2>2
      <3> QED
        BY <1>5, <2>2, <3>1 DEF Answers
    <2> HIDE DEF At
    <2> QED
      BY <2>1, <2>2 DEF Answers
  <1>10. InPlace(s)
    <2>1. ASSUME NEW k \in 1 .. l
          PROVE  /\ s[k].role = "tool" => \E c \in Calls : s[k].ids = {c}
                 /\ s[k].role \in {"user", "summary"} => s[k].ids = {}
      <3>1. CASE k = 1
        BY <1>6, <3>1
      <3>2. CASE k \in 2 .. l
        <4>1. s[k] = messages[At(k)] /\ At(k) \in DOMAIN messages
          BY <1>1, <1>5, <3>2
        <4> QED
          BY <4>1 DEF InPlace
      <3> QED
        BY <1>8, <3>1, <3>2
    <2>2. ASSUME NEW j \in 1 .. l, NEW k \in 1 .. l, NEW c \in Calls,
                 s[j].role = "assistant", s[k].role = "tool", c \in s[j].ids, c \in s[k].ids
          PROVE  j < k /\ Answers(s, j, k)
      <3>1. j \in 2 .. l /\ k \in 2 .. l
        BY <1>6, <1>8, <2>2
      <3>2. /\ s[j] = messages[At(j)] /\ At(j) \in DOMAIN messages
            /\ s[k] = messages[At(k)] /\ At(k) \in DOMAIN messages
        BY <1>1, <1>5, <3>1
      <3>3. At(j) < At(k) /\ Answers(messages, At(j), At(k))
        BY <2>2, <3>2 DEF InPlace
      <3>4. j < k
        BY <1>1, <3>1, <3>3
      <3> QED
        BY <1>9, <3>1, <3>3, <3>4
    <2> QED
      BY <1>5, <2>1, <2>2 DEF InPlace
  <1>11. ASSUME PairedBut(messages, {})
         PROVE  PairedBut(s, {})
    <2>1. ASSUME NEW i \in 2 .. l
          PROVE  Results(s, i) = Results(messages, At(i))
      <3>1. ASSUME NEW c \in Results(s, i)
            PROVE  c \in Results(messages, At(i))
        <4>1. PICK k \in 1 .. l : k > i /\ Answers(s, i, k) /\ c \in s[k].ids
          BY <1>5 DEF Results
        <4>2. k \in 2 .. l /\ At(k) > At(i) /\ At(k) \in DOMAIN messages
          BY <1>1, <1>5, <4>1
        <4>3. c \in messages[At(k)].ids /\ Answers(messages, At(i), At(k)) /\ c \in Calls
          BY <1>5, <1>9, <4>1, <4>2 DEF Results
        <4> HIDE DEF At
        <4> QED
          BY <4>2, <4>3 DEF Results
      <3>2. ASSUME NEW c \in Results(messages, At(i))
            PROVE  c \in Results(s, i)
        <4>1. PICK p \in 1 .. n : p > At(i) /\ Answers(messages, At(i), p) /\ c \in messages[p].ids
          BY <1>1 DEF Results
        <4>2. p \in b .. n /\ p - b + 2 > i
          BY <1>1, <1>5, <4>1
        <4>3. p - b + 2 \in 2 .. l /\ At(p - b + 2) = p
          BY <1>7, <4>2
        <4>4. c \in s[p - b + 2].ids /\ Answers(s, i, p - b + 2) /\ c \in Calls
          BY <1>5, <1>9, <4>1, <4>3 DEF Results
        <4>5. p - b + 2 \in DOMAIN s
          BY <1>1, <1>5, <4>3
        <4> QED
          BY <4>2, <4>4, <4>5 DEF Results
      <3> QED
        BY <3>1, <3>2
    <2>2. ASSUME NEW i \in 1 .. l, s[i].role = "assistant"
          PROVE  s[i].ids = Results(s, i)
      <3>1. i \in 2 .. l
        BY <1>6, <1>8, <2>2
      <3>2. s[i] = messages[At(i)] /\ At(i) \in DOMAIN messages
        BY <1>1, <1>5, <3>1
      <3>3. messages[At(i)].ids = Results(messages, At(i))
        BY <1>11, <2>2, <3>2 DEF PairedBut
      <3> QED
        BY <2>1, <3>1, <3>2, <3>3
    <2>3. ASSUME NEW i \in 1 .. l, s[i].role = "tool"
          PROVE  i > 1 /\ s[i - 1].role \in {"assistant", "tool"}
      <3>1. i \in 2 .. l
        BY <1>6, <1>8, <2>3
      <3>2. s[i] = messages[At(i)] /\ At(i) \in b .. n
        BY <1>5, <3>1
      <3>3. At(i) # b
        BY <2>3, <3>2
      <3>4. i - 1 \in 2 .. l /\ At(i - 1) = At(i) - 1
        BY <1>1, <3>1, <3>2, <3>3
      <3>5. s[i - 1] = messages[At(i) - 1]
        BY <1>5, <3>4
      <3>6. At(i) \in DOMAIN messages
        BY <1>1, <3>2
      <3>7. messages[At(i) - 1].role \in {"assistant", "tool"}
        BY <1>11, <2>3, <3>2, <3>6 DEF PairedBut
      <3> QED
        BY <1>1, <3>1, <3>5, <3>7
    <2> QED
      BY <1>5, <2>2, <2>3 DEF PairedBut
  <1>12. IdsKept(s, messages)
    <2>1. ASSUME NEW k \in 1 .. l, NEW c \in s[k].ids
          PROVE  \E j \in DOMAIN messages : c \in messages[j].ids
      <3>1. k \in 2 .. l
        BY <1>6, <1>8, <2>1
      <3>2. s[k] = messages[At(k)] /\ At(k) \in DOMAIN messages
        BY <1>1, <1>5, <3>1
      <3> QED
        BY <2>1, <3>2
    <2> QED
      BY <1>5, <2>1 DEF IdsKept
  <1> QED
    BY <1>5, <1>10, <1>11, <1>12 DEF s, first, rest, n

-----------------------------------------------------------------------------
(***************************************************************************)
(* The context through the turns (AgentLoop).                              *)
(***************************************************************************)

\* The calls whose results may still join the context.
Owed(c) ==
    \/ Listed(pending, c)
    \/ /\ where \in {"resolving", "confirmed", "parallel", "serial"}
       /\ Listed(todo, c) \/ c \in together

\* The calls that are owed are nowhere but in the last message before results.
OwedInv == \A c \in Calls : Owed(c) => OnlyLast(context, c)

\* Only calls that were made are in the context.
MadeInv == \A j \in DOMAIN context : \A c \in context[j].ids : kind[c] # "none"

\* Until calls are confirmed or the turn is amended, the context is paired but for
\* what is owed.  A turn that pauses has spoken.
RoundInv ==
    /\ where = "round" /\ ~resumed => PairedBut(context, {})
    /\ where \in {"parallel", "serial"} /\ ~resumed =>
          PairedBut(context, {c \in Calls : Owed(c)})
    /\ where \in {"ending", "forced"} /\ ~resumed /\ ~amended /\ ~spoken =>
          PairedBut(context, {})
    /\ where = "ending" /\ pending # <<>> => spoken
    /\ where = "forced" => ~spoken /\ pending = <<>>

\* The types of what the context is decided by.
PairTypes == context \in Seq(Message) /\ amended \in BOOLEAN /\ spoken \in BOOLEAN

\* The inductive invariant of the context.
PairInv == PairTypes /\ InPlace(context) /\ OwedInv /\ MadeInv /\ RoundInv

\* Before the first turn the context is empty.
LEMMA PairInit == LoopInit => PairInv
  <1> SUFFICES ASSUME LoopInit PROVE PairInv
    OBVIOUS
  <1>1. context = <<>> /\ DOMAIN context = {}
    BY DEF LoopInit
  <1>2. context \in Seq(Message)
    BY <1>1
  <1>3. InPlace(context) /\ MadeInv
    BY <1>1 DEF InPlace, MadeInv
  <1>4. OwedInv
    BY <1>1 DEF OwedInv, OnlyLast
  <1> QED
    BY <1>2, <1>3, <1>4 DEF PairInv, PairTypes, RoundInv, LoopInit

\* A step that leaves the context, and owes no more than before.
LEMMA ContextKept ==
    ASSUME PairInv, context' = context, amended' \in BOOLEAN, spoken' \in BOOLEAN,
           \A c \in Calls : kind[c] # "none" => kind'[c] # "none",
           \A c \in Calls : Owed(c)' => Owed(c),
           RoundInv'
    PROVE  PairInv'
  <1>1. PairTypes' /\ InPlace(context)'
    BY DEF PairInv, PairTypes
  <1>2. OwedInv'
    BY DEF PairInv, OwedInv
  <1>3. MadeInv'
    <2>1. \A j \in DOMAIN context : context[j] \in Message
      BY DEF PairInv, PairTypes
    <2>2. \A j \in DOMAIN context : context[j].ids \subseteq Calls
      BY <2>1, SaidFacts
    <2> QED
      BY <2>2 DEF PairInv, MadeInv
  <1> QED
    BY <1>1, <1>2, <1>3 DEF PairInv

\* A step that changes the context.
LEMMA ContextNew ==
    ASSUME context' \in Seq(Message), InPlace(context)', amended' \in BOOLEAN,
           spoken' \in BOOLEAN, MadeInv', RoundInv',
           \A c \in Calls : Owed(c)' => OnlyLast(context, c)'
    PROVE  PairInv'
  BY DEF PairInv, PairTypes, OwedInv

\* What was made before is made of a context that keeps its ids.
LEMMA MadeKept ==
    ASSUME MadeInv, kind' = kind, IdsKept(context', context)
    PROVE  MadeInv'
  BY DEF MadeInv, IdsKept

\* Where nothing is on its lists nothing is owed.
LEMMA NothingOwed ==
    ASSUME pending = <<>>, where \notin {"resolving", "confirmed", "parallel", "serial"}
    PROVE  \A c \in Calls : ~Owed(c)
  BY NothingListed DEF Owed

\* A turn begins with what was left behind, sanitized.
LEMMA UserMessagePairs ==
    ASSUME CallsInv, PairInv, UserMessage
    PROVE  PairInv'
  <1> DEFINE s == Sanitized(context)
  <1>1. /\ pending = <<>> /\ pending' = <<>> /\ where' = "round"
        /\ context' = Append(s, Said("user", {}))
        /\ amended' = FALSE /\ spoken' = FALSE /\ kind' = kind
    BY DEF UserMessage, Begin
  <1>2. s \in Seq(Message) /\ InPlace(s) /\ PairedBut(s, {}) /\ IdsKept(s, context)
    BY SanitizedFacts DEF PairInv, PairTypes
  <1> HIDE DEF s
  <1>3. /\ context' \in Seq(Message) /\ InPlace(context')
        /\ PairedBut(context', {})
        /\ \A i \in DOMAIN context' : \/ i \in DOMAIN s /\ context'[i] = s[i]
                                      \/ i \notin DOMAIN s /\ context'[i].ids = {}
    <2>1. /\ Append(s, Said("user", {})) \in Seq(Message) /\ InPlace(Append(s, Said("user", {})))
          /\ PairedBut(Append(s, Said("user", {})), {})
          /\ \A i \in DOMAIN Append(s, Said("user", {})) :
                \/ i \in DOMAIN s /\ Append(s, Said("user", {}))[i] = s[i]
                \/ i \notin DOMAIN s /\ Append(s, Said("user", {}))[i].ids = {}
      BY <1>2, AppendMessage
    <2> QED
      BY <1>1, <2>1
  <1>4. MadeInv'
    BY <1>1, <1>2, <1>3 DEF PairInv, MadeInv, IdsKept
  <1>5. \A c \in Calls : ~Owed(c)'
    BY <1>1, NothingListed DEF Owed
  <1>6. RoundInv'
    BY <1>1, <1>3 DEF RoundInv
  <1> QED
    BY <1>1, <1>3, <1>4, <1>5, <1>6, ContextNew

\* The turn in which the user decides about pending calls.
LEMMA ConfirmationPairs ==
    ASSUME CallsInv, PairInv, UserAnswers \/ Confirmed \/ Declined
    PROVE  PairInv'
  <1>1. CASE UserAnswers
    <2>1. /\ where = "idle" /\ todo' = pending /\ where' = "resolving" /\ amended' = FALSE
          /\ spoken' = FALSE /\ UNCHANGED <<context, kind, together, pending>>
      BY <1>1 DEF UserAnswers, Begin
    <2>2. together = {}
      BY <2>1 DEF CallsInv, CallsPlaced
    <2>3. \A c \in Calls : Owed(c)' => Owed(c)
      BY <2>1, <2>2 DEF Owed, Listed
    <2>4. RoundInv'
      BY <2>1 DEF RoundInv
    <2> QED
      BY <2>1, <2>3, <2>4, ContextKept
  <1>2. CASE Confirmed
    <2>1. /\ where = "resolving" /\ pending' = <<>> /\ where' = "confirmed"
          /\ UNCHANGED <<context, kind, together, todo, amended, spoken>>
      BY <1>2 DEF Confirmed, NothingPending
    <2>2. \A c \in Calls : Owed(c)' => Owed(c)
      BY <2>1, NothingListed DEF Owed, Listed
    <2>3. RoundInv'
      BY <2>1 DEF RoundInv
    <2> QED
      BY <2>1, <2>2, <2>3, ContextKept DEF PairInv, PairTypes
  <1>3. CASE Declined
    <2>1. /\ where = "resolving" /\ pending' \in {<<>>, todo} /\ context' = Sanitized(context)
          /\ where' = "idle" /\ UNCHANGED <<kind, amended, spoken>>
      BY <1>3 DEF Declined, turnVars
    <2>2. /\ context' \in Seq(Message) /\ InPlace(context') /\ IdsKept(context', context)
          /\ \A c \in Calls : OnlyLast(context, c) => OnlyLast(context', c)
      BY <2>1, SanitizedFacts DEF PairInv, PairTypes
    <2>3. ASSUME NEW c \in Calls, Owed(c)'
          PROVE  OnlyLast(context', c)
      <3>1. Listed(todo, c)
        BY <2>1, <2>3, NothingListed DEF Owed, Listed
      <3> QED
        BY <2>1, <2>2, <3>1 DEF PairInv, OwedInv, Owed
    <2>4. MadeInv'
      BY <2>1, <2>2, MadeKept DEF PairInv
    <2>5. RoundInv'
      BY <2>1 DEF RoundInv
    <2> QED
      BY <2>1, <2>2, <2>3, <2>4, <2>5, ContextNew DEF PairInv, PairTypes
  <1> QED
    BY <1>1, <1>2, <1>3

\* The result of the first call of a list, or of all of a set.
LEMMA ResultsJoin ==
    ASSUME CallsInv, PairInv, NEW list \in Seq(Calls), Given(context, list, context'),
           \A k \in DOMAIN list : Owed(list[k]) /\ kind[list[k]] # "none",
           kind' = kind, \A c \in Calls : Owed(c)' => Owed(c)
    PROVE  /\ context' \in Seq(Message) /\ InPlace(context)' /\ MadeInv'
           /\ \A c \in Calls : Owed(c)' => OnlyLast(context, c)'
           /\ \A owed \in SUBSET Calls :
                 PairedBut(context, owed \cup {list[k] : k \in DOMAIN list})
                 => PairedBut(context', owed)
  <1>1. \A k \in DOMAIN list : list[k] \in Calls
    OBVIOUS
  <1>2. context \in Seq(Message) /\ InPlace(context)
    BY DEF PairInv, PairTypes
  <1>3. \A k \in DOMAIN list : OnlyLast(context, list[k])
    BY <1>1 DEF PairInv, OwedInv
  <1>4. /\ InPlace(context')
        /\ \A i \in DOMAIN context' : (i \in DOMAIN context /\ context'[i] = context[i])
                                      \/ \E k \in DOMAIN list : context'[i].ids = {list[k]}
        /\ \A c \in Calls : OnlyLast(context, c) => OnlyLast(context', c)
        /\ \A owed \in SUBSET Calls :
                 PairedBut(context, owed \cup {list[k] : k \in DOMAIN list})
                 => PairedBut(context', owed)
    BY <1>2, <1>3, AppendResults
  <1>5. MadeInv'
    BY <1>4 DEF PairInv, MadeInv
  <1>6. context' \in Seq(Message)
    BY DEF Given
  <1> QED
    BY <1>4, <1>5, <1>6 DEF PairInv, OwedInv

\* One result is given.
LEMMA GivenOne ==
    ASSUME PairInv, NEW c \in Calls, context' = Append(context, Said("tool", {c}))
    PROVE  Given(context, <<c>>, context') /\ <<c>> \in Seq(Calls)
  <1>1. Said("tool", {c}) \in Message
    BY SaidFacts DEF Roles
  <1>2. context \in Seq(Message)
    BY DEF PairInv, PairTypes
  <1>3. /\ context' \in Seq(Message) /\ Len(context') = Len(context) + 1
        /\ \A i \in DOMAIN context : context'[i] = context[i]
        /\ context'[Len(context) + 1] = Said("tool", {c})
    BY <1>1, <1>2
  <1>4. <<c>> \in Seq(Calls) /\ Len(<<c>>) = 1 /\ <<c>>[1] = c
    OBVIOUS
  <1>5. \A k \in 1 .. Len(<<c>>) :
           context'[Len(context) + k] = Said("tool", {<<c>>[k]})
    <2>1. \A k \in 1 .. Len(<<c>>) : k = 1
      BY <1>4
    <2> QED
      BY <1>3, <1>4, <2>1
  <1> QED
    BY <1>3, <1>4, <1>5 DEF Given

\* Confirmed calls run before the message joins, in a turn that is resumed.
LEMMA RunConfirmedPairs ==
    ASSUME CallsInv, PairInv, RunConfirmed
    PROVE  PairInv'
  <1>1. /\ where = "confirmed" /\ resumed = TRUE /\ pending = <<>>
        /\ UNCHANGED <<kind, together, pending, resumed, amended, spoken>>
    BY DEF RunConfirmed, turnVars, CallsInv, CallsPlaced
  <1>2. amended' \in BOOLEAN /\ spoken' \in BOOLEAN
    BY <1>1 DEF PairInv, PairTypes
  <1>3. CASE todo = <<>>
    <2>1. context' = Append(context, Said("user", {})) /\ where' = "round"
      BY <1>3 DEF RunConfirmed
    <2>2. /\ Append(context, Said("user", {})) \in Seq(Message)
          /\ InPlace(Append(context, Said("user", {})))
          /\ \A i \in DOMAIN Append(context, Said("user", {})) :
                \/ i \in DOMAIN context /\ Append(context, Said("user", {}))[i] = context[i]
                \/ i \notin DOMAIN context /\ Append(context, Said("user", {}))[i].ids = {}
      BY AppendMessage DEF PairInv, PairTypes
    <2>3. MadeInv'
      BY <1>1, <2>1, <2>2 DEF PairInv, MadeInv
    <2>4. \A c \in Calls : ~Owed(c)'
      BY <1>1, <2>1, NothingListed DEF Owed
    <2>5. RoundInv'
      BY <1>1, <2>1 DEF RoundInv
    <2> QED
      BY <1>2, <2>1, <2>2, <2>3, <2>4, <2>5, ContextNew
  <1>4. CASE todo # <<>>
    <2>1. /\ context' = Append(context, Said("tool", {Head(todo)})) /\ todo' = Tail(todo)
          /\ where' = "confirmed"
      BY <1>1, <1>4 DEF RunConfirmed
    <2>2. Head(todo) \in Calls /\ Listed(todo, Head(todo)) /\ Unspent(Head(todo))
      BY <1>4, RestFacts DEF CallsInv, CallTypes, CallsOnce, Listed
    <2>3. \A c \in Calls : Owed(c)' => Owed(c)
      BY <1>1, <1>4, <2>1, RestFacts, NothingListed DEF Owed, Listed, CallsInv, CallTypes, CallsOnce
    <2>4. Given(context, <<Head(todo)>>, context') /\ <<Head(todo)>> \in Seq(Calls)
      BY <2>1, <2>2, GivenOne
    <2>5. \A k \in DOMAIN <<Head(todo)>> :
             Owed(<<Head(todo)>>[k]) /\ kind[<<Head(todo)>>[k]] # "none"
      BY <1>1, <2>2 DEF Owed, Unspent
    <2>6. RoundInv'
      BY <1>1, <2>1 DEF RoundInv
    <2> QED
      BY <1>1, <1>2, <2>3, <2>4, <2>5, <2>6, ResultsJoin, ContextNew
  <1> QED
    BY <1>3, <1>4

\* A round that does not call the model, or gets no calls of it.
LEMMA RoundPairs ==
    ASSUME CallsInv, PairInv,
           \/ Compact \/ RunTimeout \/ AmendedBefore
           \/ \E text \in BOOLEAN : RespondText(text)
    PROVE  PairInv'
  <1>1. /\ where = "round" /\ pending = <<>> /\ pending' = <<>>
        /\ UNCHANGED <<kind, resumed>> /\ where' \in {"round", "ending"}
    BY DEF Compact, RunTimeout, AmendedBefore, RespondText, CallsInv, CallsPlaced, turnVars
  <1>2. \A c \in Calls : ~Owed(c)'
    BY <1>1, NothingListed DEF Owed
  <1>3. /\ context \in Seq(Message) /\ InPlace(context) /\ MadeInv
        /\ ~resumed => PairedBut(context, {})
    BY <1>1 DEF PairInv, PairTypes, RoundInv
  <1>4. CASE Compact
    <2>1. PICK i \in Boundaries :
             context' = <<Said("summary", {})>> \o SubSeq(context, i, Len(context))
      BY <1>4 DEF Compact
    <2>2. i \in DOMAIN context /\ context[i].role = "user"
      BY <2>1 DEF Boundaries, UserTurns
    <2>3. /\ context' \in Seq(Message) /\ InPlace(context') /\ IdsKept(context', context)
          /\ PairedBut(context, {}) => PairedBut(context', {})
      BY <1>3, <2>1, <2>2, CompactFacts
    <2>4. MadeInv'
      BY <1>1, <1>3, <2>3, MadeKept
    <2>5. /\ where' = "round" /\ UNCHANGED <<amended, spoken>>
      BY <1>1, <1>4 DEF Compact, turnVars
    <2>6. RoundInv'
      BY <1>1, <1>3, <2>3, <2>5 DEF RoundInv
    <2> QED
      BY <1>2, <2>3, <2>4, <2>5, <2>6, ContextNew DEF PairInv, PairTypes
  <1>5. CASE RunTimeout
    <2>1. where' = "ending" /\ UNCHANGED <<context, amended, spoken>>
      BY <1>5 DEF RunTimeout
    <2>2. RoundInv'
      BY <1>1, <1>3, <2>1 DEF RoundInv
    <2> QED
      BY <1>1, <1>2, <2>1, <2>2, ContextKept DEF PairInv, PairTypes
  <1>6. CASE AmendedBefore
    <2>1. where' = "ending" /\ amended' = TRUE /\ UNCHANGED <<context, spoken>>
      BY <1>6 DEF AmendedBefore
    <2>2. RoundInv'
      BY <1>1, <2>1 DEF RoundInv
    <2> QED
      BY <1>1, <1>2, <2>1, <2>2, ContextKept DEF PairInv, PairTypes
  <1>7. ASSUME NEW text \in BOOLEAN, RespondText(text)
        PROVE  PairInv'
    <2>1. /\ where' = "ending" /\ spoken' = text /\ UNCHANGED amended
          /\ context' = Append(context, Said("assistant", {}))
      BY <1>7 DEF RespondText
    <2>2. /\ Append(context, Said("assistant", {})) \in Seq(Message)
          /\ InPlace(Append(context, Said("assistant", {})))
          /\ \A i \in DOMAIN Append(context, Said("assistant", {})) :
                \/ i \in DOMAIN context /\ Append(context, Said("assistant", {}))[i] = context[i]
                \/ i \notin DOMAIN context /\ Append(context, Said("assistant", {}))[i].ids = {}
          /\ PairedBut(context, {}) => PairedBut(Append(context, Said("assistant", {})), {})
      BY <1>3, AppendMessage
    <2>3. MadeInv'
      BY <1>1, <1>3, <2>1, <2>2 DEF MadeInv
    <2>4. RoundInv'
      BY <1>1, <1>3, <2>1, <2>2 DEF RoundInv
    <2> QED
      BY <1>2, <2>1, <2>2, <2>3, <2>4, ContextNew DEF PairInv, PairTypes
  <1> QED
    BY <1>4, <1>5, <1>6, <1>7

\* The model's calls join the context; they wait for the user, run, or the turn ends.
LEMMA RespondPairs ==
    ASSUME CallsInv, PairInv, NEW ids \in SUBSET Calls, NEW kinds \in [ids -> ToolKinds],
           RespondCalls(ids, kinds)
    PROVE  PairInv'
  <1> DEFINE s == Append(context, Said("assistant", ids))
             publish == {c \in ids : kinds[c] = "publish"}
             serial == {c \in ids : kinds[c] # "parallel"}
             parallel == {c \in ids : kinds[c] = "parallel"}
  <1>1. /\ where = "round" /\ pending = <<>> /\ FreshReply(ids)
        /\ kind' = [c \in Calls |-> IF c \in ids THEN kinds[c] ELSE kind[c]]
        /\ UNCHANGED <<resumed, amended>>
        /\ \/ /\ pending' = Ordered(publish)
              /\ context' = s /\ spoken' = TRUE /\ where' = "ending"
           \/ /\ where' = "ending" /\ UNCHANGED <<context, pending, spoken>>
           \/ /\ context' = s /\ together' = parallel /\ todo' = Ordered(serial)
              /\ where' \in {"serial", "parallel"} /\ UNCHANGED <<pending, spoken>>
    BY DEF RespondCalls, CallsInv, CallsPlaced
  <1>2. /\ context \in Seq(Message) /\ InPlace(context) /\ MadeInv
        /\ amended \in BOOLEAN /\ spoken \in BOOLEAN
        /\ ~resumed => PairedBut(context, {})
    BY <1>1 DEF PairInv, PairTypes, RoundInv
  <1>3. \A c \in Calls : /\ c \in ids => kind'[c] # "none" /\ kind[c] = "none"
                         /\ c \notin ids => kind'[c] = kind[c]
    BY <1>1 DEF ToolKinds, FreshReply
  <1>4. \A i \in DOMAIN context : context[i].ids \cap ids = {}
    BY <1>2, <1>3 DEF MadeInv
  <1>5. /\ s \in Seq(Message) /\ InPlace(s)
        /\ \A i \in DOMAIN s : (i \in DOMAIN context /\ s[i] = context[i])
                               \/ (i \notin DOMAIN context /\ s[i].ids = ids)
        /\ \A c \in ids : OnlyLast(s, c)
        /\ PairedBut(context, {}) => PairedBut(s, ids)
    BY <1>2, <1>4, AppendMessage
  <1>6. /\ publish \subseteq ids /\ serial \subseteq ids /\ parallel \subseteq ids
        /\ \A c \in ids : c \in parallel \/ c \in serial
    OBVIOUS
  <1>7. \A some \in SUBSET ids : \A c :
           /\ Listed(Ordered(some), c) => c \in some
           /\ c \in some => Listed(Ordered(some), c)
    <2>1. \A some \in SUBSET ids : some \in SUBSET Calls
      OBVIOUS
    <2> QED
      BY <2>1, OrderedCalls DEF Listed
  <1> HIDE DEF s, publish, serial, parallel
  <1>8. \A c \in Calls : kind[c] # "none" => kind'[c] # "none"
    BY <1>3
  <1>9. ASSUME context' = s
        PROVE  MadeInv'
    <2>1. ASSUME NEW j \in DOMAIN s, NEW c \in s[j].ids
          PROVE  kind'[c] # "none"
      <3>1. CASE j \in DOMAIN context /\ s[j] = context[j]
        <4>1. context[j] \in Message
          BY <1>2, <3>1
        <4>2. c \in Calls /\ kind[c] # "none"
          BY <1>2, <3>1, <4>1, SaidFacts DEF MadeInv
        <4> QED
          BY <1>8, <4>2
      <3>2. CASE s[j].ids = ids
        BY <1>3, <3>2
      <3> QED
        BY <1>5, <3>1, <3>2
    <2> QED
      BY <1>9, <2>1 DEF MadeInv
  <1>10. CASE /\ pending' = Ordered(publish)
              /\ context' = s /\ spoken' = TRUE /\ where' = "ending"
    <2>1. ASSUME NEW c \in Calls, Owed(c)'
          PROVE  OnlyLast(context', c)
      <3>1. c \in ids
        BY <1>6, <1>7, <1>10, <2>1 DEF Owed, Listed
      <3> QED
        BY <1>5, <1>10, <3>1
    <2>2. RoundInv'
      BY <1>10 DEF RoundInv
    <2> QED
      BY <1>1, <1>2, <1>5, <1>9, <1>10, <2>1, <2>2, ContextNew
  <1>11. CASE where' = "ending" /\ UNCHANGED <<context, pending, spoken>>
    <2>1. \A c \in Calls : ~Owed(c)'
      BY <1>1, <1>11, NothingListed DEF Owed
    <2>2. RoundInv'
      BY <1>1, <1>2, <1>11 DEF RoundInv
    <2> QED
      BY <1>1, <1>2, <1>8, <1>11, <2>1, <2>2, ContextKept
  <1>12. CASE /\ context' = s /\ together' = parallel /\ todo' = Ordered(serial)
              /\ where' \in {"serial", "parallel"} /\ UNCHANGED <<pending, spoken>>
    <2>1. \A c \in Calls : Owed(c)' <=> c \in ids
      BY <1>1, <1>6, <1>7, <1>12, NothingListed DEF Owed, Listed
    <2>2. {c \in Calls : Owed(c)}' = ids
      BY <2>1
    <2>3. ~resumed' => PairedBut(context', {c \in Calls : Owed(c)}')
      BY <1>1, <1>2, <1>5, <1>12, <2>2
    <2>4. RoundInv'
      BY <1>12, <2>3 DEF RoundInv
    <2> QED
      BY <1>1, <1>2, <1>5, <1>9, <1>12, <2>1, <2>4, ContextNew
  <1> QED
    BY <1>1, <1>10, <1>11, <1>12

\* The parallel calls give their results.
LEMMA ParallelPairs ==
    ASSUME CallsInv, PairInv, NEW stop \in BOOLEAN, RunParallel(stop)
    PROVE  PairInv'
  <1> DEFINE list == Ordered(together)
  <1>1. /\ where = "parallel" /\ pending = <<>> /\ pending' = <<>>
        /\ context' = context \o [i \in DOMAIN list |-> Said("tool", {list[i]})]
        /\ together' = {} /\ amended' = stop
        /\ where' = (IF stop THEN "ending" ELSE "serial")
        /\ UNCHANGED <<kind, todo, resumed, spoken>>
    BY DEF RunParallel, CallsInv, CallsPlaced
  <1>2. /\ list \in Seq(Calls) /\ \A k \in DOMAIN list : list[k] \in together
        /\ \A c \in together : \E k \in DOMAIN list : list[k] = c
    BY OrderedCalls DEF CallsInv, CallTypes
  <1>3. context \in Seq(Message) /\ spoken \in BOOLEAN
    BY DEF PairInv, PairTypes
  <1>4. Given(context, list, context')
    <2> HIDE DEF list
    <2> DEFINE given == [i \in DOMAIN list |-> Said("tool", {list[i]})]
    <2>1. \A i \in DOMAIN list : Said("tool", {list[i]}) \in Message
      <3>1. \A i \in DOMAIN list : list[i] \in Calls
        BY <1>2
      <3>2. \A i \in DOMAIN list : {list[i]} \in SUBSET Calls
        BY <3>1
      <3> QED
        BY <3>2, SaidFacts DEF Roles
    <2>2. /\ given \in Seq(Message) /\ Len(given) = Len(list)
          /\ \A k \in 1 .. Len(list) : given[k] = Said("tool", {list[k]})
      <3>1. DOMAIN list = 1 .. Len(list) /\ Len(list) \in Nat
        BY <1>2
      <3> QED
        BY <2>1, <3>1
    <2> HIDE DEF given
    <2>3. context' = context \o given
      BY <1>1 DEF given
    <2>4. /\ context' \in Seq(Message) /\ Len(context') = Len(context) + Len(list)
          /\ \A i \in 1 .. Len(context) + Len(list) :
                context'[i] = IF i <= Len(context) THEN context[i] ELSE given[i - Len(context)]
      <3>1. /\ context \o given \in Seq(Message)
            /\ Len(context \o given) = Len(context) + Len(given)
            /\ \A i \in 1 .. Len(context) + Len(given) :
                  (context \o given)[i] = IF i <= Len(context) THEN context[i]
                                          ELSE given[i - Len(context)]
        BY <1>3, <2>2, ConcatProperties
      <3> QED
        BY <2>2, <2>3, <3>1
    <2>5. /\ Len(context) \in Nat /\ Len(list) \in Nat
          /\ DOMAIN context = 1 .. Len(context)
      BY <1>2, <1>3
    <2>6. \A i \in DOMAIN context : context'[i] = context[i]
      BY <2>4, <2>5
    <2>7. \A k \in 1 .. Len(list) : context'[Len(context) + k] = given[k]
      BY <2>4, <2>5
    <2> QED
      BY <2>2, <2>4, <2>6, <2>7 DEF Given
  <1> HIDE DEF list
  <1>5. /\ \A k \in DOMAIN list : Owed(list[k]) /\ kind[list[k]] # "none"
        /\ \A c \in Calls : Owed(c)' => Owed(c)
    <2>1. \A c \in together : kind[c] # "none"
      BY DEF CallsInv, CallsOnce
    <2> QED
      BY <1>1, <1>2, <2>1, NothingListed DEF Owed, Listed
  <1>6. /\ context' \in Seq(Message) /\ InPlace(context)' /\ MadeInv'
        /\ \A c \in Calls : Owed(c)' => OnlyLast(context, c)'
        /\ \A owed \in SUBSET Calls :
                 PairedBut(context, owed \cup {list[k] : k \in DOMAIN list})
                 => PairedBut(context', owed)
    BY <1>1, <1>2, <1>4, <1>5, ResultsJoin
  <1>7. ASSUME ~stop, ~resumed
        PROVE  PairedBut(context', {c \in Calls : Owed(c)}')
    <2>1. {c \in Calls : Owed(c)} = {c \in Calls : Owed(c)}' \cup {list[k] : k \in DOMAIN list}
      <3>1. \A c \in Calls : Owed(c) <=> Listed(todo, c) \/ c \in together
        BY <1>1, NothingListed DEF Owed
      <3>2. \A c \in Calls : Owed(c)' <=> Listed(todo, c)
        BY <1>1, <1>7, NothingListed DEF Owed, Listed
      <3>3. {list[k] : k \in DOMAIN list} = together /\ together \subseteq Calls
        BY <1>2 DEF CallsInv, CallTypes
      <3> QED
        BY <3>1, <3>2, <3>3
    <2>2. PairedBut(context, {c \in Calls : Owed(c)})
      BY <1>1, <1>7 DEF PairInv, RoundInv
    <2>3. {c \in Calls : Owed(c)}' \in SUBSET Calls
      BY DEF Calls
    <2> QED
      BY <1>6, <2>1, <2>2, <2>3
  <1>8. RoundInv'
    BY <1>1, <1>7 DEF RoundInv
  <1> QED
    BY <1>1, <1>3, <1>6, <1>8, ContextNew

\* A serial call gives its result.
LEMMA SerialPairs ==
    ASSUME CallsInv, PairInv, NEW stop \in BOOLEAN, RunSerial(stop)
    PROVE  PairInv'
  <1> DEFINE list == <<Head(todo)>>
  <1>1. /\ where = "serial" /\ pending = <<>> /\ pending' = <<>> /\ together = {}
        /\ todo # <<>> /\ context' = Append(context, Said("tool", {Head(todo)}))
        /\ todo' = Tail(todo) /\ amended' = stop /\ together' = {}
        /\ where' = (IF stop THEN "ending" ELSE "serial")
        /\ UNCHANGED <<kind, resumed, spoken>>
    BY DEF RunSerial, CallsInv, CallsPlaced
  <1>2. Head(todo) \in Calls /\ Listed(todo, Head(todo)) /\ Unspent(Head(todo))
    BY <1>1, RestFacts DEF CallsInv, CallTypes, CallsOnce, Listed
  <1>3. context \in Seq(Message) /\ spoken \in BOOLEAN
    BY DEF PairInv, PairTypes
  <1>4. Given(context, list, context') /\ list \in Seq(Calls)
    BY <1>1, <1>2, GivenOne
  <1>5. /\ DOMAIN list = {1} /\ list[1] = Head(todo)
        /\ {list[k] : k \in DOMAIN list} = {Head(todo)}
    OBVIOUS
  <1> HIDE DEF list
  <1>6. \A c \in Calls : /\ Listed(todo', c) => Listed(todo, c) /\ c # Head(todo)
                         /\ Listed(todo, c) /\ c # Head(todo) => Listed(todo', c)
    <2>1. /\ \A i \in DOMAIN todo' : /\ todo'[i] # Head(todo)
                                     /\ \E j \in DOMAIN todo : todo'[i] = todo[j]
          /\ todo[1] = Head(todo) /\ todo \in Seq(Calls)
      BY <1>1, RestFacts DEF CallsInv, CallTypes, CallsOnce
    <2>2. \A j \in DOMAIN todo : j = 1 \/ (j - 1 \in DOMAIN todo' /\ todo'[j - 1] = todo[j])
      BY <1>1, <2>1
    <2> QED
      BY <2>1, <2>2 DEF Listed
  <1>7. /\ \A k \in DOMAIN list : Owed(list[k]) /\ kind[list[k]] # "none"
        /\ \A c \in Calls : Owed(c)' => Owed(c)
    BY <1>1, <1>2, <1>5, <1>6, NothingListed DEF Owed, Unspent, Listed
  <1>8. /\ context' \in Seq(Message) /\ InPlace(context)' /\ MadeInv'
        /\ \A c \in Calls : Owed(c)' => OnlyLast(context, c)'
        /\ \A owed \in SUBSET Calls :
                 PairedBut(context, owed \cup {list[k] : k \in DOMAIN list})
                 => PairedBut(context', owed)
    BY <1>1, <1>4, <1>7, ResultsJoin
  <1>9. ASSUME ~stop, ~resumed
        PROVE  PairedBut(context', {c \in Calls : Owed(c)}')
    <2>1. {c \in Calls : Owed(c)} = {c \in Calls : Owed(c)}' \cup {list[k] : k \in DOMAIN list}
      <3>1. \A c \in Calls : Owed(c) <=> Listed(todo, c)
        BY <1>1, NothingListed DEF Owed
      <3>2. \A c \in Calls : Owed(c)' <=> Listed(todo', c)
        BY <1>1, <1>9, NothingListed DEF Owed, Listed
      <3> QED
        BY <1>2, <1>5, <1>6, <3>1, <3>2
    <2>2. PairedBut(context, {c \in Calls : Owed(c)})
      BY <1>1, <1>9 DEF PairInv, RoundInv
    <2>3. {c \in Calls : Owed(c)}' \in SUBSET Calls
      BY DEF Calls
    <2> QED
      BY <1>8, <2>1, <2>2, <2>3
  <1>10. RoundInv'
    BY <1>1, <1>9 DEF RoundInv
  <1> QED
    BY <1>1, <1>3, <1>8, <1>10, ContextNew

\* The end of a round, and of a turn.
LEMMA EndPairs ==
    ASSUME CallsInv, PairInv,
           \/ NextRound \/ ForceAnswer \/ EndTurn \/ Interrupt
           \/ \E text \in BOOLEAN : Forced(text)
    PROVE  PairInv'
  <1>1. CASE NextRound
    <2>1. /\ where = "serial" /\ todo = <<>> /\ pending = <<>> /\ together = {}
          /\ where' = "round"
          /\ UNCHANGED <<context, kind, pending, resumed, amended, spoken>>
      BY <1>1 DEF NextRound, turnVars, CallsInv, CallsPlaced
    <2>2. \A c \in Calls : ~Owed(c) /\ ~Owed(c)'
      BY <2>1, NothingListed DEF Owed, Listed
    <2>3. {c \in Calls : Owed(c)} = {}
      BY <2>2
    <2>4. ~resumed => PairedBut(context, {})
      BY <2>1, <2>3 DEF PairInv, RoundInv
    <2>5. RoundInv'
      BY <2>1, <2>4 DEF RoundInv
    <2> QED
      BY <2>1, <2>2, <2>5, ContextKept DEF PairInv, PairTypes
  <1>2. CASE ForceAnswer
    <2>1. /\ where = "ending" /\ where' = "forced" /\ ~spoken
          /\ UNCHANGED <<context, kind, pending, resumed, amended, spoken>>
      BY <1>2 DEF ForceAnswer, NeedsAnswer, turnVars
    <2>2. pending = <<>>
      BY <2>1 DEF PairInv, RoundInv
    <2>3. \A c \in Calls : ~Owed(c)'
      BY <2>1, <2>2, NothingListed DEF Owed, Listed
    <2>4. RoundInv'
      BY <2>1, <2>2 DEF PairInv, RoundInv
    <2> QED
      BY <2>1, <2>3, <2>4, ContextKept DEF PairInv, PairTypes
  <1>3. ASSUME NEW text \in BOOLEAN, Forced(text)
        PROVE  PairInv'
    <2>1. /\ where = "forced" /\ pending = <<>> /\ pending' = <<>> /\ where' = "ending"
          /\ spoken' = text /\ UNCHANGED <<kind, resumed, amended>>
          /\ context' \in {context, Append(context, Said("assistant", {}))}
          /\ ~resumed /\ ~amended => PairedBut(context, {})
      BY <1>3 DEF Forced, PairInv, RoundInv
    <2>2. \A c \in Calls : ~Owed(c)'
      BY <2>1, NothingListed DEF Owed
    <2>3. CASE context' = context
      <3>1. RoundInv'
        BY <2>1, <2>3 DEF RoundInv
      <3> QED
        BY <2>1, <2>2, <2>3, <3>1, ContextKept DEF PairInv, PairTypes
    <2>4. CASE context' = Append(context, Said("assistant", {}))
      <3>1. context \in Seq(Message) /\ InPlace(context)
        BY DEF PairInv, PairTypes
      <3>2. /\ Append(context, Said("assistant", {})) \in Seq(Message)
            /\ InPlace(Append(context, Said("assistant", {})))
            /\ \A i \in DOMAIN Append(context, Said("assistant", {})) :
                  \/ i \in DOMAIN context /\ Append(context, Said("assistant", {}))[i] = context[i]
                  \/ i \notin DOMAIN context /\ Append(context, Said("assistant", {}))[i].ids = {}
            /\ PairedBut(context, {}) => PairedBut(Append(context, Said("assistant", {})), {})
        BY <3>1, AppendMessage
      <3>3. MadeInv'
        BY <2>1, <2>4, <3>2 DEF PairInv, MadeInv
      <3>4. RoundInv'
        BY <2>1, <2>4, <3>2 DEF RoundInv
      <3> QED
        BY <2>1, <2>2, <2>4, <3>2, <3>3, <3>4, ContextNew DEF PairInv, PairTypes
    <2> QED
      BY <2>1, <2>3, <2>4
  <1>4. CASE EndTurn
    <2>1. /\ context' = Pruned(context) /\ where' = "idle"
          /\ UNCHANGED <<kind, pending, amended, spoken>>
      BY <1>4 DEF EndTurn, turnVars
    <2>2. /\ context' \in Seq(Message) /\ InPlace(context') /\ IdsKept(context', context)
          /\ \A c \in Calls : OnlyLast(context, c) => OnlyLast(context', c)
      BY <2>1, PrunedFacts DEF PairInv, PairTypes
    <2>3. \A c \in Calls : Owed(c)' => OnlyLast(context', c)
      BY <2>1, <2>2 DEF PairInv, OwedInv, Owed, Listed
    <2>4. MadeInv'
      BY <2>1, <2>2, MadeKept DEF PairInv
    <2>5. RoundInv'
      BY <2>1 DEF RoundInv
    <2> QED
      BY <2>1, <2>2, <2>3, <2>4, <2>5, ContextNew DEF PairInv, PairTypes
  <1>5. CASE Interrupt
    <2>1. /\ where' = "idle" /\ UNCHANGED <<context, kind, pending, amended, spoken>>
      BY <1>5 DEF Interrupt, turnVars
    <2>2. \A c \in Calls : Owed(c)' => Owed(c)
      BY <2>1 DEF Owed, Listed
    <2>3. RoundInv'
      BY <2>1 DEF RoundInv
    <2> QED
      BY <2>1, <2>2, <2>3, ContextKept DEF PairInv, PairTypes
  <1> QED
    BY <1>1, <1>2, <1>3, <1>4, <1>5

\* Every step of a conversation keeps its context paired but for what is owed.
LEMMA PairStep ==
    ASSUME CallsInv, PairInv, [LoopNext]_loopVars
    PROVE  PairInv'
  <1>1. CASE UNCHANGED loopVars
    BY <1>1 DEF loopVars, turnVars, PairInv, PairTypes, OwedInv, MadeInv, RoundInv, Owed, Listed
  <1>2. CASE LoopNext
    BY <1>2, UserMessagePairs, ConfirmationPairs, RunConfirmedPairs, RoundPairs,
       RespondPairs, ParallelPairs, SerialPairs, EndPairs DEF LoopNext
  <1> QED
    BY <1>1, <1>2

\* For any number of turns, calls and rounds: whatever earlier turns left behind,
\* and wherever errors, amendments and confirmations ended them, the model is asked
\* with a context in which every call has its result; but for the two cases that
\* RequestsArePaired names, in which the code breaks it.
THEOREM PairingSound == LoopSpec => []RequestsArePaired
  <1>1. PairInv => RequestsArePaired
    <2> SUFFICES ASSUME PairInv PROVE RequestsArePaired
      OBVIOUS
    <2>1. PairedBut(context, {}) => Paired
      BY PairedMeans DEF PairInv, PairTypes
    <2> QED
      BY <2>1 DEF PairInv, RoundInv, RequestsArePaired
  <1>2. CallsInv /\ PairInv /\ [LoopNext]_loopVars => PairInv'
    BY PairStep
  <1> QED
    BY <1>1, <1>2, PairInit, CallsInvariant, PTL DEF LoopSpec

=============================================================================
