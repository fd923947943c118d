-------------------------- MODULE AlertRunsProofs --------------------------
(***************************************************************************)
(* Proofs about AlertRuns and the modules it composes, for any number of   *)
(* callers, providers, channels, symbols and attempts, and any room in the *)
(* semaphores.                                                             *)
(***************************************************************************)
EXTENDS AlertRuns, FiniteSetTheorems, SequenceTheorems, TLAPS

-----------------------------------------------------------------------------
(* The semaphores                                                          *)

Holding(c) == call[c] # NoCall /\ call[c].at \in Inside

(* A step that concerns the caller alone: it does not wait for a place,    *)
(* and holds one after it if and only if it did before.                    *)
Local(c, k) ==
  /\ call' = [call EXCEPT ![c] = k]
  /\ UNCHANGED <<inUse, waiting>>
  /\ ~At(c, "wait") /\ (k # NoCall => k.at # "wait")
  /\ Holding(c) <=> k # NoCall /\ k.at \in Inside
  /\ Holding(c) => k.provider = call[c].provider

(* GetKline's steps either concern the caller alone, or take a place, or   *)
(* join or leave the line, or give a place back.                           *)
LEMMA MarketCases ==
  ASSUME MarketTypeOK, AnswersInv, NEW c \in Callers, MarketStep(c)
  PROVE  \/ \E k \in Calls : Local(c, k)
         \/ Enter(c) \/ QueueUp(c) \/ GiveUpWaiting(c)
         \/ Holding(c) /\ \E got \in SUBSET Opens : Finish(c, got)
<1> USE NoCallAssumption DEF At, Holding, Inside
<1> DEFINE back == [call[c] EXCEPT !.at = "returned", !.got = {}]
           asleep == [call[c] EXCEPT !.at = "sleep"]
           again == [call[c] EXCEPT !.at = "request",
                                    !.attempt = call[c].attempt + 1]
<1>1. call[c] # NoCall /\ call[c] \in Calls
  BY DEF MarketStep, MarketTypeOK, RefuseSymbol, Enter, QueueUp, MayEnter,
         GiveUpEntering, GiveUpWaiting, RefuseUnmapped, RequestSucceeds,
         RequestFails, RequestRefused, Wake, GiveUpSleeping, Asking
<1>2. back \in Calls /\ asleep \in Calls
  BY <1>1 DEF Calls
<1>3. CASE RefuseSymbol(c) \/ GiveUpEntering(c)
  <2>1. Local(c, back)
    BY <1>1, <1>2, <1>3
       DEF RefuseSymbol, GiveUpEntering, MayEnter, ReturnError, Returned,
           Local, Calls
  <2> QED BY <1>2, <2>1
<1>4. CASE RequestFails(c) /\ ~LastAttempt(call[c].attempt)
  <2>1. Local(c, asleep)
    BY <1>1, <1>2, <1>4 DEF RequestFails, Asking, Local, Calls
  <2> QED BY <1>2, <2>1
<1>5. CASE RequestFails(c) /\ LastAttempt(call[c].attempt)
  BY <1>1, <1>5 DEF RequestFails, Asking
<1>6. CASE Wake(c)
  <2>1. call[c].attempt + 1 \in 1..MaxAttempts
    BY <1>1, <1>6, OutboundAssumption
       DEF Wake, AnswersInv, AnswersOf, Calls
  <2>2. /\ again \in Calls
        /\ again.at = "request" /\ again.provider = call[c].provider
    BY <1>1, <2>1 DEF Calls
  <2>3. /\ call' = [call EXCEPT ![c] = again]
        /\ UNCHANGED <<inUse, waiting>>
    BY <1>1, <1>6 DEF Wake, Calls, MarketTypeOK
  <2>4. Local(c, again)
    BY <1>6, <2>2, <2>3 DEF Wake, Local
  <2> QED BY <2>2, <2>4
<1>7. CASE RefuseUnmapped(c) \/ RequestRefused(c) \/ GiveUpSleeping(c)
  BY <1>1, <1>7 DEF RefuseUnmapped, RequestRefused, GiveUpSleeping, Asking
<1>8. CASE RequestSucceeds(c)
  <2>1. \A o \in Answerable(call[c].provider, call[c].period) :
          {o} \in SUBSET Opens
    BY DEF Answerable
  <2> QED BY <1>1, <1>8, <2>1 DEF RequestSucceeds, Asking
<1> QED BY <1>3, <1>4, <1>5, <1>6, <1>7, <1>8 DEF MarketStep

(* The first in line waits for this place and is not its holder.           *)
LEMMA HeadFacts ==
  ASSUME MarketTypeOK, QueueInv, NEW p \in Providers, waiting[p] # <<>>
  PROVE  /\ Head(waiting[p]) = waiting[p][1] /\ 1 \in DOMAIN waiting[p]
         /\ Head(waiting[p]) \in Callers
         /\ At(Head(waiting[p]), "wait")
         /\ call[Head(waiting[p])].provider = p
<1>1. waiting[p] \in Seq(Callers)
  BY DEF MarketTypeOK
<1>2. /\ Head(waiting[p]) = waiting[p][1] /\ 1 \in DOMAIN waiting[p]
      /\ Head(waiting[p]) \in Callers
  BY <1>1, EmptySeq, LenProperties, HeadTailProperties
<1> QED BY <1>2 DEF QueueInv, Lines, Waiters, WaitsFor

(* The holders of a place are finitely many, and a holder is counted.      *)
LEMMA HoldersFinite ==
  ASSUME NEW p \in Providers
  PROVE  /\ IsFiniteSet(Holders(p)) /\ Cardinality(Holders(p)) \in Nat
         /\ \A c \in Holders(p) : Cardinality(Holders(p)) > 0
<1>1. Holders(p) \subseteq Callers /\ IsFiniteSet(Callers)
  BY MarketAssumption DEF Holders
<1>2. IsFiniteSet(Holders(p))
  BY <1>1, FS_Subset
<1>3. Cardinality(Holders(p)) \in Nat
  BY <1>2, FS_CardinalityType
<1>4. \A c \in Holders(p) : Cardinality(Holders(p)) # 0
  BY <1>2, FS_EmptySet
<1> QED BY <1>2, <1>3, <1>4

(* A call that goes on keeps what it is for.                               *)
LEMMA AtRequest ==
  ASSUME NEW k \in Calls
  PROVE  /\ [k EXCEPT !.at = "request"] \in Calls
         /\ [k EXCEPT !.at = "request"].at = "request"
         /\ [k EXCEPT !.at = "request"].provider = k.provider
         /\ [k EXCEPT !.at = "request"].attempt = k.attempt
BY DEF Calls, Inside

(* With r the call of c that has returned: the place becomes free, or is   *)
(* handed to the first in line.                                            *)
FreeOrHandOver(c, p, r) ==
  /\ r.at = "returned" /\ r.provider = p
  /\ \/ /\ waiting[p] = <<>> /\ UNCHANGED waiting
        /\ inUse[p] > 0
        /\ inUse' = [inUse EXCEPT ![p] = inUse[p] - 1]
        /\ call' = [call EXCEPT ![c] = r]
     \/ \E d \in Callers \ {c}, w \in Calls :
          /\ waiting[p] # <<>> /\ d = Head(waiting[p])
          /\ At(d, "wait") /\ call[d].provider = p
          /\ w.at = "request" /\ w.provider = p
          /\ w.attempt = call[d].attempt
          /\ call' = [call EXCEPT ![c] = r, ![d] = w]
          /\ waiting' = [waiting EXCEPT ![p] = Tail(waiting[p])]
          /\ UNCHANGED inUse

LEMMA FinishFacts ==
  ASSUME MarketTypeOK, QueueInv, PlaceInv, NEW c \in Callers, Holding(c),
         NEW got \in SUBSET Opens, Finish(c, got),
         NEW p, p = call[c].provider
  PROVE  p \in Providers /\ \E r \in Calls : FreeOrHandOver(c, p, r)
<1> DEFINE r == [call[c] EXCEPT !.at = "returned", !.got = got]
<1>1. call[c] # NoCall /\ call[c] \in Calls /\ p \in Providers
  BY DEF Holding, MarketTypeOK, Calls
<1>2. r \in Calls /\ r.at = "returned" /\ r.provider = p
  BY <1>1 DEF Calls
<1>3. CASE waiting[p] = <<>>
  <2>1. c \in Holders(p)
    BY <1>1 DEF Holding, Holders, Holds
  <2>2. inUse[p] > 0
    BY <1>1, <2>1, HoldersFinite DEF PlaceInv, PlaceOf
  <2>3. /\ inUse' = [inUse EXCEPT ![p] = inUse[p] - 1] /\ UNCHANGED waiting
        /\ call' = [call EXCEPT ![c] = r]
    BY <1>3 DEF Finish, Returned
  <2> HIDE DEF r
  <2> QED BY <1>1, <1>2, <1>3, <2>2, <2>3 DEF FreeOrHandOver
<1>4. CASE waiting[p] # <<>>
  <2> DEFINE d == Head(waiting[p])
             w == [call[d] EXCEPT !.at = "request"]
  <2>1. d \in Callers /\ At(d, "wait") /\ call[d].provider = p
    BY <1>1, <1>4, HeadFacts
  <2>2. d # c
    BY <2>1 DEF At, Holding, Inside
  <2>3. call[d] \in Calls
    BY <2>1 DEF At, MarketTypeOK
  <2>4. /\ w \in Calls /\ w.at = "request" /\ w.provider = p
        /\ w.attempt = call[d].attempt
    BY <2>1, <2>3, AtRequest
  <2>5. waiting' = [waiting EXCEPT ![p] = Tail(waiting[p])]
    BY <1>4 DEF Finish
  <2>55. UNCHANGED inUse
    BY <1>4 DEF Finish
  <2>6. call' = [Returned(c, got) EXCEPT ![d].at = "request"]
    BY <1>4 DEF Finish
  <2>7. Returned(c, got) = [call EXCEPT ![c] = r]
    BY DEF Returned
  <2>8. Returned(c, got)[d] = call[d]
    BY <2>1, <2>2, <2>7 DEF MarketTypeOK
  <2>9. call' = [[call EXCEPT ![c] = r] EXCEPT ![d] = w]
    BY <2>6, <2>7, <2>8
  <2> HIDE DEF r, d, w
  <2> QED BY <1>1, <1>2, <1>4, <2>1, <2>2, <2>4, <2>5, <2>55, <2>9
          DEF d, FreeOrHandOver
<1> QED BY <1>3, <1>4

(* What a step does to the semaphores and the calls.                       *)
SlotStep(c) ==
  \/ \E k \in Calls \cup {NoCall} : Local(c, k)
  \/ Enter(c) \/ QueueUp(c) \/ GiveUpWaiting(c)
  \/ Holding(c) /\ \E got \in SUBSET Opens : Finish(c, got)

LEMMA SlotCases ==
  ASSUME TypeOK, AnswersInv, [Next]_vars
  PROVE  \/ UNCHANGED <<inUse, waiting, call>>
         \/ \E c \in Callers : SlotStep(c)
<1> USE DEF marketVars, TypeOK
<1>1. ASSUME NEW c \in Callers, MarketStep(c) PROVE SlotStep(c)
  BY <1>1, MarketCases DEF SlotStep
<1>2. ASSUME NEW c \in Callers, FetchSymbol(c) PROVE SlotStep(c)
  <2>1. /\ run[c] \in Runs
        /\ \E s \in run[c].todo :
             GetKline(c, run[c].provider, s, run[c].period)
    BY <1>2 DEF FetchSymbol, RunAt
  <2>2. PICK s \in run[c].todo :
          GetKline(c, run[c].provider, s, run[c].period)
    BY <2>1
  <2> DEFINE k == [provider |-> run[c].provider, symbol |-> s,
                   period |-> run[c].period, at |-> "enter",
                   attempt |-> 1, got |-> {}]
  <2>3. /\ run[c].provider \in Providers /\ run[c].period \in Periods
        /\ s \in Symbols
    BY <2>1 DEF Runs
  <2>4. k \in Calls /\ k.at = "enter"
    BY <2>3, OutboundAssumption DEF Calls
  <2>5. call[c] = NoCall /\ call' = [call EXCEPT ![c] = k]
        /\ UNCHANGED <<inUse, waiting>>
    BY <2>2 DEF GetKline
  <2> HIDE DEF k
  <2>6. Local(c, k)
    BY <2>4, <2>5 DEF Local, At, Holding, Inside
  <2> QED BY <2>4, <2>6 DEF SlotStep
<1>3. ASSUME NEW c \in Callers, RecordResult(c) PROVE SlotStep(c)
  <2>1. Local(c, NoCall)
    BY <1>3 DEF RecordResult, Take, Local, At, Holding, Inside
  <2> QED BY <2>1 DEF SlotStep
<1> QED
  BY <1>1, <1>2, <1>3
     DEF Next, vars, RunAlert, Round, Begin, Proceed, DeliveryStep,
         BuildMessage, Notify, RecordVerdict, Answer, End, ClientLeaves

(* A sequence without its i-th member.                                     *)
LEMMA RemoveFacts ==
  ASSUME NEW S, NEW s \in Seq(S), NEW i \in 1..Len(s)
  PROVE  /\ RemoveAt(s, i) \in Seq(S)
         /\ Len(RemoveAt(s, i)) = Len(s) - 1
         /\ \A j \in 1..(Len(s) - 1) :
              RemoveAt(s, i)[j] = IF j < i THEN s[j] ELSE s[j + 1]
<1> DEFINE a == SubSeq(s, 1, i - 1)
           b == SubSeq(s, i + 1, Len(s))
<1>1. Len(s) \in Nat /\ \A j \in 1..Len(s) : s[j] \in S
  BY LenProperties, ElementOfSeq
<1>2. /\ a \in Seq(S) /\ Len(a) = i - 1
      /\ \A j \in 1..(i - 1) : a[j] = s[j]
  <2>1. /\ 1 \in Int /\ i - 1 \in Int
        /\ \A j \in 1..(i - 1) : s[j] \in S
    BY <1>1
  <2>2. /\ a \in Seq(S)
        /\ Len(a) = IF 1 <= i - 1 THEN (i - 1) - 1 + 1 ELSE 0
        /\ \A j \in 1..((i - 1) - 1 + 1) : a[j] = s[1 + j - 1]
    BY <2>1, SubSeqProperties
  <2> HIDE DEF a
  <2> QED BY <2>2
<1>3. /\ b \in Seq(S) /\ Len(b) = Len(s) - i
      /\ \A j \in 1..(Len(s) - i) : b[j] = s[i + j]
  <2>1. /\ i + 1 \in Int /\ Len(s) \in Int
        /\ \A j \in (i + 1)..Len(s) : s[j] \in S
    BY <1>1
  <2>2. /\ b \in Seq(S)
        /\ Len(b) = IF i + 1 <= Len(s) THEN Len(s) - (i + 1) + 1 ELSE 0
        /\ \A j \in 1..(Len(s) - (i + 1) + 1) : b[j] = s[(i + 1) + j - 1]
    BY <2>1, SubSeqProperties
  <2> HIDE DEF b
  <2> QED BY <1>1, <2>2
<1> HIDE DEF a, b
<1>4. /\ a \o b \in Seq(S) /\ Len(a \o b) = Len(a) + Len(b)
      /\ \A j \in 1..(Len(a) + Len(b)) :
           (a \o b)[j] = IF j <= Len(a) THEN a[j] ELSE b[j - Len(a)]
  BY <1>2, <1>3, ConcatProperties
<1>5. RemoveAt(s, i) = a \o b
  BY DEF RemoveAt, a, b
<1>6. ASSUME NEW j \in 1..(Len(s) - 1)
      PROVE  (a \o b)[j] = IF j < i THEN s[j] ELSE s[j + 1]
  <2>1. CASE j < i
    BY <1>1, <1>2, <1>3, <1>4, <2>1
  <2>2. CASE ~(j < i)
    <3>1. j - (i - 1) \in 1..(Len(s) - i) /\ i + (j - (i - 1)) = j + 1
      BY <1>1, <2>2
    <3>2. b[j - (i - 1)] = s[j + 1]
      BY <1>3, <3>1
    <3>3. (a \o b)[j] = b[j - (i - 1)]
      BY <1>1, <1>2, <1>3, <1>4, <2>2
    <3> QED BY <2>2, <3>2, <3>3
  <2> QED BY <2>1, <2>2
<1>7. Len(a) + Len(b) = Len(s) - 1
  BY <1>1, <1>2, <1>3
<1> QED BY <1>4, <1>5, <1>6, <1>7

(* What taking a place, joining and leaving the line change.               *)
LEMMA EnterFacts ==
  ASSUME MarketTypeOK, NEW c \in Callers, Enter(c),
         NEW p, p = call[c].provider
  PROVE  /\ p \in Providers /\ At(c, "enter")
         /\ inUse[p] # Concurrency /\ UNCHANGED waiting
         /\ inUse' = [inUse EXCEPT ![p] = inUse[p] + 1]
         /\ \E k \in Calls :
              /\ k.at = "request" /\ k.provider = p
              /\ k.attempt = call[c].attempt
              /\ call' = [call EXCEPT ![c] = k]
<1> DEFINE k == [call[c] EXCEPT !.at = "request"]
<1>1. At(c, "enter") /\ call[c] \in Calls
  BY DEF Enter, MayEnter, At, MarketTypeOK
<1>2. /\ p \in Providers /\ k \in Calls /\ k.at = "request"
      /\ k.provider = p /\ k.attempt = call[c].attempt
  BY <1>1, AtRequest DEF Calls
<1>3. /\ inUse[p] # Concurrency /\ UNCHANGED waiting
      /\ inUse' = [inUse EXCEPT ![p] = inUse[p] + 1]
      /\ call' = [call EXCEPT ![c] = k]
  BY DEF Enter, Full
<1> HIDE DEF k
<1> QED BY <1>1, <1>2, <1>3

LEMMA QueueUpFacts ==
  ASSUME MarketTypeOK, NEW c \in Callers, QueueUp(c),
         NEW p, p = call[c].provider
  PROVE  /\ p \in Providers /\ At(c, "enter")
         /\ inUse[p] = Concurrency /\ UNCHANGED inUse
         /\ waiting' = [waiting EXCEPT ![p] = Append(waiting[p], c)]
         /\ \E k \in Calls :
              /\ k.at = "wait" /\ k.provider = p
              /\ k.attempt = call[c].attempt
              /\ call' = [call EXCEPT ![c] = k]
<1> DEFINE k == [call[c] EXCEPT !.at = "wait"]
<1>1. At(c, "enter") /\ call[c] \in Calls
  BY DEF QueueUp, MayEnter, At, MarketTypeOK
<1>2. /\ p \in Providers /\ k \in Calls /\ k.at = "wait"
      /\ k.provider = p /\ k.attempt = call[c].attempt
  BY <1>1 DEF Calls
<1>3. /\ inUse[p] = Concurrency /\ UNCHANGED inUse
      /\ waiting' = [waiting EXCEPT ![p] = Append(waiting[p], c)]
      /\ call' = [call EXCEPT ![c] = k]
  BY DEF QueueUp, Full
<1> HIDE DEF k
<1> QED BY <1>1, <1>2, <1>3

LEMMA GiveUpFacts ==
  ASSUME MarketTypeOK, NEW c \in Callers, GiveUpWaiting(c),
         NEW p, p = call[c].provider
  PROVE  /\ p \in Providers /\ At(c, "wait") /\ UNCHANGED inUse
         /\ \E i \in 1..Len(waiting[p]) :
              /\ waiting[p][i] = c
              /\ waiting' = [waiting EXCEPT ![p] = RemoveAt(waiting[p], i)]
         /\ \E k \in Calls :
              /\ k.at = "returned" /\ k.provider = p
              /\ call' = [call EXCEPT ![c] = k]
<1> DEFINE k == [call[c] EXCEPT !.at = "returned", !.got = {}]
<1>1. At(c, "wait") /\ call[c] \in Calls
  BY DEF GiveUpWaiting, At, MarketTypeOK
<1>2. /\ p \in Providers /\ k \in Calls /\ k.at = "returned"
      /\ k.provider = p
  BY <1>1 DEF Calls
<1>3. /\ UNCHANGED inUse
      /\ \E i \in DOMAIN waiting[p] :
              /\ waiting[p][i] = c
              /\ waiting' = [waiting EXCEPT ![p] = RemoveAt(waiting[p], i)]
      /\ call' = [call EXCEPT ![c] = k]
  BY DEF GiveUpWaiting, Returned
<1>4. DOMAIN waiting[p] = 1..Len(waiting[p])
  BY <1>2, LenProperties DEF MarketTypeOK
<1> HIDE DEF k
<1> QED BY <1>1, <1>2, <1>3, <1>4

(* The types of the semaphores and the calls.                              *)
LEMMA SlotTypes ==
  ASSUME TypeOK, AnswersInv, QueueInv, PlaceInv, [Next]_vars
  PROVE  /\ inUse' \in [Providers -> Nat]
         /\ waiting' \in [Providers -> Seq(Callers)]
         /\ call' \in [Callers -> Calls \cup {NoCall}]
<1>1. /\ MarketTypeOK
      /\ inUse \in [Providers -> Nat]
      /\ waiting \in [Providers -> Seq(Callers)]
      /\ call \in [Callers -> Calls \cup {NoCall}]
  BY DEF TypeOK, MarketTypeOK
<1>2. ASSUME NEW c \in Callers, NEW k \in Calls \cup {NoCall}, Local(c, k)
      PROVE  /\ inUse' = inUse /\ waiting' = waiting
             /\ call' \in [Callers -> Calls \cup {NoCall}]
  BY <1>1, <1>2 DEF Local
<1>3. ASSUME NEW c \in Callers, Enter(c)
      PROVE  /\ inUse' \in [Providers -> Nat] /\ waiting' = waiting
             /\ call' \in [Callers -> Calls \cup {NoCall}]
  <2>1. PICK p : p = call[c].provider
    OBVIOUS
  <2>2. /\ p \in Providers /\ UNCHANGED waiting
        /\ inUse' = [inUse EXCEPT ![p] = inUse[p] + 1]
        /\ \E k \in Calls : call' = [call EXCEPT ![c] = k]
    BY <1>1, <1>3, <2>1, EnterFacts
  <2> QED BY <1>1, <2>2
<1>4. ASSUME NEW c \in Callers, QueueUp(c)
      PROVE  /\ inUse' = inUse
             /\ waiting' \in [Providers -> Seq(Callers)]
             /\ call' \in [Callers -> Calls \cup {NoCall}]
  <2>1. PICK p : p = call[c].provider
    OBVIOUS
  <2>2. /\ p \in Providers /\ UNCHANGED inUse
        /\ waiting' = [waiting EXCEPT ![p] = Append(waiting[p], c)]
        /\ \E k \in Calls : call' = [call EXCEPT ![c] = k]
    BY <1>1, <1>4, <2>1, QueueUpFacts
  <2>3. Append(waiting[p], c) \in Seq(Callers)
    BY <1>1, <2>2, AppendProperties
  <2> QED BY <1>1, <2>2, <2>3
<1>5. ASSUME NEW c \in Callers, GiveUpWaiting(c)
      PROVE  /\ inUse' = inUse
             /\ waiting' \in [Providers -> Seq(Callers)]
             /\ call' \in [Callers -> Calls \cup {NoCall}]
  <2>1. PICK p \in Providers, k \in Calls :
          /\ UNCHANGED inUse
          /\ call' = [call EXCEPT ![c] = k]
          /\ \E i \in 1..Len(waiting[p]) :
               waiting' = [waiting EXCEPT ![p] = RemoveAt(waiting[p], i)]
    BY <1>1, <1>5, GiveUpFacts
  <2>2. \A i \in 1..Len(waiting[p]) : RemoveAt(waiting[p], i) \in Seq(Callers)
    BY <1>1, RemoveFacts
  <2> QED BY <1>1, <2>1, <2>2
<1>6. ASSUME NEW c \in Callers, Holding(c), NEW got \in SUBSET Opens,
             Finish(c, got)
      PROVE  /\ inUse' \in [Providers -> Nat]
             /\ waiting' \in [Providers -> Seq(Callers)]
             /\ call' \in [Callers -> Calls \cup {NoCall}]
  <2>1. PICK p : p = call[c].provider
    OBVIOUS
  <2>2. p \in Providers
    BY <1>1, <1>6, <2>1, FinishFacts
  <2>3. PICK r \in Calls : FreeOrHandOver(c, p, r)
    BY <1>1, <1>6, <2>1, FinishFacts
  <2>4. CASE waiting[p] = <<>>
    <3>1. /\ inUse[p] > 0 /\ inUse' = [inUse EXCEPT ![p] = inUse[p] - 1]
          /\ UNCHANGED waiting /\ call' = [call EXCEPT ![c] = r]
      BY <2>3, <2>4 DEF FreeOrHandOver
    <3>2. inUse[p] - 1 \in Nat
      BY <1>1, <2>2, <3>1
    <3> QED BY <1>1, <3>1, <3>2
  <2>5. CASE waiting[p] # <<>>
    <3>1. Tail(waiting[p]) \in Seq(Callers)
      BY <1>1, <2>2, <2>5, HeadTailProperties
    <3>2. PICK d \in Callers \ {c}, w \in Calls :
            call' = [call EXCEPT ![c] = r, ![d] = w]
      BY <2>3, <2>5 DEF FreeOrHandOver
    <3>3. /\ waiting' = [waiting EXCEPT ![p] = Tail(waiting[p])]
          /\ UNCHANGED inUse
      BY <2>3, <2>5 DEF FreeOrHandOver
    <3> QED BY <1>1, <3>1, <3>2, <3>3
  <2> QED BY <2>4, <2>5
<1>7. CASE UNCHANGED <<inUse, waiting, call>>
  BY <1>1, <1>7
<1> QED BY <1>1, <1>2, <1>3, <1>4, <1>5, <1>6, <1>7, SlotCases DEF SlotStep

(* What that means for who waits and who holds a place.                    *)
SameWaiters ==
  \A e \in Callers, q \in Providers : WaitsFor(e, q)' <=> WaitsFor(e, q)

SameHolders ==
  \A e \in Callers, q \in Providers : Holds(e, q)' <=> Holds(e, q)

Kept == SameWaiters /\ SameHolders /\ UNCHANGED <<inUse, waiting>>

TookPlace(c, p) ==
  /\ SameWaiters /\ UNCHANGED waiting
  /\ inUse[p] # Concurrency /\ inUse' = [inUse EXCEPT ![p] = inUse[p] + 1]
  /\ ~Holds(c, p)
  /\ \A e \in Callers, q \in Providers :
       Holds(e, q)' <=> Holds(e, q) \/ (e = c /\ q = p)

Joined(c, p) ==
  /\ SameHolders /\ UNCHANGED inUse
  /\ inUse[p] = Concurrency
  /\ waiting' = [waiting EXCEPT ![p] = Append(waiting[p], c)]
  /\ ~WaitsFor(c, p)
  /\ \A e \in Callers, q \in Providers :
       WaitsFor(e, q)' <=> WaitsFor(e, q) \/ (e = c /\ q = p)

LeftLine(c, p) ==
  /\ SameHolders /\ UNCHANGED inUse
  /\ \E i \in 1..Len(waiting[p]) :
       /\ waiting[p][i] = c
       /\ waiting' = [waiting EXCEPT ![p] = RemoveAt(waiting[p], i)]
  /\ \A e \in Callers, q \in Providers :
       WaitsFor(e, q)' <=> WaitsFor(e, q) /\ ~(e = c /\ q = p)

GaveBack(c, p) ==
  /\ SameWaiters /\ UNCHANGED waiting
  /\ waiting[p] = <<>>
  /\ inUse' = [inUse EXCEPT ![p] = inUse[p] - 1]
  /\ Holds(c, p)
  /\ \A e \in Callers, q \in Providers :
       Holds(e, q)' <=> Holds(e, q) /\ ~(e = c /\ q = p)

HandedOver(c, d, p) ==
  /\ waiting[p] # <<>> /\ d = Head(waiting[p])
  /\ UNCHANGED inUse
  /\ waiting' = [waiting EXCEPT ![p] = Tail(waiting[p])]
  /\ Holds(c, p) /\ ~Holds(d, p)
  /\ \A e \in Callers, q \in Providers :
       /\ WaitsFor(e, q)' <=> WaitsFor(e, q) /\ ~(e = d /\ q = p)
       /\ Holds(e, q)' <=>
            \/ Holds(e, q) /\ ~(e = c /\ q = p)
            \/ e = d /\ q = p

Effect ==
  \/ Kept
  \/ \E c \in Callers, p \in Providers :
       \/ TookPlace(c, p) \/ Joined(c, p) \/ LeftLine(c, p)
       \/ GaveBack(c, p)
       \/ \E d \in Callers : HandedOver(c, d, p)

LEMMA SlotEffects ==
  ASSUME TypeOK, AnswersInv, QueueInv, PlaceInv, [Next]_vars
  PROVE  Effect
<1> USE NoCallAssumption DEF WaitsFor, Holds, At, Inside
<1>1. MarketTypeOK /\ call \in [Callers -> Calls \cup {NoCall}]
  BY DEF TypeOK, MarketTypeOK
<1>2. CASE UNCHANGED <<inUse, waiting, call>>
  BY <1>2 DEF Effect, Kept, SameWaiters, SameHolders
<1>3. ASSUME NEW c \in Callers, NEW k \in Calls \cup {NoCall}, Local(c, k)
      PROVE  Effect
  BY <1>1, <1>3
     DEF Local, Holding, Effect, Kept, SameWaiters, SameHolders
<1>4. ASSUME NEW c \in Callers, Enter(c) PROVE Effect
  <2>1. PICK p : p = call[c].provider
    OBVIOUS
  <2>2. /\ p \in Providers /\ At(c, "enter")
        /\ inUse[p] # Concurrency /\ UNCHANGED waiting
        /\ inUse' = [inUse EXCEPT ![p] = inUse[p] + 1]
        /\ \E k \in Calls : /\ k.at = "request" /\ k.provider = p
                            /\ call' = [call EXCEPT ![c] = k]
    BY <1>1, <1>4, <2>1, EnterFacts
  <2>3. TookPlace(c, p)
    BY <1>1, <2>1, <2>2 DEF TookPlace, SameWaiters
  <2> QED BY <2>2, <2>3 DEF Effect
<1>5. ASSUME NEW c \in Callers, QueueUp(c) PROVE Effect
  <2>1. PICK p : p = call[c].provider
    OBVIOUS
  <2>2. /\ p \in Providers /\ At(c, "enter")
        /\ inUse[p] = Concurrency /\ UNCHANGED inUse
        /\ waiting' = [waiting EXCEPT ![p] = Append(waiting[p], c)]
        /\ \E k \in Calls : /\ k.at = "wait" /\ k.provider = p
                            /\ call' = [call EXCEPT ![c] = k]
    BY <1>1, <1>5, <2>1, QueueUpFacts
  <2>3. Joined(c, p)
    BY <1>1, <2>1, <2>2 DEF Joined, SameHolders
  <2> QED BY <2>2, <2>3 DEF Effect
<1>6. ASSUME NEW c \in Callers, GiveUpWaiting(c) PROVE Effect
  <2>1. PICK p : p = call[c].provider
    OBVIOUS
  <2>2. /\ p \in Providers /\ At(c, "wait") /\ UNCHANGED inUse
        /\ \E i \in 1..Len(waiting[p]) :
             /\ waiting[p][i] = c
             /\ waiting' = [waiting EXCEPT ![p] = RemoveAt(waiting[p], i)]
        /\ \E k \in Calls : /\ k.at = "returned" /\ k.provider = p
                            /\ call' = [call EXCEPT ![c] = k]
    BY <1>1, <1>6, <2>1, GiveUpFacts
  <2>3. LeftLine(c, p)
    BY <1>1, <2>1, <2>2 DEF LeftLine, SameHolders
  <2> QED BY <2>2, <2>3 DEF Effect
<1>7. ASSUME NEW c \in Callers, Holding(c), NEW got \in SUBSET Opens,
             Finish(c, got)
      PROVE  Effect
  <2>1. PICK p : p = call[c].provider
    OBVIOUS
  <2>2. p \in Providers /\ Holds(c, p)
    BY <1>1, <1>7, <2>1, FinishFacts DEF Holding
  <2>3. PICK r \in Calls : FreeOrHandOver(c, p, r)
    BY <1>1, <1>7, <2>1, FinishFacts
  <2>4. CASE waiting[p] = <<>>
    <3>1. /\ r.at = "returned" /\ UNCHANGED waiting
          /\ inUse' = [inUse EXCEPT ![p] = inUse[p] - 1]
          /\ call' = [call EXCEPT ![c] = r]
      BY <2>3, <2>4 DEF FreeOrHandOver
    <3>2. GaveBack(c, p)
      BY <1>1, <2>1, <2>2, <2>4, <3>1 DEF GaveBack, SameWaiters
    <3> QED BY <2>2, <3>2 DEF Effect
  <2>5. CASE waiting[p] # <<>>
    <3>1. PICK d \in Callers \ {c}, w \in Calls :
            /\ d = Head(waiting[p])
            /\ At(d, "wait") /\ call[d].provider = p
            /\ w.at = "request" /\ w.provider = p
            /\ call' = [call EXCEPT ![c] = r, ![d] = w]
      BY <2>3, <2>5 DEF FreeOrHandOver
    <3>2. /\ waiting' = [waiting EXCEPT ![p] = Tail(waiting[p])]
          /\ UNCHANGED inUse /\ r.at = "returned"
      BY <2>3, <2>5 DEF FreeOrHandOver
    <3>3. /\ call'[c] = r /\ call'[d] = w
          /\ \A e \in Callers \ {c, d} : call'[e] = call[e]
      BY <1>1, <3>1
    <3>4. HandedOver(c, d, p)
      BY <1>1, <2>1, <2>2, <2>5, <3>1, <3>2, <3>3 DEF HandedOver
    <3> QED BY <2>2, <3>4 DEF Effect
  <2> QED BY <2>4, <2>5
<1> QED BY <1>1, <1>2, <1>3, <1>4, <1>5, <1>6, <1>7, SlotCases DEF SlotStep

(* A line as a line of callers.                                            *)
LEMMA LineFacts ==
  ASSUME MarketTypeOK, NEW p \in Providers
  PROVE  /\ waiting[p] \in Seq(Callers) /\ Len(waiting[p]) \in Nat
         /\ DOMAIN waiting[p] = 1..Len(waiting[p])
         /\ \A i \in 1..Len(waiting[p]) : waiting[p][i] \in Callers
<1>1. waiting[p] \in Seq(Callers)
  BY DEF MarketTypeOK
<1> QED BY <1>1, LenProperties, ElementOfSeq

(* Joining a line, and leaving it from any place in it.                    *)
LEMMA LineAppend ==
  ASSUME NEW S, NEW s \in Seq(S), NEW W, Lines(s, W), NEW c \in S, c \notin W
  PROVE  Lines(Append(s, c), W \cup {c})
<1> DEFINE t == Append(s, c)
<1>1. Len(s) \in Nat /\ DOMAIN s = 1..Len(s)
  BY LenProperties
<1>2. /\ t \in Seq(S) /\ Len(t) = Len(s) + 1
      /\ \A i \in 1..Len(s) : t[i] = s[i]
      /\ t[Len(s) + 1] = c
  BY AppendProperties
<1>3. DOMAIN t = 1..(Len(s) + 1)
  BY <1>2, LenProperties
<1> HIDE DEF t
<1>4. \A i \in DOMAIN t : i \in 1..Len(s) \/ i = Len(s) + 1
  BY <1>1, <1>3
<1>5. /\ \A i \in 1..Len(s) : s[i] \in W
      /\ \A i, j \in 1..Len(s) : s[i] = s[j] => i = j
      /\ \A e \in W : \E i \in 1..Len(s) : s[i] = e
  BY <1>1 DEF Lines
<1>6. \A i \in DOMAIN t : t[i] \in W \cup {c}
  BY <1>2, <1>4, <1>5
<1>7. \A i, j \in DOMAIN t : t[i] = t[j] => i = j
  BY <1>2, <1>4, <1>5
<1>8. \A e \in W \cup {c} : \E i \in DOMAIN t : t[i] = e
  <2>1. 1..Len(s) \subseteq DOMAIN t /\ Len(s) + 1 \in DOMAIN t
    BY <1>1, <1>3
  <2> QED BY <1>2, <1>5, <2>1
<1>9. Lines(t, W \cup {c})
  BY <1>6, <1>7, <1>8 DEF Lines
<1> QED BY <1>9 DEF t

LEMMA LineDrop ==
  ASSUME NEW S, NEW s \in Seq(S), NEW W, Lines(s, W),
         NEW k \in 1..Len(s), NEW t \in Seq(S), Len(t) = Len(s) - 1,
         \A j \in 1..(Len(s) - 1) :
           t[j] = IF j < k THEN s[j] ELSE s[j + 1]
  PROVE  Lines(t, W \ {s[k]})
<1>1. Len(s) \in Nat /\ DOMAIN s = 1..Len(s)
  BY LenProperties
<1>2. DOMAIN t = 1..(Len(s) - 1)
  BY LenProperties
<1> DEFINE old(j) == IF j < k THEN j ELSE j + 1
<1>3. \A j \in DOMAIN t : /\ old(j) \in 1..Len(s) /\ old(j) # k
                          /\ t[j] = s[old(j)]
  BY <1>1, <1>2
<1>4. \A i, j \in DOMAIN t : old(i) = old(j) => i = j
  BY <1>1, <1>2
<1>5. ASSUME NEW i \in 1..Len(s), i # k
      PROVE  \E j \in DOMAIN t : i = old(j)
  <2>1. CASE i < k
    <3>1. i \in DOMAIN t /\ old(i) = i
      BY <1>1, <1>2, <2>1
    <3> QED BY <3>1
  <2>2. CASE ~(i < k)
    <3>1. i - 1 \in DOMAIN t /\ old(i - 1) = i
      BY <1>1, <1>2, <1>5, <2>2
    <3> QED BY <3>1
  <2> QED BY <2>1, <2>2
<1> HIDE DEF old
<1>6. /\ \A i \in 1..Len(s) : s[i] \in W
      /\ \A i, j \in 1..Len(s) : s[i] = s[j] => i = j
      /\ \A e \in W : \E i \in 1..Len(s) : s[i] = e
  BY <1>1 DEF Lines
<1>7. \A j \in DOMAIN t : t[j] \in W \ {s[k]}
  BY <1>3, <1>6
<1>8. \A i, j \in DOMAIN t : t[i] = t[j] => i = j
  BY <1>3, <1>4, <1>6
<1>9. ASSUME NEW e \in W \ {s[k]}
      PROVE  \E j \in DOMAIN t : t[j] = e
  <2>1. PICK i \in 1..Len(s) : s[i] = e
    BY <1>6
  <2>2. PICK j \in DOMAIN t : i = old(j)
    BY <1>5, <1>9, <2>1
  <2> QED BY <1>3, <2>1, <2>2
<1> QED BY <1>7, <1>8, <1>9 DEF Lines

LEMMA QueueStep ==
  ASSUME MarketTypeOK, QueueInv, Effect
  PROVE  QueueInv'
<1> SUFFICES ASSUME NEW q \in Providers
             PROVE  Lines(waiting[q], Waiters(q))'
  BY DEF QueueInv
<1> DEFINE s == waiting[q]
           W == Waiters(q)
<1>1. Lines(s, W) /\ waiting \in [Providers -> Seq(Callers)]
  BY DEF QueueInv, MarketTypeOK
<1>2. /\ s \in Seq(Callers) /\ Len(s) \in Nat /\ DOMAIN s = 1..Len(s)
      /\ \A i \in 1..Len(s) : s[i] \in Callers
  BY LineFacts
<1>3. CASE waiting'[q] = s /\ Waiters(q)' = W
  BY <1>1, <1>3 DEF Lines
<1>4. ASSUME NEW c \in Callers, NEW p \in Providers, LeftLine(c, p)
      PROVE  Lines(waiting[q], Waiters(q))'
  <2>1. CASE q # p
    <3>1. waiting'[q] = s /\ Waiters(q)' = W
      BY <1>1, <1>4, <2>1 DEF LeftLine, Waiters
    <3> QED BY <1>3, <3>1
  <2>2. CASE q = p
    <3>1. PICK k \in 1..Len(s) : s[k] = c /\ waiting'[q] = RemoveAt(s, k)
      BY <1>1, <1>4, <2>2 DEF LeftLine
    <3>2. Waiters(q)' = W \ {s[k]}
      BY <1>4, <2>2, <3>1 DEF LeftLine, Waiters
    <3>3. /\ RemoveAt(s, k) \in Seq(Callers)
          /\ Len(RemoveAt(s, k)) = Len(s) - 1
          /\ \A j \in 1..(Len(s) - 1) :
               RemoveAt(s, k)[j] = IF j < k THEN s[j] ELSE s[j + 1]
      BY <1>2, RemoveFacts
    <3> HIDE DEF s, W
    <3>4. Lines(RemoveAt(s, k), W \ {s[k]})
      BY <1>1, <1>2, <3>3, LineDrop
    <3> QED BY <3>1, <3>2, <3>4 DEF Lines
  <2> QED BY <2>1, <2>2
<1>5. ASSUME NEW c \in Callers, NEW d \in Callers, NEW p \in Providers,
             HandedOver(c, d, p)
      PROVE  Lines(waiting[q], Waiters(q))'
  <2>1. CASE q # p
    <3>1. waiting'[q] = s /\ Waiters(q)' = W
      BY <1>1, <1>5, <2>1 DEF HandedOver, Waiters
    <3> QED BY <1>3, <3>1
  <2>2. CASE q = p
    <3>1. s # <<>> /\ d = Head(s) /\ waiting'[q] = Tail(s)
      BY <1>1, <1>5, <2>2 DEF HandedOver
    <3>2. /\ Tail(s) \in Seq(Callers) /\ Len(Tail(s)) = Len(s) - 1
          /\ \A j \in 1..Len(Tail(s)) : Tail(s)[j] = s[j + 1]
      BY <1>2, <3>1, HeadTailProperties
    <3>3. 1 \in 1..Len(s) /\ d = s[1]
      BY <1>2, <3>1, EmptySeq
    <3>4. \A j \in 1..(Len(s) - 1) :
            Tail(s)[j] = IF j < 1 THEN s[j] ELSE s[j + 1]
      BY <1>2, <3>2
    <3>5. Waiters(q)' = W \ {s[1]}
      BY <1>5, <2>2, <3>3 DEF HandedOver, Waiters
    <3> HIDE DEF s, W
    <3>6. Lines(Tail(s), W \ {s[1]})
      BY <1>1, <1>2, <3>2, <3>3, <3>4, LineDrop
    <3> QED BY <3>1, <3>5, <3>6 DEF Lines
  <2> QED BY <2>1, <2>2
<1>6. ASSUME NEW c \in Callers, NEW p \in Providers, Joined(c, p)
      PROVE  Lines(waiting[q], Waiters(q))'
  <2>1. CASE q # p
    <3>1. waiting'[q] = s /\ Waiters(q)' = W
      BY <1>1, <1>6, <2>1 DEF Joined, Waiters
    <3> QED BY <1>3, <3>1
  <2>2. CASE q = p
    <3>1. waiting'[q] = Append(s, c) /\ Waiters(q)' = W \cup {c} /\ c \notin W
      BY <1>1, <1>6, <2>2 DEF Joined, Waiters
    <3> HIDE DEF s, W
    <3>2. Lines(Append(s, c), W \cup {c})
      BY <1>1, <1>2, <3>1, LineAppend
    <3> QED BY <3>1, <3>2 DEF Lines
  <2> QED BY <2>1, <2>2
<1>7. ASSUME NEW c \in Callers, NEW p \in Providers,
             TookPlace(c, p) \/ GaveBack(c, p)
      PROVE  Lines(waiting[q], Waiters(q))'
  BY <1>3, <1>7 DEF TookPlace, GaveBack, SameWaiters, Waiters
<1>8. CASE Kept
  BY <1>3, <1>8 DEF Kept, SameWaiters, Waiters
<1> QED BY <1>4, <1>5, <1>6, <1>7, <1>8 DEF Effect

LEMMA PlaceStep ==
  ASSUME MarketTypeOK, MarketTypeOK', PlaceInv, Effect
  PROVE  PlaceInv'
<1> SUFFICES ASSUME NEW q \in Providers
             PROVE  PlaceOf(q)'
  BY DEF PlaceInv
<1> DEFINE n == Cardinality(Holders(q))
<1>1. /\ PlaceOf(q) /\ inUse \in [Providers -> Nat]
      /\ waiting \in [Providers -> Seq(Callers)]
      /\ Concurrency \in Nat
  BY MarketAssumption DEF PlaceInv, MarketTypeOK
<1>2. IsFiniteSet(Holders(q)) /\ n \in Nat
  BY HoldersFinite
<1>3. CASE /\ UNCHANGED <<inUse, waiting>>
           /\ \A e \in Callers : Holds(e, q)' <=> Holds(e, q)
  <2>1. Holders(q)' = Holders(q)
    BY <1>3 DEF Holders
  <2> QED BY <1>1, <1>3, <2>1 DEF PlaceOf, Full
<1>4. ASSUME NEW c \in Callers, NEW p \in Providers, TookPlace(c, p)
      PROVE  PlaceOf(q)'
  <2>1. CASE q # p
    <3>1. Holders(q)' = Holders(q)
      BY <1>4, <2>1 DEF Holders, TookPlace
    <3> QED BY <1>1, <1>4, <2>1, <3>1 DEF PlaceOf, Full, TookPlace
  <2>2. CASE q = p
    <3>1. Holders(q)' = Holders(q) \cup {c} /\ c \notin Holders(q)
      BY <1>4, <2>2 DEF Holders, TookPlace
    <3>2. Cardinality(Holders(q)') = n + 1
      BY <1>2, <3>1, FS_AddElement
    <3>3. /\ inUse[q] # Concurrency /\ inUse'[q] = inUse[q] + 1
          /\ waiting'[q] = waiting[q]
      BY <1>1, <1>4, <2>2 DEF TookPlace
    <3> QED BY <1>1, <1>2, <3>2, <3>3 DEF PlaceOf, Full
  <2> QED BY <2>1, <2>2
<1>5. ASSUME NEW c \in Callers, NEW p \in Providers,
             Joined(c, p) \/ LeftLine(c, p)
      PROVE  PlaceOf(q)'
  <2>1. Holders(q)' = Holders(q)
    BY <1>5 DEF Holders, Joined, LeftLine, SameHolders
  <2>2. inUse'[q] = inUse[q]
    BY <1>5 DEF Joined, LeftLine
  <2>3. CASE q # p
    <3>1. waiting'[q] = waiting[q]
      BY <1>1, <1>5, <2>3 DEF Joined, LeftLine
    <3> QED BY <1>1, <2>1, <2>2, <3>1 DEF PlaceOf, Full
  <2>4. CASE q = p
    <3>1. inUse[q] = Concurrency
      <4>1. CASE Joined(c, p)
        BY <2>4, <4>1 DEF Joined
      <4>2. CASE LeftLine(c, p)
        <5>1. PICK i \in 1..Len(waiting[q]) : waiting[q][i] = c
          BY <2>4, <4>2 DEF LeftLine
        <5>2. waiting[q] # <<>>
          BY <5>1, EmptySeq
        <5> QED BY <1>1, <5>2 DEF PlaceOf, Full
      <4> QED BY <1>5, <4>1, <4>2
    <3> QED BY <1>1, <2>1, <2>2, <3>1 DEF PlaceOf, Full
  <2> QED BY <2>3, <2>4
<1>6. ASSUME NEW c \in Callers, NEW p \in Providers, GaveBack(c, p)
      PROVE  PlaceOf(q)'
  <2>1. CASE q # p
    <3>1. Holders(q)' = Holders(q)
      BY <1>6, <2>1 DEF Holders, GaveBack
    <3> QED BY <1>1, <1>6, <2>1, <3>1 DEF PlaceOf, Full, GaveBack
  <2>2. CASE q = p
    <3>1. Holders(q)' = Holders(q) \ {c} /\ c \in Holders(q)
      BY <1>6, <2>2 DEF Holders, GaveBack
    <3>2. Cardinality(Holders(q)') = n - 1
      BY <1>2, <3>1, FS_RemoveElement
    <3>3. /\ inUse'[q] = inUse[q] - 1
          /\ waiting'[q] = <<>>
      BY <1>1, <1>6, <2>2 DEF GaveBack
    <3> QED BY <1>1, <1>2, <3>2, <3>3 DEF PlaceOf, Full
  <2> QED BY <2>1, <2>2
<1>7. ASSUME NEW c \in Callers, NEW d \in Callers, NEW p \in Providers,
             HandedOver(c, d, p)
      PROVE  PlaceOf(q)'
  <2>1. CASE q # p
    <3>1. Holders(q)' = Holders(q)
      BY <1>7, <2>1 DEF Holders, HandedOver
    <3>2. inUse'[q] = inUse[q] /\ waiting'[q] = waiting[q]
      BY <1>1, <1>7, <2>1 DEF HandedOver
    <3> QED BY <1>1, <3>1, <3>2 DEF PlaceOf, Full
  <2>2. CASE q = p
    <3>1. /\ Holders(q)' = (Holders(q) \ {c}) \cup {d}
          /\ c \in Holders(q) /\ d \notin Holders(q)
      BY <1>7, <2>2 DEF Holders, HandedOver
    <3>2. /\ IsFiniteSet(Holders(q) \ {c})
          /\ Cardinality(Holders(q) \ {c}) = n - 1
      BY <1>2, <3>1, FS_RemoveElement
    <3>3. Cardinality(Holders(q)') = (n - 1) + 1
      BY <3>1, <3>2, FS_AddElement
    <3>4. inUse'[q] = inUse[q] /\ waiting[q] # <<>>
      BY <1>7, <2>2 DEF HandedOver
    <3> QED BY <1>1, <1>2, <3>3, <3>4 DEF PlaceOf, Full
  <2> QED BY <2>1, <2>2
<1> QED BY <1>3, <1>4, <1>5, <1>6, <1>7
        DEF Effect, Kept, SameHolders

-----------------------------------------------------------------------------
(* The attempts                                                            *)

Answers == {"candle", "refused", "transient"}

(* One more answer.                                                        *)
LEMMA NoteFacts ==
  ASSUME NEW a \in Seq(Answers), Transient(a), NEW x \in Answers
  PROVE  /\ Append(a, x) \in Seq(Answers)
         /\ Len(Append(a, x)) = Len(a) + 1
         /\ \A i \in DOMAIN Append(a, x) :
              i < Len(Append(a, x)) => Append(a, x)[i] = "transient"
         /\ x = "transient" => Transient(Append(a, x))
<1>1. /\ Append(a, x) \in Seq(Answers)
      /\ Len(Append(a, x)) = Len(a) + 1 /\ Len(a) \in Nat
      /\ \A i \in 1..Len(a) : Append(a, x)[i] = a[i]
      /\ Append(a, x)[Len(a) + 1] = x
  BY AppendProperties, LenProperties
<1>2. DOMAIN Append(a, x) = 1..(Len(a) + 1) /\ DOMAIN a = 1..Len(a)
  BY <1>1, LenProperties
<1>3. \A i \in 1..(Len(a) + 1) : i \in 1..Len(a) \/ i = Len(a) + 1
  BY <1>1
<1> QED BY <1>1, <1>2, <1>3 DEF Transient

(* A call that returns leaves the others' answers as they were; the first  *)
(* in line has none yet.                                                   *)
LEMMA FinishAnswers ==
  ASSUME MarketTypeOK, AnswersInv, QueueInv, PlaceInv,
         NEW c \in Callers, Holding(c),
         NEW got \in SUBSET Opens, Finish(c, got),
         Len(answers'[c]) <= MaxAttempts,
         \A i \in DOMAIN answers'[c] :
           i < Len(answers'[c]) => answers'[c][i] = "transient",
         \A e \in Callers \ {c} : answers'[e] = answers[e]
  PROVE  AnswersInv'
<1>1. PICK p : p = call[c].provider
  OBVIOUS
<1>2. PICK r \in Calls : FreeOrHandOver(c, p, r)
  BY <1>1, FinishFacts
<1>3. call \in [Callers -> Calls \cup {NoCall}]
  BY DEF MarketTypeOK
<1>4. AnswersOf(r, answers'[c])
  BY <1>2, NoCallAssumption DEF FreeOrHandOver, AnswersOf
<1>5. CASE call' = [call EXCEPT ![c] = r]
  BY <1>3, <1>4, <1>5 DEF AnswersInv
<1>6. CASE \E d \in Callers \ {c}, w \in Calls :
             /\ At(d, "wait") /\ w.at = "request"
             /\ w.attempt = call[d].attempt
             /\ call' = [call EXCEPT ![c] = r, ![d] = w]
  <2>1. PICK d \in Callers \ {c}, w \in Calls :
             /\ At(d, "wait") /\ w.at = "request"
             /\ w.attempt = call[d].attempt
             /\ call' = [call EXCEPT ![c] = r, ![d] = w]
    BY <1>6
  <2>2. answers'[d] = <<>> /\ w.attempt = 1
    BY <2>1 DEF AnswersInv, AnswersOf, At
  <2>3. AnswersOf(w, answers'[d])
    BY <2>1, <2>2, NoCallAssumption DEF AnswersOf, Transient
  <2>4. /\ call'[c] = r /\ call'[d] = w
        /\ \A e \in Callers \ {c, d} : call'[e] = call[e]
    BY <1>3, <2>1
  <2> QED BY <1>4, <2>3, <2>4 DEF AnswersInv
<1> QED BY <1>2, <1>5, <1>6 DEF FreeOrHandOver

LEMMA AnswersStep ==
  ASSUME TypeOK, AnswersInv, QueueInv, PlaceInv, [Next]_vars
  PROVE  AnswersInv' /\ answers' \in [Callers -> Seq(Answers)]
<1> USE NoCallAssumption
<1>1. /\ MarketTypeOK /\ call \in [Callers -> Calls \cup {NoCall}]
      /\ answers \in [Callers -> Seq(Answers)]
      /\ MaxAttempts \in Nat
  BY OutboundAssumption DEF TypeOK, MarketTypeOK, Answers
<1>2. CASE UNCHANGED <<call, answers>>
  BY <1>1, <1>2 DEF AnswersInv
<1>3. ASSUME NEW c \in Callers, FetchSymbol(c)
      PROVE  AnswersInv' /\ answers' = answers
  <2>1. PICK s : GetKline(c, run[c].provider, s, run[c].period)
    BY <1>3 DEF FetchSymbol
  <2> DEFINE k == [provider |-> run[c].provider, symbol |-> s,
                   period |-> run[c].period, at |-> "enter",
                   attempt |-> 1, got |-> {}]
  <2>2. /\ call[c] = NoCall /\ UNCHANGED answers
        /\ call' = [call EXCEPT ![c] = k]
        /\ k.at = "enter" /\ k.attempt = 1
    BY <2>1 DEF GetKline
  <2> HIDE DEF k
  <2>3. AnswersOf(k, answers[c])
    BY <2>2 DEF AnswersInv, AnswersOf
  <2> QED BY <1>1, <2>2, <2>3 DEF AnswersInv
<1>4. ASSUME NEW c \in Callers, RecordResult(c)
      PROVE  AnswersInv' /\ answers' \in [Callers -> Seq(Answers)]
  <2>1. /\ call' = [call EXCEPT ![c] = NoCall]
        /\ answers' = [answers EXCEPT ![c] = <<>>]
    BY <1>4 DEF RecordResult, Take
  <2>2. <<>> \in Seq(Answers)
    BY EmptySeq
  <2> QED BY <1>1, <2>1, <2>2 DEF AnswersInv, AnswersOf
<1>5. ASSUME NEW c \in Callers, NEW k \in Calls, UNCHANGED answers,
             call' = [call EXCEPT ![c] = k],
             AnswersOf(k, answers[c])
      PROVE  AnswersInv' /\ answers' \in [Callers -> Seq(Answers)]
  BY <1>1, <1>5 DEF AnswersInv
<1>6. ASSUME NEW c \in Callers, RefuseSymbol(c) \/ GiveUpEntering(c)
      PROVE  AnswersInv' /\ answers' \in [Callers -> Seq(Answers)]
  <2> DEFINE k == [call[c] EXCEPT !.at = "returned", !.got = {}]
  <2>1. /\ UNCHANGED answers /\ call' = [call EXCEPT ![c] = k]
        /\ call[c] \in Calls /\ call[c].at = "enter"
    BY <1>1, <1>6
       DEF RefuseSymbol, GiveUpEntering, MayEnter, ReturnError, Returned, At
  <2>2. k \in Calls /\ k.at = "returned"
    BY <2>1 DEF Calls
  <2>3. answers[c] = <<>>
    BY <2>1 DEF AnswersInv, AnswersOf
  <2> HIDE DEF k
  <2>4. AnswersOf(k, answers[c])
    BY <1>1, <2>2, <2>3 DEF AnswersOf
  <2> QED BY <1>5, <2>1, <2>2, <2>4
<1>7. ASSUME NEW c \in Callers, GiveUpWaiting(c)
      PROVE  AnswersInv' /\ answers' \in [Callers -> Seq(Answers)]
  <2>1. PICK k \in Calls : /\ call' = [call EXCEPT ![c] = k]
                           /\ k.at = "returned"
    BY <1>1, <1>7, GiveUpFacts
  <2>2. UNCHANGED answers /\ call[c] # NoCall /\ call[c].at = "wait"
    BY <1>7 DEF GiveUpWaiting, At
  <2>3. answers[c] = <<>>
    BY <2>2 DEF AnswersInv, AnswersOf
  <2>4. AnswersOf(k, answers[c])
    BY <1>1, <2>1, <2>3 DEF AnswersOf
  <2> QED BY <1>5, <2>1, <2>2, <2>4
<1>8. ASSUME NEW c \in Callers, Enter(c) \/ QueueUp(c)
      PROVE  AnswersInv' /\ answers' \in [Callers -> Seq(Answers)]
  <2>1. PICK p : p = call[c].provider
    OBVIOUS
  <2>2. /\ At(c, "enter") /\ UNCHANGED answers
        /\ \E k \in Calls : /\ call' = [call EXCEPT ![c] = k]
                            /\ k.at \in {"request", "wait"}
                            /\ k.attempt = call[c].attempt
    <3>1. UNCHANGED answers
      BY <1>8 DEF Enter, QueueUp
    <3>2. CASE Enter(c)
      BY <1>1, <2>1, <3>1, <3>2, EnterFacts
    <3>3. CASE QueueUp(c)
      BY <1>1, <2>1, <3>1, <3>3, QueueUpFacts
    <3> QED BY <1>8, <3>2, <3>3
  <2>3. PICK k \in Calls : /\ call' = [call EXCEPT ![c] = k]
                           /\ k.at \in {"request", "wait"}
                           /\ k.attempt = call[c].attempt
    BY <2>2
  <2>4. answers[c] = <<>> /\ k.attempt = 1
    BY <2>2, <2>3 DEF AnswersInv, AnswersOf, At
  <2>5. AnswersOf(k, answers[c])
    BY <2>3, <2>4 DEF AnswersOf, Transient
  <2> QED BY <1>5, <2>2, <2>3, <2>5
<1>9. ASSUME NEW c \in Callers, RefuseUnmapped(c) \/ GiveUpSleeping(c)
      PROVE  AnswersInv' /\ answers' \in [Callers -> Seq(Answers)]
  <2>1. /\ UNCHANGED answers /\ Finish(c, {}) /\ Holding(c)
        /\ call[c] \in Calls /\ call[c].at \in {"request", "sleep"}
    BY <1>1, <1>9
       DEF RefuseUnmapped, GiveUpSleeping, At, Holding, Inside
  <2>2. /\ Transient(answers[c])
        /\ Len(answers[c]) = call[c].attempt - 1
             \/ Len(answers[c]) = call[c].attempt
        /\ call[c].attempt \in 1..MaxAttempts
    BY <2>1 DEF AnswersInv, AnswersOf, Calls
  <2>3. /\ Len(answers'[c]) <= MaxAttempts
        /\ \A i \in DOMAIN answers'[c] : answers'[c][i] = "transient"
    BY <1>1, <2>1, <2>2 DEF Transient
  <2> QED BY <1>1, <2>1, <2>3, FinishAnswers
<1>10. ASSUME NEW c \in Callers, Asking(c), NEW x \in Answers, Note(c, x),
              NEW got \in SUBSET Opens, Finish(c, got)
       PROVE  AnswersInv' /\ answers' \in [Callers -> Seq(Answers)]
  <2>1. Holding(c) /\ call[c] \in Calls /\ call[c].at = "request"
    BY <1>1, <1>10 DEF Asking, At, Holding, Inside
  <2>2. /\ Transient(answers[c])
        /\ Len(answers[c]) = call[c].attempt - 1
        /\ call[c].attempt \in 1..MaxAttempts
    BY <2>1 DEF AnswersInv, AnswersOf, Calls
  <2>3. answers' = [answers EXCEPT ![c] = Append(answers[c], x)]
    BY <1>10 DEF Note
  <2>4. /\ answers'[c] = Append(answers[c], x)
        /\ answers'[c] \in Seq(Answers)
        /\ Len(answers'[c]) = Len(answers[c]) + 1
        /\ \A i \in DOMAIN answers'[c] :
             i < Len(answers'[c]) => answers'[c][i] = "transient"
    BY <1>1, <2>2, <2>3, NoteFacts
  <2>5. /\ \A e \in Callers \ {c} : answers'[e] = answers[e]
        /\ answers' \in [Callers -> Seq(Answers)]
    BY <1>1, <2>3, <2>4
  <2>6. Len(answers'[c]) <= MaxAttempts
    BY <1>1, <2>2, <2>4
  <2> QED BY <1>1, <1>10, <2>1, <2>4, <2>5, <2>6, FinishAnswers
<1>11. ASSUME NEW c \in Callers, RequestFails(c),
              ~LastAttempt(call[c].attempt)
       PROVE  AnswersInv' /\ answers' \in [Callers -> Seq(Answers)]
  <2> DEFINE k == [call[c] EXCEPT !.at = "sleep"]
  <2>1. /\ call[c] \in Calls /\ call[c].at = "request"
        /\ call' = [call EXCEPT ![c] = k]
        /\ answers' = [answers EXCEPT ![c] = Append(answers[c], "transient")]
    BY <1>1, <1>11 DEF RequestFails, Asking, At, Note
  <2>2. k \in Calls /\ k.at = "sleep" /\ k.attempt = call[c].attempt
    BY <2>1 DEF Calls, Inside
  <2>3. /\ Transient(answers[c])
        /\ Len(answers[c]) = call[c].attempt - 1
        /\ call[c].attempt \in 1..MaxAttempts
        /\ call[c].attempt # MaxAttempts
    BY <1>11, <2>1 DEF AnswersInv, AnswersOf, Calls, LastAttempt
  <2>4. /\ answers'[c] = Append(answers[c], "transient")
        /\ answers'[c] \in Seq(Answers) /\ Transient(answers'[c])
        /\ Len(answers'[c]) = Len(answers[c]) + 1
    BY <1>1, <2>1, <2>3, NoteFacts DEF Answers
  <2> HIDE DEF k
  <2>5. AnswersOf(k, answers'[c])
    BY <1>1, <2>2, <2>3, <2>4 DEF AnswersOf
  <2>6. /\ \A e \in Callers \ {c} :
             answers'[e] = answers[e] /\ call'[e] = call[e]
        /\ call'[c] = k
        /\ answers' \in [Callers -> Seq(Answers)]
    BY <1>1, <2>1, <2>4
  <2> QED BY <2>5, <2>6 DEF AnswersInv
<1>12. ASSUME NEW c \in Callers, Wake(c)
       PROVE  AnswersInv' /\ answers' \in [Callers -> Seq(Answers)]
  <2> DEFINE k == [call[c] EXCEPT !.at = "request",
                                  !.attempt = call[c].attempt + 1]
  <2>1. /\ call[c] \in Calls /\ call[c].at = "sleep"
        /\ call' = [call EXCEPT ![c] = k] /\ UNCHANGED answers
    BY <1>1, <1>12 DEF Wake, At
  <2>2. /\ Transient(answers[c])
        /\ Len(answers[c]) = call[c].attempt
        /\ call[c].attempt \in 1..MaxAttempts
        /\ call[c].attempt < MaxAttempts
    BY <2>1 DEF AnswersInv, AnswersOf, Calls
  <2>3. call[c].attempt + 1 \in 1..MaxAttempts
    BY <1>1, <2>2
  <2>4. k \in Calls /\ k.at = "request" /\ k.attempt = call[c].attempt + 1
    BY <2>1, <2>3 DEF Calls, Inside
  <2> HIDE DEF k
  <2>5. AnswersOf(k, answers[c])
    BY <1>1, <2>2, <2>4 DEF AnswersOf
  <2> QED BY <1>5, <2>1, <2>4, <2>5
<1>13. ASSUME NEW c \in Callers, MarketStep(c)
       PROVE  AnswersInv' /\ answers' \in [Callers -> Seq(Answers)]
  <2>1. CASE RequestSucceeds(c)
    <3>1. PICK o \in Answerable(call[c].provider, call[c].period) :
            Finish(c, {o})
      BY <2>1 DEF RequestSucceeds
    <3>2. {o} \in SUBSET Opens
      BY DEF Answerable
    <3> QED BY <1>10, <2>1, <3>1, <3>2 DEF RequestSucceeds, Answers
  <2>2. CASE RequestRefused(c)
    BY <1>10, <2>2 DEF RequestRefused, Answers
  <2>3. CASE RequestFails(c) /\ LastAttempt(call[c].attempt)
    BY <1>10, <2>3 DEF RequestFails, Answers
  <2> QED BY <1>6, <1>7, <1>8, <1>9, <1>11, <1>12, <1>13, <2>1, <2>2, <2>3
          DEF MarketStep
<1> QED
  BY <1>1, <1>2, <1>3, <1>4, <1>13
     DEF Next, vars, marketVars, RunAlert, Round, Begin, Proceed,
         DeliveryStep, BuildMessage, Notify, RecordVerdict, Answer, End,
         ClientLeaves

-----------------------------------------------------------------------------
(* The copies of a message and the run it belongs to                       *)

(* Who is in GetKline stays in it until the result is taken.               *)
LEMMA CallsKept ==
  ASSUME MarketTypeOK, AnswersInv, QueueInv, PlaceInv, NEW c \in Callers,
         MarketStep(c)
  PROVE  \A e \in Callers : call'[e] # NoCall => call[e] # NoCall
<1> USE NoCallAssumption
<1>1. call \in [Callers -> Calls \cup {NoCall}]
  BY DEF MarketTypeOK
<1>2. ASSUME NEW k \in Calls, Local(c, k)
      PROVE  \A e \in Callers : call'[e] # NoCall => call[e] # NoCall
  <2>1. call[c] # NoCall
    BY DEF MarketStep, RefuseSymbol, Enter, QueueUp, MayEnter,
           GiveUpEntering, GiveUpWaiting, RefuseUnmapped, RequestSucceeds,
           RequestFails, RequestRefused, Wake, GiveUpSleeping, Asking, At
  <2> QED BY <1>1, <1>2, <2>1 DEF Local
<1>3. CASE Enter(c) \/ QueueUp(c)
  <2>1. call[c] # NoCall
    BY <1>3 DEF Enter, QueueUp, MayEnter, At
  <2>2. call' = [call EXCEPT ![c] = call'[c]]
    <3>1. PICK p : p = call[c].provider
      OBVIOUS
    <3>2. \E k \in Calls : call' = [call EXCEPT ![c] = k]
      <4>1. CASE Enter(c)
        BY <3>1, <4>1, EnterFacts
      <4>2. CASE QueueUp(c)
        BY <3>1, <4>2, QueueUpFacts
      <4> QED BY <1>3, <4>1, <4>2
    <3> QED BY <1>1, <3>2
  <2> QED BY <1>1, <2>1, <2>2
<1>4. CASE GiveUpWaiting(c)
  <2>1. PICK k \in Calls : call' = [call EXCEPT ![c] = k]
    BY <1>4, GiveUpFacts
  <2>2. call[c] # NoCall
    BY <1>4 DEF GiveUpWaiting, At
  <2> QED BY <1>1, <2>1, <2>2
<1>5. ASSUME Holding(c), NEW got \in SUBSET Opens, Finish(c, got)
      PROVE  \A e \in Callers : call'[e] # NoCall => call[e] # NoCall
  <2>1. PICK p : p = call[c].provider
    OBVIOUS
  <2>2. PICK r \in Calls : FreeOrHandOver(c, p, r)
    BY <1>5, <2>1, FinishFacts
  <2>3. call[c] # NoCall
    BY <1>5 DEF Holding
  <2>4. CASE call' = [call EXCEPT ![c] = r]
    BY <1>1, <2>3, <2>4
  <2>5. CASE \E d \in Callers \ {c}, w \in Calls :
               /\ At(d, "wait") /\ call' = [call EXCEPT ![c] = r, ![d] = w]
    BY <1>1, <2>3, <2>5 DEF At
  <2> QED BY <2>2, <2>4, <2>5 DEF FreeOrHandOver
<1> QED BY <1>2, <1>3, <1>4, <1>5, MarketCases

(* What one step of a notifier does to its send and to the copies of its   *)
(* message: there are more of them only while the caller's context lives.  *)
LEMMA DeliveryFacts ==
  ASSUME TypeOK, CopiesInv, RunInv, NEW c \in Callers, DeliveryStep(c),
         NEW n, n = send[c].channel
  PROVE  /\ n \in Channels /\ RunAt(c, "notify") /\ n \in run[c].toSend
         /\ \E m \in Sends, k \in Nat, l \in Nat :
              /\ m.channel = n
              /\ send' = [send EXCEPT ![c] = m]
              /\ copies' = [copies EXCEPT ![c] =
                              [copies[c] EXCEPT ![n] = k]]
              /\ silent' = [silent EXCEPT ![c] =
                              [silent[c] EXCEPT ![n] = l]]
              /\ k >= copies[c][n]
              /\ k # copies[c][n] => Live(c)
              /\ CopiesOf(n, run[c], m, k, l)
<1> DEFINE k0 == copies[c][n]
           l0 == silent[c][n]
           failed == [send[c] EXCEPT !.at = "returned", !.ok = FALSE]
           taken == [send[c] EXCEPT !.at = "returned", !.ok = TRUE]
           asleep == [send[c] EXCEPT !.at = "sleep"]
           again == [send[c] EXCEPT !.at = "post",
                                    !.attempt = send[c].attempt + 1]
<1> USE NoSendAssumption
<1>1. /\ send \in [Callers -> Sends \cup {NoSend}]
      /\ copies \in [Callers -> [Channels -> Nat]]
      /\ silent \in [Callers -> [Channels -> Nat]]
      /\ run \in [Callers -> Runs \cup {NoRun}]
      /\ MaxAttempts \in Nat
  BY OutboundAssumption DEF TypeOK, DeliveriesTypeOK
<1>2. /\ send[c] # NoSend /\ send[c] \in Sends
      /\ send[c].at \in {"post", "sleep"}
  BY <1>1 DEF DeliveryStep, PostTaken, PostTakenSilently, PostFails,
              PostRefused, WakeSend, GiveUpSend, Posting, SendAt
<1>3. /\ n \in Channels /\ k0 \in Nat /\ l0 \in Nat
      /\ send[c].attempt \in 1..MaxAttempts
  BY <1>1, <1>2 DEF Sends
<1>4. CopiesOf(n, run[c], send[c], k0, l0)
  BY <1>3 DEF CopiesInv
<1>5. /\ run[c] # NoRun /\ run[c].at = "notify" /\ n \in run[c].toSend
      /\ k0 = l0
      /\ send[c].at = "post" => k0 < send[c].attempt
      /\ send[c].at = "sleep" =>
           k0 <= send[c].attempt /\ send[c].attempt < MaxAttempts
  BY <1>2, <1>4 DEF CopiesOf
<1>6. /\ failed \in Sends /\ failed.channel = n
      /\ failed.at = "returned" /\ failed.ok = FALSE
      /\ taken \in Sends /\ taken.channel = n
      /\ taken.at = "returned" /\ taken.ok = TRUE
      /\ asleep \in Sends /\ asleep.channel = n
      /\ asleep.at = "sleep" /\ asleep.attempt = send[c].attempt
  BY <1>2 DEF Sends
<1>7. copies = [copies EXCEPT ![c] = [copies[c] EXCEPT ![n] = k0]]
  BY <1>1
<1>8. silent = [silent EXCEPT ![c] = [silent[c] EXCEPT ![n] = l0]]
  BY <1>1
<1> HIDE DEF k0, l0, failed, taken, asleep
<1>9. send[c].attempt # MaxAttempts => send[c].attempt < MaxAttempts
  <2>1. \A a \in 1..MaxAttempts : a # MaxAttempts => a < MaxAttempts
    BY <1>1
  <2> QED BY <1>3, <2>1
<1>10. CASE PostTaken(c)
  <2>1. /\ Live(c) /\ send[c].at = "post"
        /\ send' = [send EXCEPT ![c] = taken]
        /\ copies' = [copies EXCEPT ![c] =
                        [copies[c] EXCEPT ![n] = k0 + 1]]
        /\ silent' = [silent EXCEPT ![c] = [silent[c] EXCEPT ![n] = l0]]
    BY <1>8, <1>10
       DEF PostTaken, Posting, SendAt, ReturnSend, Took, taken, k0
  <2>2. CopiesOf(n, run[c], taken, k0 + 1, l0)
    BY <1>1, <1>3, <1>5, <1>6, <2>1 DEF CopiesOf
  <2>3. k0 + 1 \in Nat /\ k0 + 1 >= k0
    BY <1>3
  <2> QED BY <1>3, <1>5, <1>6, <2>1, <2>2, <2>3 DEF RunAt, k0
<1>11. CASE PostTakenSilently(c)
  <2>1. /\ Live(c) /\ send[c].at = "post"
        /\ copies' = [copies EXCEPT ![c] =
                        [copies[c] EXCEPT ![n] = k0 + 1]]
        /\ silent' = [silent EXCEPT ![c] =
                        [silent[c] EXCEPT ![n] = l0 + 1]]
    BY <1>11 DEF PostTakenSilently, Posting, SendAt, Took, k0, l0
  <2>2. \/ send' = [send EXCEPT ![c] = failed]
        \/ /\ send[c].attempt # MaxAttempts
           /\ send' = [send EXCEPT ![c] = asleep]
    BY <1>11 DEF PostTakenSilently, TryAgain, ReturnSend, LastAttempt,
                 failed, asleep
  <2>3. CopiesOf(n, run[c], failed, k0 + 1, l0 + 1)
    BY <1>1, <1>3, <1>5, <1>6, <2>1 DEF CopiesOf
  <2>4. send[c].attempt # MaxAttempts =>
          CopiesOf(n, run[c], asleep, k0 + 1, l0 + 1)
    BY <1>1, <1>3, <1>5, <1>6, <1>9, <2>1 DEF CopiesOf
  <2>5. k0 + 1 \in Nat /\ k0 + 1 >= k0 /\ l0 + 1 \in Nat
    BY <1>3
  <2> QED BY <1>3, <1>5, <1>6, <2>1, <2>2, <2>3, <2>4, <2>5 DEF RunAt, k0
<1>12. CASE PostFails(c) \/ PostRefused(c) \/ GiveUpSend(c)
  <2>1. UNCHANGED <<copies, silent>>
    BY <1>12 DEF PostFails, PostRefused, GiveUpSend
  <2>2. \/ send' = [send EXCEPT ![c] = failed]
        \/ /\ send[c].attempt # MaxAttempts /\ send[c].at = "post"
           /\ send' = [send EXCEPT ![c] = asleep]
    BY <1>12 DEF PostFails, PostRefused, GiveUpSend, TryAgain, ReturnSend,
                 LastAttempt, Posting, SendAt, failed, asleep
  <2>3. CopiesOf(n, run[c], failed, k0, l0)
    BY <1>1, <1>2, <1>3, <1>5, <1>6 DEF CopiesOf
  <2>4. send[c].attempt # MaxAttempts /\ send[c].at = "post" =>
          CopiesOf(n, run[c], asleep, k0, l0)
    BY <1>1, <1>3, <1>5, <1>6, <1>9 DEF CopiesOf
  <2>5. k0 >= k0
    BY <1>3
  <2> QED BY <1>3, <1>5, <1>6, <1>7, <1>8, <2>1, <2>2, <2>3, <2>4, <2>5
          DEF RunAt, k0
<1>13. CASE WakeSend(c)
  <2>1. /\ UNCHANGED <<copies, silent>> /\ send[c].at = "sleep"
        /\ send' = [send EXCEPT ![c] = again]
    BY <1>13 DEF WakeSend, SendAt
  <2>2. send[c].attempt + 1 \in 1..MaxAttempts
    BY <1>1, <1>3, <1>5, <2>1
  <2>3. /\ again \in Sends /\ again.channel = n /\ again.at = "post"
        /\ again.attempt = send[c].attempt + 1
    BY <1>2, <2>2 DEF Sends
  <2> HIDE DEF again
  <2>4. CopiesOf(n, run[c], again, k0, l0)
    BY <1>1, <1>3, <1>5, <2>1, <2>3 DEF CopiesOf
  <2>5. k0 >= k0
    BY <1>3
  <2> QED BY <1>3, <1>5, <1>7, <1>8, <2>1, <2>3, <2>4, <2>5 DEF RunAt, k0
<1> QED BY <1>10, <1>11, <1>12, <1>13 DEF DeliveryStep

(* The other callers' runs are theirs.                                     *)
Elsewhere(c) ==
  \A e \in Callers \ {c} :
    /\ run'[e] = run[e] /\ send'[e] = send[e]
    /\ copies'[e] = copies[e] /\ silent'[e] = silent[e]
    /\ Live(e)' <=> Live(e)
    /\ call'[e] # NoCall => call[e] # NoCall

LEMMA OwnStep ==
  ASSUME CopiesInv, RunInv, NEW c \in Callers, Elsewhere(c), RunOf(c)',
         \A n \in Channels :
           CopiesOf(n, run'[c], send'[c], copies'[c][n], silent'[c][n])
  PROVE  CopiesInv' /\ RunInv'
<1>1. CopiesInv'
  BY DEF CopiesInv, Elsewhere
<1>2. ASSUME NEW e \in Callers, e # c PROVE RunOf(e)'
  BY <1>2 DEF RunInv, RunOf, RunAt, Elsewhere
<1> QED BY <1>1, <1>2 DEF RunInv

(* Nothing has been sent of a run that is not there or still fetches.      *)
LEMMA NothingSent ==
  ASSUME TypeOK, CopiesInv, RunInv, NEW c \in Callers, ~RunAt(c, "notify")
  PROVE  /\ send[c] = NoSend
         /\ \A n \in Channels : copies[c][n] = 0 /\ silent[c][n] = 0
BY DEF CopiesInv, CopiesOf, RunInv, RunOf, RunAt

(* An untouched message of a run that fetches, or none at all.             *)
LEMMA Unsent ==
  ASSUME NEW n, NEW r, r = NoRun \/ r.at # "notify" \/ n \in r.toSend
  PROVE  CopiesOf(n, r, NoSend, 0, 0)
BY OutboundAssumption DEF CopiesOf

LEMMA RunTypes ==
  ASSUME TypeOK
  PROVE  /\ MarketTypeOK /\ DeliveriesTypeOK
         /\ call \in [Callers -> Calls \cup {NoCall}]
         /\ send \in [Callers -> Sends \cup {NoSend}]
         /\ copies \in [Callers -> [Channels -> Nat]]
         /\ silent \in [Callers -> [Channels -> Nat]]
         /\ run \in [Callers -> Runs \cup {NoRun}]
         /\ cancelled \subseteq Callers \ Detached
BY DEF TypeOK, MarketTypeOK, DeliveriesTypeOK

(* What is left to show of a step of c.                                    *)
Goal ==
  /\ CopiesInv' /\ RunInv'
  /\ DeliveriesTypeOK'
  /\ run' \in [Callers -> Runs \cup {NoRun}]
  /\ cancelled' \subseteq Callers \ Detached

LEMMA BeginStep ==
  ASSUME TypeOK, CopiesInv, RunInv, NEW c \in Callers, NEW p \in Providers,
         NEW period \in Periods, NEW symbols \in SUBSET Symbols,
         NEW dry \in BOOLEAN, dry => c \notin Detached,
         Begin(c, p, period, symbols, dry)
  PROVE  Goal
<1> DEFINE r == [at |-> "fetch", provider |-> p, period |-> period,
                 dry |-> dry, todo |-> symbols, candles |-> {},
                 missing |-> {}, toSend |-> {}, sent |-> {},
                 abandoned |-> FALSE]
<1> USE NoRunAssumption
<1>1. /\ r \in Runs /\ r.at = "fetch" /\ r.dry = dry /\ r.toSend = {}
      /\ r.sent = {} /\ r.abandoned = FALSE
  BY DEF Runs
<1>2. /\ run[c] = NoRun /\ run' = [run EXCEPT ![c] = r]
      /\ UNCHANGED <<cancelled, call, send, copies, silent>>
  BY DEF Begin, SetRun, marketVars, deliveryVars
<1> HIDE DEF r
<1>3. run'[c] = r /\ run' \in [Callers -> Runs \cup {NoRun}]
  BY <1>1, <1>2, RunTypes
<1>4. /\ send[c] = NoSend
      /\ \A n \in Channels : copies[c][n] = 0 /\ silent[c][n] = 0
  BY <1>2, NothingSent DEF RunAt
<1>5. \A n \in Channels :
        CopiesOf(n, run'[c], send'[c], copies'[c][n], silent'[c][n])
  BY <1>1, <1>2, <1>3, <1>4, Unsent
<1>6. call[c] = NoCall
  BY <1>2 DEF RunInv, RunOf, RunAt
<1>7. RunOf(c)'
  BY <1>1, <1>2, <1>3, <1>4, <1>6 DEF RunOf, RunAt
<1>8. Elsewhere(c)
  BY <1>2, RunTypes DEF Elsewhere, Live
<1> QED BY <1>2, <1>3, <1>5, <1>7, <1>8, OwnStep, RunTypes
        DEF Goal, DeliveriesTypeOK

LEMMA RecordStep ==
  ASSUME TypeOK, CopiesInv, RunInv, NEW c \in Callers, RecordResult(c)
  PROVE  Goal
<1> USE NoRunAssumption, NoCallAssumption
<1>1. /\ call[c] # NoCall /\ call[c] \in Calls
      /\ call' = [call EXCEPT ![c] = NoCall]
      /\ UNCHANGED <<cancelled, send, copies, silent>>
  BY RunTypes DEF RecordResult, At, Take, deliveryVars
<1>2. RunAt(c, "fetch") /\ run[c] \in Runs
  BY <1>1, RunTypes DEF RunInv, RunOf, RunAt
<1>3. /\ send[c] = NoSend
      /\ \A n \in Channels : copies[c][n] = 0 /\ silent[c][n] = 0
  BY <1>2, NothingSent DEF RunAt
<1> DEFINE s == call[c].symbol
           fit == {o \in call[c].got : Fits(run[c].provider, run[c].period, o)}
           r == [run[c] EXCEPT
                   !.todo = run[c].todo \ {s},
                   !.candles = run[c].candles \cup ({s} \X fit),
                   !.missing = IF fit = {} THEN run[c].missing \cup {s}
                                           ELSE run[c].missing,
                   !.abandoned = run[c].abandoned
                                   \/ (fit = {} /\ ~Live(c))]
<1>4. s \in Symbols /\ fit \subseteq Opens
  BY <1>1 DEF Calls
<1>5. run' = [run EXCEPT ![c] = r]
  BY DEF RecordResult, SetRun
<1> HIDE DEF s, fit
<1>6. {s} \X fit \subseteq Symbols \X Opens
  BY <1>4
<1>7. /\ r \in Runs /\ r.at = "fetch" /\ r.sent = run[c].sent
      /\ r.dry = run[c].dry /\ r.toSend = run[c].toSend
      /\ r.abandoned => run[c].abandoned \/ ~Live(c)
  BY <1>2, <1>4, <1>6 DEF Runs, RunAt
<1> HIDE DEF r
<1>8. /\ run'[c] = r /\ call'[c] = NoCall
      /\ run' \in [Callers -> Runs \cup {NoRun}]
  BY <1>1, <1>5, <1>7, RunTypes
<1>9. \A n \in Channels :
        CopiesOf(n, run'[c], send'[c], copies'[c][n], silent'[c][n])
  BY <1>1, <1>3, <1>7, <1>8, Unsent
<1>10. RunOf(c)'
  BY <1>1, <1>2, <1>3, <1>7, <1>8 DEF RunInv, RunOf, RunAt, Live
<1>11. Elsewhere(c)
  BY <1>1, <1>5, RunTypes DEF Elsewhere, Live
<1> QED BY <1>1, <1>8, <1>9, <1>10, <1>11, OwnStep, RunTypes
        DEF Goal, DeliveriesTypeOK

LEMMA BuildStep ==
  ASSUME TypeOK, CopiesInv, RunInv, NEW c \in Callers, BuildMessage(c)
  PROVE  Goal
<1> USE NoRunAssumption
<1> DEFINE r == [run[c] EXCEPT !.at = "notify", !.toSend = ChannelsFor(c)]
<1>1. /\ RunAt(c, "fetch") /\ run[c] \in Runs /\ call[c] = NoCall
      /\ run' = [run EXCEPT ![c] = r]
      /\ UNCHANGED <<cancelled, call, send, copies, silent>>
  BY RunTypes
     DEF BuildMessage, SetRun, RunAt, marketVars, deliveryVars
<1>2. /\ send[c] = NoSend
      /\ \A n \in Channels : copies[c][n] = 0 /\ silent[c][n] = 0
  BY <1>1, NothingSent DEF RunAt
<1>3. /\ ChannelsFor(c) \subseteq Channels
      /\ run[c].dry /\ c \notin Detached => ChannelsFor(c) = {}
  BY AlertRunsAssumption DEF ChannelsFor
<1>4. /\ r \in Runs /\ r.at = "notify" /\ r.sent = run[c].sent
      /\ r.dry = run[c].dry /\ r.toSend = ChannelsFor(c)
      /\ r.abandoned = run[c].abandoned
  BY <1>1, <1>3 DEF Runs
<1> HIDE DEF r
<1>5. run'[c] = r /\ run' \in [Callers -> Runs \cup {NoRun}]
  BY <1>1, <1>4, RunTypes
<1>6. \A n \in Channels :
        CopiesOf(n, run'[c], send'[c], copies'[c][n], silent'[c][n])
  BY <1>1, <1>2, <1>5, OutboundAssumption DEF CopiesOf
<1>7. RunOf(c)'
  BY <1>1, <1>2, <1>3, <1>4, <1>5 DEF RunInv, RunOf, RunAt, Live
<1>8. Elsewhere(c)
  BY <1>1, RunTypes DEF Elsewhere, Live
<1> QED BY <1>1, <1>5, <1>6, <1>7, <1>8, OwnStep, RunTypes
        DEF Goal, DeliveriesTypeOK

LEMMA NotifyStep ==
  ASSUME TypeOK, CopiesInv, RunInv, NEW c \in Callers, Notify(c)
  PROVE  Goal
<1> USE NoSendAssumption
<1>1. PICK n \in run[c].toSend : Send(c, n)
  BY DEF Notify
<1> DEFINE m == [channel |-> n, at |-> "post", attempt |-> 1, ok |-> FALSE]
<1>2. /\ RunAt(c, "notify") /\ run[c] \in Runs /\ send[c] = NoSend
      /\ send' = [send EXCEPT ![c] = m]
      /\ UNCHANGED <<cancelled, call, run, copies, silent>>
  BY <1>1, RunTypes DEF Notify, Send, RunAt, marketVars
<1>3. n \in Channels /\ MaxAttempts \in Nat \ {0}
  BY <1>2, OutboundAssumption DEF Runs
<1>4. /\ m \in Sends /\ m.channel = n /\ m.at = "post" /\ m.attempt = 1
  BY <1>3 DEF Sends
<1> HIDE DEF m
<1>5. send'[c] = m /\ send' \in [Callers -> Sends \cup {NoSend}]
  BY <1>2, <1>4, RunTypes
<1>6. ASSUME NEW x \in Channels
      PROVE  CopiesOf(x, run[c], m, copies[c][x], silent[c][x])
  <2>1. CopiesOf(x, run[c], NoSend, copies[c][x], silent[c][x])
    BY <1>2 DEF CopiesInv
  <2>2. CASE x # n
    BY <1>4, <2>1, <2>2 DEF CopiesOf
  <2>3. CASE x = n
    <3>1. copies[c][x] = 0 /\ silent[c][x] = 0
      BY <1>1, <2>1, <2>3 DEF CopiesOf
    <3> QED BY <1>1, <1>2, <1>3, <1>4, <2>3, <3>1 DEF CopiesOf, RunAt
  <2> QED BY <2>2, <2>3
<1>7. RunOf(c)'
  BY <1>2, <1>5 DEF RunInv, RunOf, RunAt, Live
<1>8. Elsewhere(c)
  BY <1>2, RunTypes DEF Elsewhere, Live
<1>9. CopiesInv' /\ RunInv'
  BY <1>2, <1>5, <1>6, <1>7, <1>8, OwnStep
<1> QED BY <1>2, <1>5, <1>9, RunTypes DEF Goal, DeliveriesTypeOK

LEMMA VerdictStep ==
  ASSUME TypeOK, CopiesInv, RunInv, NEW c \in Callers, RecordVerdict(c)
  PROVE  Goal
<1> USE NoSendAssumption, NoRunAssumption
<1>1. PICK n : n = send[c].channel
  OBVIOUS
<1> DEFINE r == [run[c] EXCEPT
                   !.toSend = run[c].toSend \ {n},
                   !.sent = run[c].sent \cup
                              IF send[c].ok THEN {n} ELSE {}]
<1>2. /\ send[c] # NoSend /\ send[c] \in Sends /\ send[c].at = "returned"
      /\ send' = [send EXCEPT ![c] = NoSend]
      /\ run' = [run EXCEPT ![c] = r]
      /\ UNCHANGED <<cancelled, call, copies, silent>>
  BY <1>1, RunTypes DEF RecordVerdict, SendAt, SetRun, marketVars
<1>3. /\ n \in Channels /\ RunAt(c, "notify") /\ run[c] \in Runs
      /\ n \in run[c].toSend
      /\ send[c].ok => copies[c][n] > 0
  <2>1. n \in Channels
    BY <1>1, <1>2 DEF Sends
  <2>2. CopiesOf(n, run[c], send[c], copies[c][n], silent[c][n])
    BY <2>1 DEF CopiesInv
  <2> QED BY <1>1, <1>2, <2>1, <2>2, RunTypes DEF CopiesOf, RunAt
<1>4. /\ r \in Runs /\ r.at = "notify" /\ r.toSend = run[c].toSend \ {n}
      /\ r.sent = run[c].sent \cup IF send[c].ok THEN {n} ELSE {}
      /\ r.dry = run[c].dry /\ r.abandoned = run[c].abandoned
  BY <1>3 DEF Runs, RunAt
<1> HIDE DEF r
<1>5. /\ run'[c] = r /\ run' \in [Callers -> Runs \cup {NoRun}]
      /\ send'[c] = NoSend /\ send' \in [Callers -> Sends \cup {NoSend}]
  BY <1>2, <1>4, RunTypes
<1>6. ASSUME NEW x \in Channels
      PROVE  CopiesOf(x, r, NoSend, copies[c][x], silent[c][x])
  <2>1. CopiesOf(x, run[c], send[c], copies[c][x], silent[c][x])
    BY DEF CopiesInv
  <2> QED BY <1>1, <1>3, <1>4, <2>1 DEF CopiesOf, RunAt
<1>7. RunOf(c)'
  <2>1. RunOf(c) /\ run[c] # NoRun /\ run[c].at = "notify"
    BY <1>3 DEF RunInv, RunAt
  <2>2. call'[c] = NoCall
    BY <1>2, <2>1 DEF RunOf, RunAt
  <2>3. \A x \in r.sent : x \notin r.toSend /\ copies[c][x] > 0
    BY <1>3, <1>4, <2>1 DEF RunOf
  <2>4. r.dry => c \notin Detached /\ r.toSend = {}
    BY <1>4, <2>1 DEF RunOf
  <2>5. /\ r.dry \/ r.abandoned => \A x \in Channels : copies[c][x] = 0
        /\ r.abandoned => ~Live(c)
    BY <1>4, <2>1 DEF RunOf
  <2>6. run'[c].at # "fetch"
    BY <1>4, <1>5
  <2> QED BY <1>2, <1>5, <2>2, <2>3, <2>4, <2>5, <2>6 DEF RunOf, RunAt, Live
<1>8. Elsewhere(c)
  BY <1>2, RunTypes DEF Elsewhere, Live
<1>9. CopiesInv' /\ RunInv'
  BY <1>2, <1>5, <1>6, <1>7, <1>8, OwnStep
<1> QED BY <1>2, <1>5, <1>9, RunTypes DEF Goal, DeliveriesTypeOK

LEMMA AnswerStep ==
  ASSUME TypeOK, CopiesInv, RunInv, NEW c \in Callers, Answer(c)
  PROVE  Goal
<1> DEFINE zero == [n \in Channels |-> 0]
<1>1. /\ run[c] # NoRun /\ run[c].at = "notify" /\ send[c] = NoSend
      /\ run' = [run EXCEPT ![c] = NoRun]
      /\ cancelled' = cancelled \ {c}
      /\ copies' = [copies EXCEPT ![c] = zero]
      /\ silent' = [silent EXCEPT ![c] = zero]
      /\ UNCHANGED <<call, send>>
  BY DEF Answer, Reported, RunAt, End, SetRun, Forget, ForgetMessage,
         marketVars
<1>2. call[c] = NoCall
  BY <1>1 DEF RunInv, RunOf, RunAt
<1>3. /\ zero \in [Channels -> Nat]
      /\ \A n \in Channels : zero[n] = 0
  OBVIOUS
<1> HIDE DEF zero
<1>4. /\ run'[c] = NoRun /\ copies'[c] = zero /\ silent'[c] = zero
      /\ run' \in [Callers -> Runs \cup {NoRun}]
      /\ copies' \in [Callers -> [Channels -> Nat]]
      /\ silent' \in [Callers -> [Channels -> Nat]]
      /\ cancelled' \subseteq Callers \ Detached
  BY <1>1, <1>3, RunTypes
<1>5. \A n \in Channels :
        CopiesOf(n, run'[c], send'[c], copies'[c][n], silent'[c][n])
  BY <1>1, <1>3, <1>4, Unsent
<1>6. RunOf(c)'
  BY <1>1, <1>2, <1>4 DEF RunOf, RunAt
<1>7. Elsewhere(c)
  BY <1>1, RunTypes DEF Elsewhere, Live
<1>8. CopiesInv' /\ RunInv'
  BY <1>5, <1>6, <1>7, OwnStep
<1> QED BY <1>1, <1>4, <1>8, RunTypes DEF Goal, DeliveriesTypeOK

LEMMA DeliverStep ==
  ASSUME TypeOK, CopiesInv, RunInv, NEW c \in Callers, DeliveryStep(c),
         UNCHANGED <<cancelled, marketVars, run>>
  PROVE  Goal
<1> USE NoSendAssumption
<1>1. PICK n : n = send[c].channel
  OBVIOUS
<1>2. /\ n \in Channels /\ RunAt(c, "notify") /\ n \in run[c].toSend
      /\ \E m \in Sends, k \in Nat, l \in Nat :
           /\ m.channel = n
           /\ send' = [send EXCEPT ![c] = m]
           /\ copies' = [copies EXCEPT ![c] = [copies[c] EXCEPT ![n] = k]]
           /\ silent' = [silent EXCEPT ![c] = [silent[c] EXCEPT ![n] = l]]
           /\ k >= copies[c][n]
           /\ k # copies[c][n] => Live(c)
           /\ CopiesOf(n, run[c], m, k, l)
  BY <1>1, DeliveryFacts
<1>3. PICK m \in Sends, k \in Nat, l \in Nat :
           /\ m.channel = n
           /\ send' = [send EXCEPT ![c] = m]
           /\ copies' = [copies EXCEPT ![c] = [copies[c] EXCEPT ![n] = k]]
           /\ silent' = [silent EXCEPT ![c] = [silent[c] EXCEPT ![n] = l]]
           /\ k >= copies[c][n]
           /\ k # copies[c][n] => Live(c)
           /\ CopiesOf(n, run[c], m, k, l)
  BY <1>2
<1>4. /\ copies[c] \in [Channels -> Nat] /\ silent[c] \in [Channels -> Nat]
      /\ UNCHANGED <<cancelled, call, run>>
  BY RunTypes DEF marketVars
<1>5. /\ send' \in [Callers -> Sends \cup {NoSend}]
      /\ copies' \in [Callers -> [Channels -> Nat]]
      /\ silent' \in [Callers -> [Channels -> Nat]]
  <2>1. /\ [copies[c] EXCEPT ![n] = k] \in [Channels -> Nat]
        /\ [silent[c] EXCEPT ![n] = l] \in [Channels -> Nat]
    BY <1>3, <1>4
  <2> QED BY <1>3, <2>1, RunTypes
<1>6. /\ send'[c] = m /\ copies'[c][n] = k /\ silent'[c][n] = l
      /\ \A x \in Channels \ {n} : /\ copies'[c][x] = copies[c][x]
                                   /\ silent'[c][x] = silent[c][x]
  BY <1>2, <1>3, <1>4, RunTypes
<1>7. send[c] # NoSend
  BY DEF DeliveryStep, PostTaken, PostTakenSilently, PostFails, PostRefused,
         WakeSend, GiveUpSend, Posting, SendAt
<1>8. ASSUME NEW x \in Channels
      PROVE  CopiesOf(x, run'[c], send'[c], copies'[c][x], silent'[c][x])
  <2>1. CASE x = n
    BY <1>3, <1>4, <1>6, <2>1
  <2>2. CASE x # n
    <3>1. CopiesOf(x, run[c], send[c], copies[c][x], silent[c][x])
      BY DEF CopiesInv
    <3> QED BY <1>1, <1>3, <1>4, <1>6, <2>2, <3>1 DEF CopiesOf
  <2> QED BY <2>1, <2>2
<1>9. RunOf(c)'
  <2>1. RunOf(c) /\ run[c] # NoRun /\ run[c].at = "notify" /\ run[c] \in Runs
    BY <1>2, RunTypes DEF RunInv, RunAt
  <2>2. call'[c] = NoCall
    BY <1>4, <2>1 DEF RunOf, RunAt
  <2>3. ASSUME NEW x \in run[c].sent
        PROVE  x \notin run[c].toSend /\ copies'[c][x] > 0
    <3>1. x \notin run[c].toSend /\ copies[c][x] > 0 /\ x \in Channels
      BY <2>1 DEF RunOf, Runs
    <3> QED BY <1>2, <1>6, <3>1
  <2>4. ~run[c].dry
    BY <1>2, <2>1 DEF RunOf
  <2>5. run[c].abandoned =>
          ~Live(c) /\ \A x \in Channels : copies'[c][x] = 0
    <3>1. run[c].abandoned =>
            ~Live(c) /\ \A x \in Channels : copies[c][x] = 0
      BY <2>1 DEF RunOf
    <3> QED BY <1>2, <1>3, <1>6, <3>1
  <2> QED BY <1>4, <2>1, <2>2, <2>3, <2>4, <2>5 DEF RunOf, RunAt, Live
<1>10. Elsewhere(c)
  BY <1>3, <1>4, RunTypes DEF Elsewhere, Live
<1>11. CopiesInv' /\ RunInv'
  BY <1>8, <1>9, <1>10, OwnStep
<1> QED BY <1>4, <1>5, <1>11, RunTypes DEF Goal, DeliveriesTypeOK

(* A step within GetKline, and the end of the client's connection.         *)
LEMMA OtherStep ==
  ASSUME TypeOK, CopiesInv, RunInv, UNCHANGED <<run, send, copies, silent>>,
         cancelled \subseteq cancelled',
         cancelled' \subseteq Callers \ Detached,
         \A e \in Callers :
           call'[e] # NoCall => call[e] # NoCall \/ RunAt(e, "fetch")
  PROVE  Goal
<1>1. CopiesInv'
  BY DEF CopiesInv
<1>2. ASSUME NEW e \in Callers PROVE RunOf(e)'
  <2>1. RunOf(e) /\ run'[e] = run[e] /\ send'[e] = send[e]
    BY DEF RunInv
  <2> QED BY <2>1 DEF RunOf, RunAt, Live
<1> QED BY <1>1, <1>2, RunTypes DEF Goal, RunInv, DeliveriesTypeOK

LEMMA RunStep ==
  ASSUME TypeOK, QueueInv, PlaceInv, AnswersInv, CopiesInv, RunInv,
         [Next]_vars
  PROVE  Goal
<1>1. ASSUME NEW c \in Callers, RunAlert(c) PROVE Goal
  <2>1. PICK p \in Providers, period \in AskedPeriods, dry \in BOOLEAN,
             symbols \in (SUBSET Symbols) \ {{}} :
          Begin(c, p, period, symbols, dry)
    BY <1>1 DEF RunAlert
  <2>2. period \in Periods /\ c \notin Detached
    BY <1>1, AlertRunsAssumption DEF RunAlert
  <2> QED BY <2>1, <2>2, BeginStep
<1>2. ASSUME NEW c \in Callers, Round(c) PROVE Goal
  <2>1. PICK p \in Providers :
          Begin(c, p, RoundPeriod, DefaultSymbols, FALSE)
    BY <1>2 DEF Round
  <2>2. RoundPeriod \in Periods /\ DefaultSymbols \in SUBSET Symbols
    BY AlertRunsAssumption
  <2> QED BY <2>1, <2>2, BeginStep
<1>3. ASSUME NEW c \in Callers, MarketStep(c),
             UNCHANGED <<cancelled, deliveryVars, run>>
      PROVE  Goal
  <2>1. \A e \in Callers : call'[e] # NoCall => call[e] # NoCall
    BY <1>3, RunTypes, CallsKept
  <2> QED BY <1>3, <2>1, OtherStep, RunTypes DEF deliveryVars
<1>4. ASSUME NEW c \in Callers, FetchSymbol(c) PROVE Goal
  <2>1. PICK s : GetKline(c, run[c].provider, s, run[c].period)
    BY <1>4 DEF FetchSymbol
  <2>2. /\ RunAt(c, "fetch")
        /\ UNCHANGED <<cancelled, run, send, copies, silent>>
    BY <1>4 DEF FetchSymbol, deliveryVars
  <2>3. \A e \in Callers \ {c} : call'[e] = call[e]
    BY <2>1, RunTypes DEF GetKline
  <2> QED BY <2>2, <2>3, OtherStep, RunTypes
<1>5. ASSUME NEW c \in Callers, ClientLeaves(c) PROVE Goal
  <2>1. /\ UNCHANGED <<run, send, copies, silent, call>>
        /\ c \notin Detached /\ cancelled' = cancelled \cup {c}
    BY <1>5 DEF ClientLeaves, Disconnect, deliveryVars, marketVars
  <2> QED BY <2>1, OtherStep, RunTypes
<1>6. CASE UNCHANGED vars
  BY <1>6, OtherStep, RunTypes DEF vars, deliveryVars, marketVars
<1> QED
  BY <1>1, <1>2, <1>3, <1>4, <1>5, <1>6, RecordStep, BuildStep, NotifyStep,
     VerdictStep, AnswerStep, DeliverStep
     DEF Next, Proceed

(* The candles of a message are those that fit its period.                 *)
LEMMA CandleStep ==
  ASSUME TypeOK, CandlesInv, RunInv, [Next]_vars
  PROVE  CandlesInv'
<1> DEFINE InPeriod(r) ==
      \A x \in r.candles :
        /\ r.period.start <= x[2]
        /\ x[2] + Duration <= r.period.end + Tolerance + 1
<1>1. \A c \in Callers : run[c] # NoRun => InPeriod(run[c])
  BY DEF CandlesInv
<1>2. ASSUME NEW c \in Callers, NEW r, run' = [run EXCEPT ![c] = r],
             r # NoRun => InPeriod(r)
      PROVE  CandlesInv'
  <2> HIDE DEF InPeriod
  <2>1. \A e \in Callers : run'[e] # NoRun => InPeriod(run'[e])
    BY <1>1, <1>2, RunTypes
  <2> QED BY <2>1 DEF InPeriod, CandlesInv
<1>3. ASSUME NEW c \in Callers, NEW p, NEW period, NEW symbols, NEW dry,
             Begin(c, p, period, symbols, dry)
      PROVE  CandlesInv'
  <2> DEFINE r == [at |-> "fetch", provider |-> p, period |-> period,
                   dry |-> dry, todo |-> symbols, candles |-> {},
                   missing |-> {}, toSend |-> {}, sent |-> {},
                   abandoned |-> FALSE]
  <2>1. run' = [run EXCEPT ![c] = r] /\ r.candles = {}
    BY <1>3 DEF Begin, SetRun
  <2> HIDE DEF r
  <2>2. InPeriod(r)
    BY <2>1
  <2> QED BY <1>2, <2>1, <2>2
<1>4. ASSUME NEW c \in Callers, RecordResult(c) PROVE CandlesInv'
  <2>1. /\ call[c] # NoCall /\ call[c] \in Calls
        /\ run[c] # NoRun /\ run[c] \in Runs
    BY <1>4, RunTypes DEF RecordResult, At, RunInv, RunOf, RunAt
  <2> DEFINE s == call[c].symbol
             fit == {o \in call[c].got :
                      Fits(run[c].provider, run[c].period, o)}
             r == [run[c] EXCEPT
                     !.todo = run[c].todo \ {s},
                     !.candles = run[c].candles \cup ({s} \X fit),
                     !.missing = IF fit = {} THEN run[c].missing \cup {s}
                                             ELSE run[c].missing,
                     !.abandoned = run[c].abandoned
                                     \/ (fit = {} /\ ~Live(c))]
  <2>2. run' = [run EXCEPT ![c] = r]
    BY <1>4 DEF RecordResult, SetRun
  <2>3. ASSUME NEW o \in fit
        PROVE  /\ run[c].period.start <= o
               /\ o + Duration <= run[c].period.end + Tolerance + 1
    <3>1. /\ o \in Nat /\ Duration \in Nat /\ Tolerance \in Nat
          /\ run[c].period.start \in Nat /\ run[c].period.end \in Nat
      BY <2>1, MarketAssumption, AlertRunsAssumption DEF Calls, Runs, Periods
    <3>2. /\ run[c].period.start <= o
          /\ \/ o + Duration <= run[c].period.end + Tolerance
             \/ o + Duration - 1 <= run[c].period.end + Tolerance
      BY DEF Fits, ClosesAt
    <3> QED BY <3>1, <3>2
  <2> HIDE DEF s, fit
  <2>4. /\ r.period = run[c].period
        /\ r.candles = run[c].candles \cup ({s} \X fit)
    BY <2>1 DEF Runs
  <2> HIDE DEF r
  <2>5. \A x \in {s} \X fit : x[2] \in fit
    OBVIOUS
  <2>6. InPeriod(r)
    BY <1>1, <2>1, <2>3, <2>4, <2>5
  <2> QED BY <1>2, <2>2, <2>6
<1>5. ASSUME NEW c \in Callers, BuildMessage(c) PROVE CandlesInv'
  <2> DEFINE r == [run[c] EXCEPT !.at = "notify", !.toSend = ChannelsFor(c)]
  <2>1. /\ run[c] # NoRun /\ run[c] \in Runs
        /\ run' = [run EXCEPT ![c] = r]
    BY <1>5, RunTypes DEF BuildMessage, RunAt, SetRun
  <2>2. r.period = run[c].period /\ r.candles = run[c].candles
    BY <2>1 DEF Runs
  <2> HIDE DEF r
  <2>3. InPeriod(r)
    BY <1>1, <2>1, <2>2
  <2> QED BY <1>2, <2>1, <2>3
<1>6. ASSUME NEW c \in Callers, RecordVerdict(c) PROVE CandlesInv'
  <2> DEFINE n == send[c].channel
             r == [run[c] EXCEPT
                     !.toSend = run[c].toSend \ {n},
                     !.sent = run[c].sent \cup
                                IF send[c].ok THEN {n} ELSE {}]
  <2>1. run' = [run EXCEPT ![c] = r]
    BY <1>6 DEF RecordVerdict, SetRun
  <2>2. run[c] # NoRun /\ run[c] \in Runs
    BY <1>6, RunTypes DEF RecordVerdict, SendAt, RunInv, RunOf, RunAt
  <2>3. r.period = run[c].period /\ r.candles = run[c].candles
    BY <2>2 DEF Runs
  <2> HIDE DEF r
  <2>4. InPeriod(r)
    BY <1>1, <2>2, <2>3
  <2> QED BY <1>2, <2>1, <2>4
<1>7. ASSUME NEW c \in Callers, Answer(c) PROVE CandlesInv'
  BY <1>2, <1>7 DEF Answer, End, SetRun
<1>8. CASE UNCHANGED run
  BY <1>8 DEF CandlesInv
<1> QED
  BY <1>3, <1>4, <1>5, <1>6, <1>7, <1>8
     DEF Next, RunAlert, Round, Proceed, FetchSymbol, Notify, ClientLeaves,
         vars

(* What fits a period of one interval is one candle: candles do not        *)
(* overlap, and the tolerance is shorter than an interval.                 *)
LEMMA OneCandleFits ==
  ASSUME TypeOK, CandlesInv
  PROVE  CandleOfPeriod
<1>1. /\ Opens \subseteq Nat /\ Duration \in Nat /\ Tolerance \in Nat
      /\ Tolerance + 1 < Duration
      /\ \A a, b \in Opens : a < b => a + Duration <= b
  BY MarketAssumption, AlertRunsAssumption
<1>2. ASSUME NEW c \in Callers, run[c] # NoRun, NEW x \in run[c].candles
      PROVE  /\ x[2] \in Opens
             /\ run[c].period.start \in Nat /\ run[c].period.end \in Nat
             /\ run[c].period.start <= x[2]
             /\ x[2] + Duration <= run[c].period.end + Tolerance + 1
  <2>1. run[c] \in Runs
    BY <1>2, RunTypes
  <2>2. x[2] \in Opens
    BY <1>2, <2>1 DEF Runs
  <2>3. run[c].period.start \in Nat /\ run[c].period.end \in Nat
    BY <2>1 DEF Runs, Periods
  <2> QED BY <1>2, <2>2, <2>3 DEF CandlesInv
<1>3. ASSUME NEW p \in Nat, NEW a \in Opens, NEW b \in Opens,
             p <= a, p <= b,
             a + Duration <= p + Duration + Tolerance + 1,
             b + Duration <= p + Duration + Tolerance + 1
      PROVE  a = b
  BY <1>1, <1>3
<1>4. ASSUME NEW c \in Callers, run[c] # NoRun, NEW x \in run[c].candles,
             run[c].period.end = run[c].period.start + Duration,
             run[c].period.start \in Opens
      PROVE  x[2] = run[c].period.start
  <2>1. /\ x[2] \in Opens /\ run[c].period.start \in Nat
        /\ run[c].period.start <= x[2]
        /\ x[2] + Duration
             <= run[c].period.start + Duration + Tolerance + 1
    BY <1>2, <1>4
  <2>2. /\ run[c].period.start <= run[c].period.start
        /\ run[c].period.start + Duration
             <= run[c].period.start + Duration + Tolerance + 1
    BY <1>1, <2>1
  <2> QED BY <1>3, <1>4, <2>1, <2>2
<1>5. ASSUME NEW c \in Callers, run[c] # NoRun, NEW x \in run[c].candles,
             run[c].period.end = run[c].period.start + Duration,
             NEW d \in Callers, run[d] # NoRun,
             run[d].period = run[c].period, NEW y \in run[d].candles
      PROVE  y[2] = x[2]
  <2>1. /\ x[2] \in Opens /\ run[c].period.start \in Nat
        /\ run[c].period.start <= x[2]
        /\ x[2] + Duration
             <= run[c].period.start + Duration + Tolerance + 1
    BY <1>2, <1>5
  <2>2. /\ y[2] \in Opens /\ run[c].period.start <= y[2]
        /\ y[2] + Duration
             <= run[c].period.start + Duration + Tolerance + 1
    BY <1>2, <1>5
  <2> QED BY <1>3, <2>1, <2>2
<1> QED BY <1>2, <1>4, <1>5 DEF CandleOfPeriod

-----------------------------------------------------------------------------
(* The theorems                                                            *)

LEMMA InitInv == Init => IInv
<1> SUFFICES ASSUME Init PROVE IInv
  OBVIOUS
<1>1. /\ call = [c \in Callers |-> NoCall] /\ run = [c \in Callers |-> NoRun]
      /\ send = [c \in Callers |-> NoSend]
      /\ answers = [c \in Callers |-> <<>>]
      /\ inUse = [p \in Providers |-> 0]
      /\ waiting = [p \in Providers |-> <<>>]
      /\ copies = [c \in Callers |-> [n \in Channels |-> 0]]
      /\ silent = [c \in Callers |-> [n \in Channels |-> 0]]
      /\ cancelled = {}
  BY DEF Init, MarketInit, DeliveriesInit
<1>2. TypeOK
  <2>1. \A S : <<>> \in Seq(S)
    BY EmptySeq
  <2>2. MarketTypeOK
    BY <1>1, <2>1 DEF MarketTypeOK
  <2>3. DeliveriesTypeOK
    BY <1>1 DEF DeliveriesTypeOK
  <2> QED BY <1>1, <2>2, <2>3 DEF TypeOK
<1>3. QueueInv
  <2>1. DOMAIN <<>> = {}
    BY EmptySeq
  <2>2. ASSUME NEW p \in Providers PROVE Lines(waiting[p], Waiters(p))
    <3>1. waiting[p] = <<>> /\ Waiters(p) = {}
      BY <1>1 DEF Waiters, WaitsFor, At
    <3> QED BY <2>1, <3>1 DEF Lines
  <2> QED BY <2>2 DEF QueueInv
<1>4. PlaceInv
  <2>1. ASSUME NEW p \in Providers PROVE PlaceOf(p)
    <3>1. Holders(p) = {} /\ inUse[p] = 0 /\ waiting[p] = <<>>
      BY <1>1 DEF Holders, Holds
    <3>2. Cardinality(Holders(p)) = 0
      BY <3>1, FS_EmptySet
    <3> QED BY <3>1, <3>2, MarketAssumption DEF PlaceOf
  <2> QED BY <2>1 DEF PlaceInv
<1>5. AnswersInv
  BY <1>1 DEF AnswersInv, AnswersOf
<1>6. CopiesInv
  BY <1>1, OutboundAssumption DEF CopiesInv, CopiesOf
<1>7. RunInv /\ CandlesInv
  BY <1>1 DEF RunInv, RunOf, CandlesInv
<1> QED BY <1>2, <1>3, <1>4, <1>5, <1>6, <1>7 DEF IInv

LEMMA IInvStep == IInv /\ [Next]_vars => IInv'
<1> SUFFICES ASSUME IInv, [Next]_vars PROVE IInv'
  OBVIOUS
<1>1. /\ TypeOK /\ QueueInv /\ PlaceInv /\ AnswersInv /\ CopiesInv
      /\ RunInv /\ CandlesInv
  BY DEF IInv
<1>2. Effect
  BY <1>1, SlotEffects
<1>3. AnswersInv' /\ answers' \in [Callers -> Seq(Answers)]
  BY <1>1, AnswersStep
<1>4. MarketTypeOK'
  BY <1>1, <1>3, SlotTypes DEF MarketTypeOK, Answers
<1>5. MarketTypeOK
  BY <1>1 DEF TypeOK
<1>6. QueueInv' /\ PlaceInv'
  BY <1>1, <1>2, <1>4, <1>5, QueueStep, PlaceStep
<1>7. Goal
  BY <1>1, RunStep
<1>8. TypeOK'
  BY <1>4, <1>7 DEF Goal, TypeOK
<1>9. CandlesInv'
  BY <1>1, CandleStep
<1> QED BY <1>3, <1>6, <1>7, <1>8, <1>9 DEF Goal, IInv

(* The conjunction of what holds of the places, the lines, the answers,    *)
(* the copies and the runs is an invariant.                                *)
THEOREM Invariance == Spec => []IInv
BY InitInv, IInvStep, PTL DEF Spec

(* Every variable has its type in every state that can be reached.         *)
THEOREM TypeCorrect == Spec => []TypeOK
<1>1. IInv => TypeOK
  BY DEF IInv
<1> QED BY <1>1, Invariance, PTL

LEMMA SlotsFollow == IInv => SlotsAccounted
<1> SUFFICES ASSUME IInv, NEW p \in Providers
             PROVE  /\ inUse[p] = Cardinality({c \in Callers : Holds(c, p)})
                    /\ inUse[p] <= Concurrency
                    /\ waiting[p] # <<>> => Full(p)
                    /\ \A c \in Callers :
                         Cardinality({i \in DOMAIN waiting[p] :
                                        waiting[p][i] = c})
                           = IF WaitsFor(c, p) THEN 1 ELSE 0
  BY DEF SlotsAccounted, WaitsFor
<1>1. PlaceOf(p) /\ Lines(waiting[p], Waiters(p))
  BY DEF IInv, PlaceInv, QueueInv
<1>2. ASSUME NEW c \in Callers
      PROVE  Cardinality({i \in DOMAIN waiting[p] : waiting[p][i] = c})
               = IF WaitsFor(c, p) THEN 1 ELSE 0
  <2> DEFINE places == {i \in DOMAIN waiting[p] : waiting[p][i] = c}
  <2>1. CASE WaitsFor(c, p)
    <3>1. PICK i \in DOMAIN waiting[p] : waiting[p][i] = c
      BY <1>1, <2>1 DEF Lines, Waiters
    <3>2. places = {i}
      BY <1>1, <3>1 DEF Lines
    <3> QED BY <2>1, <3>2, FS_Singleton
  <2>2. CASE ~WaitsFor(c, p)
    <3>1. places = {}
      BY <1>1, <2>2 DEF Lines, Waiters
    <3> QED BY <2>2, <3>1, FS_EmptySet
  <2> QED BY <2>1, <2>2
<1> QED BY <1>1, <1>2 DEF PlaceOf, Holders

(* A provider's semaphore holds one value for every call inside it, never  *)
(* more than the limit, and its line holds each waiting call once.         *)
THEOREM SlotsCorrect == Spec => []SlotsAccounted
BY SlotsFollow, Invariance, PTL

LEMMA RetriesFollow == IInv => RetriesOnlyTransient
<1> SUFFICES ASSUME IInv, NEW c \in Callers
             PROVE  /\ Len(answers[c]) <= MaxAttempts
                    /\ \A i \in DOMAIN answers[c] :
                         i < Len(answers[c]) \/ At(c, "sleep") =>
                           answers[c][i] = "transient"
  BY DEF RetriesOnlyTransient
<1>1. /\ AnswersOf(call[c], answers[c])
      /\ call[c] \in Calls \cup {NoCall}
      /\ answers[c] \in Seq(Answers)
  BY DEF IInv, AnswersInv, TypeOK, MarketTypeOK, Answers
<1>2. Len(answers[c]) \in Nat /\ MaxAttempts \in Nat \ {0}
  BY <1>1, LenProperties, OutboundAssumption
<1>3. CASE answers[c] = <<>>
  BY <1>2, <1>3, EmptySeq
<1>4. CASE call[c] # NoCall /\ call[c].at \in {"request", "sleep", "returned"}
  <2>1. call[c].attempt \in 1..MaxAttempts
    BY <1>1, <1>4 DEF Calls
  <2> QED BY <1>1, <1>2, <1>4, <2>1 DEF AnswersOf, Transient, At
<1> QED BY <1>1, <1>3, <1>4 DEF AnswersOf, Calls, Inside

(* A market request is repeated only after a transient failure, and never  *)
(* more often than retry.max_attempts.                                     *)
THEOREM RetriesCorrect == Spec => []RetriesOnlyTransient
BY RetriesFollow, Invariance, PTL

LEMMA RunsFollow ==
  IInv => CopiesExplained /\ ReportIsTrue /\ NothingCutShort
<1> SUFFICES ASSUME IInv
             PROVE  CopiesExplained /\ ReportIsTrue /\ NothingCutShort
  OBVIOUS
<1>1. CopiesExplained
  BY DEF IInv, CopiesInv, CopiesOf, CopiesExplained
<1>2. ReportIsTrue
  BY DEF IInv, RunInv, RunOf, ReportIsTrue, Reported, RunAt
<1>3. NothingCutShort
  BY DEF IInv, RunInv, RunOf, NothingCutShort
<1> QED BY <1>1, <1>2, <1>3

(* A chat shows a message twice only if the platform kept silent about the *)
(* first copy.                                                             *)
THEOREM CopiesCorrect == Spec => []CopiesExplained
BY RunsFollow, Invariance, PTL

(* What the answer says of the channels is what happened to the message.   *)
THEOREM ReportCorrect == Spec => []ReportIsTrue
BY RunsFollow, Invariance, PTL

(* A message that misses a symbol because its client left reaches no chat. *)
THEOREM NothingCutShortCorrect == Spec => []NothingCutShort
BY RunsFollow, Invariance, PTL

(* A message for one interval tells of the period's own candle, or, for a  *)
(* period off the grid, of the one candle the tolerance lets pass.         *)
THEOREM CandleCorrect == Spec => []CandleOfPeriod
<1>1. IInv => CandleOfPeriod
  BY OneCandleFits DEF IInv
<1> QED BY <1>1, Invariance, PTL

=============================================================================
