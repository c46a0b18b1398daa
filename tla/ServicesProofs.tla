--------------------------- MODULE ServicesProofs ---------------------------
(***************************************************************************)
(* What the components that stand on their own guarantee, for any number   *)
(* of threads, clients, processes and symbols, and all caps, lives and     *)
(* ages: the limiters of QuotaLimiter and RateLimit, the rankings of       *)
(* FxRanking, the answers of Statements, the opinions of AiEvidence, the   *)
(* jobs of WorkerJobs and the lists of MarketScan.                         *)
(***************************************************************************)
EXTENDS QuotaLimiter, FxRanking, Statements, RateLimit, AiEvidence, WorkerJobs, MarketScan,
        LeastNumber, FiniteSetTheorems, SequenceTheorems

-----------------------------------------------------------------------------
(* The queue of stamps.                                                    *)

\* The loop stops at the first stamp that is not expired, or at the end.
LEMMA DroppedIsPrefix ==
  ASSUME NEW stamps \in Seq(Int), NEW cutoff \in Int
  PROVE  /\ Dropped(stamps, cutoff) \in 0..Len(stamps)
         /\ \A i \in 1..Dropped(stamps, cutoff) : stamps[i] <= cutoff
         /\ Dropped(stamps, cutoff) < Len(stamps)
              => stamps[Dropped(stamps, cutoff) + 1] > cutoff
<1> DEFINE Stops == {n \in 0..Len(stamps) : n < Len(stamps) => stamps[n + 1] > cutoff}
<1>1. Len(stamps) \in Stops /\ Stops \in SUBSET Nat
  OBVIOUS
<1>2. PICK least \in Stops : \A n \in Stops : least <= n
  <2> HIDE DEF Stops
  <2>1. QED
    BY <1>1, LeastExists
<1>3. ASSUME NEW i \in 1..least PROVE stamps[i] <= cutoff
  <2>1. i - 1 \in 0..Len(stamps) /\ i - 1 < least /\ i - 1 < Len(stamps)
    BY <1>2
  <2>2. i - 1 \notin Stops
    BY <1>2, <2>1
  <2>3. ~(stamps[(i - 1) + 1] > cutoff) /\ (i - 1) + 1 = i /\ i \in 1..Len(stamps)
    BY <2>1, <2>2
  <2>4. stamps[i] \in Int
    BY <2>3
  <2>5. QED
    BY <2>3, <2>4
<1>4. \E n \in 0..Len(stamps) :
        /\ \A i \in 1..n : stamps[i] <= cutoff
        /\ n < Len(stamps) => stamps[n + 1] > cutoff
  BY <1>2, <1>3
<1>5. QED
  BY <1>4 DEF Dropped

\* What remains is the end of the queue, and it starts with a fresh stamp.
LEMMA RemainingIsSuffix ==
  ASSUME NEW stamps \in Seq(Nat), NEW cutoff \in Int
  PROVE  LET left == Remaining(stamps, cutoff)
             gone == Len(stamps) - Len(left)
         IN  /\ left \in Seq(Nat)
             /\ Len(left) <= Len(stamps)
             /\ \A i \in 1..Len(left) : left[i] = stamps[gone + i]
             /\ \A i \in 1..gone : stamps[i] <= cutoff
             /\ Len(left) > 0 => left[1] > cutoff
<1> DEFINE d == Dropped(stamps, cutoff)
           left == Remaining(stamps, cutoff)
<1>1. stamps \in Seq(Int)
  <2>1. stamps \in [1..Len(stamps) -> Int] /\ Len(stamps) \in Nat
    OBVIOUS
  <2>2. QED
    BY <2>1
<1>2. /\ d \in 0..Len(stamps)
      /\ \A i \in 1..d : stamps[i] <= cutoff
      /\ d < Len(stamps) => stamps[d + 1] > cutoff
  BY <1>1, DroppedIsPrefix
<1> HIDE DEF d
<1>3. left = SubSeq(stamps, d + 1, Len(stamps))
  BY DEF Remaining, d
<1>4. left \in Seq(Nat) /\ Len(left) = Len(stamps) - d
  BY <1>2, <1>3
<1>5. ASSUME NEW i \in 1..Len(left) PROVE left[i] = stamps[d + i]
  BY <1>2, <1>3, <1>4
<1> HIDE DEF left
<1>6. Len(stamps) - Len(left) = d
  <2>1. Len(stamps) \in Nat /\ d \in Int
    BY <1>2
  <2>2. Len(left) = Len(stamps) - d
    BY <1>4
  <2>3. QED
    BY <2>1, <2>2
<1>7. ASSUME Len(left) > 0 PROVE left[1] > cutoff
  <2>1. Len(left) \in Nat /\ Len(stamps) \in Nat /\ d \in Int
    BY <1>2, <1>4
  <2>2. 1 \in 1..Len(left) /\ d < Len(stamps)
    BY <1>6, <1>7, <2>1
  <2>3. left[1] = stamps[d + 1]
    BY <1>5, <2>2
  <2>4. QED
    BY <1>2, <2>2, <2>3
<1>8. /\ left \in Seq(Nat)
      /\ Len(left) <= Len(stamps)
      /\ \A i \in 1..Len(left) : left[i] = stamps[Len(stamps) - Len(left) + i]
      /\ \A i \in 1..(Len(stamps) - Len(left)) : stamps[i] <= cutoff
      /\ Len(left) > 0 => left[1] > cutoff
  BY <1>2, <1>4, <1>5, <1>6, <1>7
<1>9. QED
  BY <1>8 DEF left

-----------------------------------------------------------------------------
(* The inductive invariant.                                                *)

CallsOn(date) == {i \in DOMAIN calls : calls[i].day = date}

QuotaTypeInv ==
  /\ now \in Nat
  /\ latest \in Days /\ latest >= 1
  /\ today \in {latest - 1, latest}
  /\ stamp \in [Threads -> Nat \cup {NoStamp}]
  /\ hits \in Seq(Nat)
  /\ DOMAIN counts \subseteq Days
  /\ counts \in [DOMAIN counts -> Nat]
  /\ calls \in Seq([at : Nat, stamp : Nat, day : Days])

\* A stamp is at most MaxDelay older than the moment it is used.
QuotaStamps ==
  /\ \A t \in Threads :
       stamp[t] # NoStamp => stamp[t] <= now /\ now <= stamp[t] + MaxDelay
  /\ \A i \in DOMAIN calls :
       /\ calls[i].at <= now
       /\ calls[i].stamp <= calls[i].at
       /\ calls[i].at <= calls[i].stamp + MaxDelay

\* The queue holds the stamps of the last calls, and those of the calls before
\* them are a minute old.
QuotaQueue ==
  PerMinute > 0 =>
    /\ Len(hits) <= PerMinute
    /\ Len(hits) <= Len(calls)
    /\ \A i \in 1..Len(hits) : hits[i] = calls[Len(calls) - Len(hits) + i].stamp
    /\ \A i \in 1..(Len(calls) - Len(hits)) : calls[i].stamp <= now - Window

\* A date with a count counts that day's calls; one of the two dates the clock
\* can show that has no count has no calls.
QuotaLedger ==
  PerDay > 0 =>
    /\ \A d \in DOMAIN counts : counts[d] = Cardinality(CallsOn(d)) /\ d <= latest
    /\ \A d \in Days \ DOMAIN counts : d >= latest - 1 => CallsOn(d) = {}
    /\ \A i \in DOMAIN calls : calls[i].day <= latest
    /\ \A d \in Days : Cardinality(CallsOn(d)) <= PerDay

QuotaInv == QuotaTypeInv /\ QuotaStamps /\ QuotaQueue

LEMMA QuotaInitEstablishes == Init => QuotaInv /\ QuotaLedger
<1> SUFFICES ASSUME Init PROVE QuotaInv /\ QuotaLedger
  OBVIOUS
<1>1. QuotaTypeInv
  BY BoundsAssumption DEF Init, QuotaTypeInv, Days, NoStamp
<1>2. QuotaStamps /\ QuotaQueue
  BY CapsAssumption DEF Init, QuotaStamps, QuotaQueue, NoStamp
<1>3. QuotaLedger
  <2>1. \A d : CallsOn(d) = {}
    <3>1. calls = <<>> /\ DOMAIN <<>> = {}
      BY DEF Init
    <3>2. QED
      BY <3>1 DEF CallsOn
  <2>2. Cardinality({}) = 0
    BY FS_EmptySet
  <2>3. calls = <<>> /\ DOMAIN calls = {} /\ DOMAIN counts = {}
    BY DEF Init
  <2>4. QED
    BY <2>1, <2>2, <2>3, CapsAssumption DEF QuotaLedger
<1>4. QED
  BY <1>1, <1>2, <1>3 DEF QuotaInv

\* What a thread finds in the queue after its purge.
LEMMA FreshQueue ==
  ASSUME QuotaInv, NEW t \in Threads, stamp[t] # NoStamp
  PROVE  /\ Fresh(t) \in Seq(Nat)
         /\ PerMinute > 0 =>
              /\ Len(Fresh(t)) <= Len(hits)
              /\ \A i \in 1..Len(Fresh(t)) :
                   Fresh(t)[i] = calls[Len(calls) - Len(Fresh(t)) + i].stamp
              /\ \A i \in 1..(Len(calls) - Len(Fresh(t))) :
                   calls[i].stamp <= now - Window
              /\ Len(Fresh(t)) > 0 => Fresh(t)[1] > stamp[t] - Window
<1> DEFINE cutoff == stamp[t] - Window
           left == Remaining(hits, cutoff)
           gone == Len(hits) - Len(left)
<1>1. stamp[t] \in Nat /\ cutoff \in Int /\ cutoff <= now - Window /\ hits \in Seq(Nat)
  BY TimesAssumption DEF QuotaInv, QuotaTypeInv, QuotaStamps, NoStamp
<1>2. CASE ~(PerMinute > 0)
  BY <1>1, <1>2 DEF Fresh
<1>3. CASE PerMinute > 0
  <2>1. Fresh(t) = left
    BY <1>3 DEF Fresh
  <2>2. /\ left \in Seq(Nat)
        /\ Len(left) <= Len(hits)
        /\ \A i \in 1..Len(left) : left[i] = hits[gone + i]
        /\ \A i \in 1..gone : hits[i] <= cutoff
        /\ Len(left) > 0 => left[1] > cutoff
    <3> HIDE DEF cutoff
    <3>1. QED
      BY <1>1, RemainingIsSuffix
  <2> HIDE DEF left, cutoff
  <2>3. /\ Len(left) \in Nat /\ Len(hits) \in Nat /\ Len(calls) \in Nat
        /\ Len(left) <= Len(hits) /\ Len(hits) <= Len(calls)
    BY <1>3, <2>2 DEF QuotaInv, QuotaTypeInv, QuotaQueue
  <2>4. ASSUME NEW i \in 1..Len(left)
        PROVE  left[i] = calls[Len(calls) - Len(left) + i].stamp
    <3>1. gone + i \in 1..Len(hits)
      BY <2>3
    <3>2. hits[gone + i] = calls[Len(calls) - Len(hits) + (gone + i)].stamp
      BY <1>3, <3>1 DEF QuotaInv, QuotaQueue
    <3>3. Len(calls) - Len(hits) + (gone + i) = Len(calls) - Len(left) + i
      BY <2>3
    <3>4. QED
      BY <2>2, <3>2, <3>3
  <2>5. ASSUME NEW i \in 1..(Len(calls) - Len(left))
        PROVE  calls[i].stamp <= now - Window
    <3>1. CASE i <= Len(calls) - Len(hits)
      BY <1>3, <2>3, <3>1 DEF QuotaInv, QuotaQueue
    <3>2. CASE i > Len(calls) - Len(hits)
      <4> DEFINE k == i - (Len(calls) - Len(hits))
      <4>1. k \in 1..gone /\ k \in 1..Len(hits)
        BY <2>3, <3>2
      <4>2. hits[k] = calls[Len(calls) - Len(hits) + k].stamp
        BY <1>3, <4>1 DEF QuotaInv, QuotaQueue
      <4>3. Len(calls) - Len(hits) + k = i
        BY <2>3
      <4> HIDE DEF k
      <4>4. hits[k] <= cutoff
        BY <2>2, <4>1
      <4>5. hits[k] \in Nat
        BY <1>1, <4>1
      <4>6. now - Window \in Int
        BY TimesAssumption DEF QuotaInv, QuotaTypeInv
      <4>7. QED
        BY <1>1, <4>2, <4>3, <4>4, <4>5, <4>6
    <3>3. QED
      BY <2>3, <3>1, <3>2
  <2>6. QED
    BY <2>1, <2>2, <2>4, <2>5 DEF cutoff
<1>4. QED
  BY <1>2, <1>3, CapsAssumption

-----------------------------------------------------------------------------
(* Every step preserves it.                                                *)

LEMMA CallType ==
  ASSUME calls \in Seq([at : Nat, stamp : Nat, day : Days]), NEW i \in DOMAIN calls
  PROVE  calls[i].at \in Nat /\ calls[i].stamp \in Nat /\ calls[i].day \in Days
<1> DEFINE Kind == [at : Nat, stamp : Nat, day : Days]
<1>1. calls[i] \in Kind
  <2>1. calls \in Seq(Kind)
    OBVIOUS
  <2> HIDE DEF Kind
  <2>2. QED
    BY <2>1
<1>2. QED
  BY <1>1

\* A call that is admitted is the last one and takes the thread's stamp.
LEMMA AdmittedCall ==
  ASSUME QuotaInv, NEW t \in Threads, Admit(t)
  PROVE  /\ calls' = Append(calls, Call(t))
         /\ Call(t) \in [at : Nat, stamp : Nat, day : Days]
         /\ calls' \in Seq([at : Nat, stamp : Nat, day : Days])
         /\ Len(calls') = Len(calls) + 1
         /\ \A i \in 1..Len(calls) : calls'[i] = calls[i]
         /\ calls'[Len(calls) + 1] = Call(t)
         /\ stamp[t] \in Nat /\ stamp[t] <= now /\ now <= stamp[t] + MaxDelay
<1>1. stamp[t] \in Nat /\ stamp[t] <= now /\ now <= stamp[t] + MaxDelay
  BY DEF Admit, QuotaInv, QuotaTypeInv, QuotaStamps
<1>2. today \in Days /\ now \in Nat /\ calls \in Seq([at : Nat, stamp : Nat, day : Days])
  BY BoundsAssumption DEF QuotaInv, QuotaTypeInv, Days
<1>3. Call(t) \in [at : Nat, stamp : Nat, day : Days]
  BY <1>1, <1>2 DEF Call
<1>4. calls' = Append(calls, Call(t))
  BY DEF Admit
<1> DEFINE Kind == [at : Nat, stamp : Nat, day : Days]
<1>5. calls \in Seq(Kind) /\ Call(t) \in Kind
  BY <1>2, <1>3
<1> HIDE DEF Kind
<1>6. calls' \in Seq(Kind)
  BY <1>4, <1>5
<1>7. /\ Len(calls') = Len(calls) + 1
      /\ \A i \in 1..Len(calls) : calls'[i] = calls[i]
      /\ calls'[Len(calls) + 1] = Call(t)
  BY <1>4, <1>5
<1>8. QED
  BY <1>1, <1>3, <1>4, <1>6, <1>7 DEF Kind

LEMMA QuotaStepType == QuotaInv /\ [Next]_vars => QuotaTypeInv'
<1> SUFFICES ASSUME QuotaInv, [Next]_vars PROVE QuotaTypeInv'
  OBVIOUS
<1> USE DEF QuotaTypeInv
<1>1. ASSUME NEW t \in Threads, ReadClock(t) PROVE QuotaTypeInv'
  BY <1>1 DEF ReadClock, clocks, QuotaInv
<1>2. ASSUME NEW t \in Threads, Admit(t) PROVE QuotaTypeInv'
  <2>1. calls' \in Seq([at : Nat, stamp : Nat, day : Days])
    BY <1>2, AdmittedCall DEF QuotaInv
  <2>2. hits' \in Seq(Nat)
    <3>1. Fresh(t) \in Seq(Nat) /\ stamp[t] \in Nat
      BY <1>2, FreshQueue, AdmittedCall DEF Admit
    <3>2. QED
      BY <1>2, <3>1 DEF Admit, QuotaInv
  <2>3. DOMAIN counts' \subseteq Days /\ counts' \in [DOMAIN counts' -> Nat]
    <3>1. today \in Days
      BY BoundsAssumption DEF QuotaInv, Days
    <3>2. \A d \in Days : Count(d) \in Nat
      BY DEF QuotaInv, Count
    <3>3. LastTwo(DOMAIN counts \cup {today}) \subseteq DOMAIN counts \cup {today}
      BY DEF LastTwo
    <3>4. CASE counts' = Counted(today)
      <4> DEFINE days == LastTwo(DOMAIN counts \cup {today})
      <4>1. counts' = [d \in days |-> IF d = today THEN Count(today) + 1 ELSE counts[d]]
        BY <3>4 DEF Counted
      <4>2. ASSUME NEW d \in days
            PROVE  (IF d = today THEN Count(today) + 1 ELSE counts[d]) \in Nat
        <5>1. CASE d = today
          BY <3>1, <3>2, <5>1
        <5>2. CASE d # today
          <6>1. d \in DOMAIN counts
            BY <3>3, <5>2
          <6>2. QED
            BY <5>2, <6>1 DEF QuotaInv
        <5>3. QED
          BY <5>1, <5>2
      <4>3. days \subseteq Days
        BY <3>1, <3>3 DEF QuotaInv
      <4> HIDE DEF days
      <4>4. QED
        BY <4>1, <4>2, <4>3
    <3>5. CASE counts' = counts
      BY <3>5 DEF QuotaInv
    <3>6. QED
      BY <1>2, <3>4, <3>5 DEF Admit
  <2>4. QED
    BY <1>2, <2>1, <2>2, <2>3 DEF Admit, Leave, clocks, QuotaInv
<1>3. ASSUME NEW t \in Threads, RefuseForMinute(t) \/ RefuseForDay(t) PROVE QuotaTypeInv'
  <2>1. Fresh(t) \in Seq(Nat)
    BY <1>3, FreshQueue DEF RefuseForMinute, RefuseForDay
  <2>2. QED
    BY <1>3, <2>1 DEF RefuseForMinute, RefuseForDay, Leave, clocks, QuotaInv
<1>4. CASE Tick
  BY <1>4 DEF Tick, QuotaInv
<1>5. CASE Midnight
  BY <1>5, BoundsAssumption DEF Midnight, QuotaInv, Days
<1>6. CASE SetBack
  BY <1>6 DEF SetBack, QuotaInv
<1>7. CASE UNCHANGED vars
  BY <1>7 DEF vars, clocks, QuotaInv
<1>8. QED
  BY <1>1, <1>2, <1>3, <1>4, <1>5, <1>6, <1>7 DEF Next, Acquire

LEMMA QuotaStepStamps == QuotaInv /\ [Next]_vars => QuotaStamps'
<1> SUFFICES ASSUME QuotaInv, [Next]_vars PROVE QuotaStamps'
  OBVIOUS
<1>0. /\ now \in Nat /\ MaxDelay \in Nat
      /\ stamp \in [Threads -> Nat \cup {NoStamp}]
      /\ calls \in Seq([at : Nat, stamp : Nat, day : Days])
      /\ QuotaStamps
  BY TimesAssumption DEF QuotaInv, QuotaTypeInv
<1>1. ASSUME NEW t \in Threads, ReadClock(t) PROVE QuotaStamps'
  BY <1>0, <1>1 DEF ReadClock, clocks, QuotaStamps
<1>2. ASSUME NEW t \in Threads, Admit(t) PROVE QuotaStamps'
  <2>1. now' = now /\ stamp' = [stamp EXCEPT ![t] = NoStamp]
    BY <1>2 DEF Admit, Leave, clocks
  <2>2. \A u \in Threads :
          stamp'[u] # NoStamp => stamp'[u] <= now' /\ now' <= stamp'[u] + MaxDelay
    BY <1>0, <2>1 DEF QuotaStamps
  <2>3. ASSUME NEW i \in DOMAIN calls'
        PROVE  /\ calls'[i].at <= now'
               /\ calls'[i].stamp <= calls'[i].at
               /\ calls'[i].at <= calls'[i].stamp + MaxDelay
    <3>1. CASE i \in 1..Len(calls)
      <4>1. calls'[i] = calls[i]
        BY <1>2, <3>1, AdmittedCall
      <4>2. i \in DOMAIN calls
        BY <1>0, <3>1
      <4>3. QED
        BY <1>0, <2>1, <4>1, <4>2 DEF QuotaStamps
    <3>2. CASE i = Len(calls) + 1
      <4>1. calls'[i] = [at |-> now, stamp |-> stamp[t], day |-> today]
        BY <1>2, <3>2, AdmittedCall DEF Call
      <4>2. stamp[t] \in Nat /\ stamp[t] <= now /\ now <= stamp[t] + MaxDelay
        BY <1>2, AdmittedCall
      <4>3. QED
        BY <1>0, <2>1, <4>1, <4>2
    <3>3. i \in 1..(Len(calls) + 1)
      <4>1. calls' = Append(calls, Call(t))
        BY <1>2 DEF Admit
      <4>2. QED
        BY <1>0, <4>1
    <3>4. QED
      BY <1>0, <3>1, <3>2, <3>3
  <2>4. QED
    BY <2>2, <2>3 DEF QuotaStamps
<1>3. ASSUME NEW t \in Threads, RefuseForMinute(t) \/ RefuseForDay(t) PROVE QuotaStamps'
  BY <1>0, <1>3 DEF RefuseForMinute, RefuseForDay, Leave, clocks, QuotaStamps
<1>4. CASE Tick
  <2>1. now' = now + 1 /\ UNCHANGED <<stamp, calls>>
    BY <1>4 DEF Tick
  <2>2. ASSUME NEW t \in Threads, stamp[t] # NoStamp
        PROVE  stamp[t] <= now + 1 /\ now + 1 <= stamp[t] + MaxDelay
    <3>1. stamp[t] \in Nat /\ stamp[t] <= now /\ now - stamp[t] < MaxDelay
      BY <1>0, <1>4, <2>2 DEF Tick, QuotaStamps
    <3>2. QED
      BY <1>0, <3>1
  <2>3. ASSUME NEW i \in DOMAIN calls PROVE calls[i].at <= now + 1
    <3>1. calls[i].at \in Nat /\ calls[i].at <= now
      BY <1>0, CallType DEF QuotaStamps
    <3>2. QED
      BY <1>0, <3>1
  <2>4. QED
    BY <1>0, <2>1, <2>2, <2>3 DEF QuotaStamps
<1>5. CASE Midnight \/ SetBack \/ UNCHANGED vars
  BY <1>0, <1>5 DEF Midnight, SetBack, vars, clocks, QuotaStamps
<1>6. QED
  BY <1>1, <1>2, <1>3, <1>4, <1>5 DEF Next, Acquire

LEMMA QuotaStepQueue == QuotaInv /\ [Next]_vars => QuotaQueue'
<1> SUFFICES ASSUME QuotaInv, [Next]_vars, PerMinute > 0
             PROVE  /\ Len(hits') <= PerMinute
                    /\ Len(hits') <= Len(calls')
                    /\ \A i \in 1..Len(hits') :
                         hits'[i] = calls'[Len(calls') - Len(hits') + i].stamp
                    /\ \A i \in 1..(Len(calls') - Len(hits')) :
                         calls'[i].stamp <= now' - Window
  BY DEF QuotaQueue
<1> DEFINE Goal == /\ Len(hits') <= PerMinute
                   /\ Len(hits') <= Len(calls')
                   /\ \A i \in 1..Len(hits') :
                        hits'[i] = calls'[Len(calls') - Len(hits') + i].stamp
                   /\ \A i \in 1..(Len(calls') - Len(hits')) :
                        calls'[i].stamp <= now' - Window
<1>0. /\ now \in Nat /\ Window \in Nat /\ PerMinute \in Nat
      /\ hits \in Seq(Nat)
      /\ calls \in Seq([at : Nat, stamp : Nat, day : Days])
      /\ QuotaQueue
  BY TimesAssumption, CapsAssumption DEF QuotaInv, QuotaTypeInv
<1>1. ASSUME NEW t \in Threads, Admit(t) PROVE Goal
  <2> DEFINE left == Fresh(t)
  <2>1. /\ left \in Seq(Nat) /\ Len(left) <= Len(hits)
        /\ \A i \in 1..Len(left) : left[i] = calls[Len(calls) - Len(left) + i].stamp
        /\ \A i \in 1..(Len(calls) - Len(left)) : calls[i].stamp <= now - Window
    BY <1>1, FreshQueue DEF Admit
  <2>2. Len(left) < PerMinute
    BY <1>0, <1>1, <2>1 DEF Admit, MinuteFull
  <2>3. hits' = Append(left, stamp[t]) /\ now' = now
    BY <1>1 DEF Admit, clocks
  <2> HIDE DEF left
  <2>4. /\ stamp[t] \in Nat
        /\ Len(calls') = Len(calls) + 1
        /\ \A i \in 1..Len(calls) : calls'[i] = calls[i]
        /\ calls'[Len(calls) + 1].stamp = stamp[t]
    <3>1. /\ stamp[t] \in Nat
          /\ Len(calls') = Len(calls) + 1
          /\ \A i \in 1..Len(calls) : calls'[i] = calls[i]
          /\ calls'[Len(calls) + 1] = Call(t)
      BY <1>1, AdmittedCall
    <3>2. Call(t).stamp = stamp[t]
      BY DEF Call
    <3>3. QED
      BY <3>1, <3>2
  <2>5. /\ Len(hits') = Len(left) + 1
        /\ \A i \in 1..Len(left) : hits'[i] = left[i]
        /\ hits'[Len(left) + 1] = stamp[t]
    BY <2>1, <2>3, <2>4
  <2>6. /\ Len(left) \in Nat /\ Len(calls) \in Nat /\ Len(hits) \in Nat
        /\ Len(left) <= Len(calls)
    BY <1>0, <2>1 DEF QuotaQueue
  <2>7. Len(calls') - Len(hits') = Len(calls) - Len(left)
    BY <2>4, <2>5, <2>6
  <2>8. ASSUME NEW i \in 1..Len(hits')
        PROVE  hits'[i] = calls'[Len(calls') - Len(hits') + i].stamp
    <3>1. CASE i \in 1..Len(left)
      <4> DEFINE k == Len(calls) - Len(left) + i
      <4>1. k \in 1..Len(calls)
        BY <2>6, <3>1
      <4>2. calls'[k] = calls[k]
        BY <2>4, <4>1
      <4>3. hits'[i] = calls[k].stamp
        BY <2>1, <2>5, <3>1
      <4> HIDE DEF k
      <4>4. k = Len(calls') - Len(hits') + i
        BY <2>7 DEF k
      <4>5. QED
        BY <4>2, <4>3, <4>4
    <3>2. CASE i = Len(left) + 1
      <4>1. Len(calls') - Len(hits') + i = Len(calls) + 1
        BY <2>6, <2>7, <3>2
      <4>2. QED
        BY <2>4, <2>5, <3>2, <4>1
    <3>3. QED
      BY <2>5, <2>6, <3>1, <3>2
  <2>9. ASSUME NEW i \in 1..(Len(calls') - Len(hits'))
        PROVE  calls'[i].stamp <= now' - Window
    <3>1. i \in 1..(Len(calls) - Len(left)) /\ i \in 1..Len(calls)
      BY <2>6, <2>7
    <3>2. QED
      BY <2>1, <2>3, <2>4, <3>1
  <2>10. Len(hits') <= PerMinute /\ Len(hits') <= Len(calls')
    BY <1>0, <2>2, <2>4, <2>5, <2>6
  <2>11. QED
    BY <2>8, <2>9, <2>10
<1>2. ASSUME NEW t \in Threads, RefuseForMinute(t) \/ RefuseForDay(t) PROVE Goal
  <2>1. /\ Fresh(t) \in Seq(Nat) /\ Len(Fresh(t)) <= Len(hits)
        /\ \A i \in 1..Len(Fresh(t)) :
             Fresh(t)[i] = calls[Len(calls) - Len(Fresh(t)) + i].stamp
        /\ \A i \in 1..(Len(calls) - Len(Fresh(t))) : calls[i].stamp <= now - Window
    BY <1>2, FreshQueue DEF RefuseForMinute, RefuseForDay
  <2>2. hits' = Fresh(t) /\ now' = now /\ calls' = calls
    BY <1>2 DEF RefuseForMinute, RefuseForDay, clocks
  <2>3. Len(Fresh(t)) \in Nat /\ Len(hits) \in Nat /\ Len(calls) \in Nat
    BY <1>0, <2>1
  <2>4. Len(Fresh(t)) <= PerMinute /\ Len(Fresh(t)) <= Len(calls)
    BY <1>0, <2>1, <2>3 DEF QuotaQueue
  <2>5. QED
    BY <2>1, <2>2, <2>4
<1>3. CASE Tick
  <2>1. now' = now + 1 /\ UNCHANGED <<hits, calls>>
    BY <1>3 DEF Tick
  <2>2. ASSUME NEW i \in 1..(Len(calls) - Len(hits))
        PROVE  calls[i].stamp <= (now + 1) - Window
    <3>1. Len(hits) \in Nat /\ Len(calls) \in Nat /\ i \in 1..Len(calls)
      BY <1>0
    <3>2. calls[i].stamp \in Nat /\ calls[i].stamp <= now - Window
      <4>1. i \in DOMAIN calls
        BY <1>0, <3>1
      <4>2. QED
        BY <1>0, <4>1, CallType DEF QuotaQueue
    <3>3. QED
      BY <1>0, <3>2
  <2>3. QED
    BY <1>0, <2>1, <2>2 DEF QuotaQueue
<1>4. ASSUME NEW t \in Threads, ReadClock(t) PROVE Goal
  BY <1>0, <1>4 DEF ReadClock, clocks, QuotaQueue
<1>5. CASE Midnight \/ SetBack \/ UNCHANGED vars
  BY <1>0, <1>5 DEF Midnight, SetBack, vars, clocks, QuotaQueue
<1>6. QED
  BY <1>1, <1>2, <1>3, <1>4, <1>5 DEF Next, Acquire

LEMMA QuotaInvariant == Spec => []QuotaInv
<1>1. Init => QuotaInv
  BY QuotaInitEstablishes
<1>2. QuotaInv /\ [Next]_vars => QuotaInv'
  BY QuotaStepType, QuotaStepStamps, QuotaStepQueue DEF QuotaInv
<1>3. QED
  BY <1>1, <1>2, PTL DEF Spec

-----------------------------------------------------------------------------
(* The theorems.                                                           *)

\* Every variable keeps its type and the queue never outgrows the cap, however
\* the threads interleave.
THEOREM QuotaTypeCorrect == Spec => []TypeOK
<1>1. QuotaInv => TypeOK
  BY DEF QuotaInv, QuotaTypeInv, QuotaQueue, TypeOK
<1>2. QED
  BY <1>1, QuotaInvariant, PTL

\* One more call than the cap allows spans at least the minute less the longest
\* wait for the lock.
LEMMA QuotaStepMinuteCap == QuotaInv /\ MinuteCap /\ [Next]_vars => MinuteCap'
<1> SUFFICES ASSUME QuotaInv, MinuteCap, [Next]_vars, PerMinute > 0,
                    NEW i \in DOMAIN calls', NEW j \in DOMAIN calls', j = i + PerMinute
             PROVE  calls'[j].at - calls'[i].at >= Window - MaxDelay
  BY DEF MinuteCap
<1>0. /\ now \in Nat /\ Window \in Nat /\ MaxDelay \in Nat /\ PerMinute \in Nat
      /\ calls \in Seq([at : Nat, stamp : Nat, day : Days])
      /\ QuotaStamps
  BY TimesAssumption, CapsAssumption DEF QuotaInv, QuotaTypeInv
<1>1. CASE calls' = calls
  BY <1>1 DEF MinuteCap
<1>2. ASSUME NEW t \in Threads, Admit(t)
      PROVE  calls'[j].at - calls'[i].at >= Window - MaxDelay
  <2>1. /\ calls' \in Seq([at : Nat, stamp : Nat, day : Days])
        /\ Len(calls') = Len(calls) + 1
        /\ \A k \in 1..Len(calls) : calls'[k] = calls[k]
        /\ calls'[Len(calls) + 1] = Call(t)
    BY <1>2, AdmittedCall
  <2>2. Len(calls) \in Nat /\ i \in 1..(Len(calls) + 1) /\ j \in 1..(Len(calls) + 1)
    BY <1>0, <2>1
  <2>3. i \in 1..Len(calls) /\ i \in DOMAIN calls
    BY <1>0, <2>2
  <2>4. CASE j \in 1..Len(calls)
    <3>1. j \in DOMAIN calls
      BY <1>0, <2>4
    <3>2. calls[j].at - calls[i].at >= Window - MaxDelay
      BY <2>3, <3>1 DEF MinuteCap
    <3>3. QED
      BY <2>1, <2>3, <2>4, <3>2
  <2>5. CASE j = Len(calls) + 1
    <3> DEFINE left == Fresh(t)
    <3>1. /\ left \in Seq(Nat)
          /\ \A k \in 1..(Len(calls) - Len(left)) : calls[k].stamp <= now - Window
      BY <1>2, FreshQueue DEF Admit
    <3>2. ~(Len(left) >= PerMinute)
      BY <1>2 DEF Admit, MinuteFull
    <3> HIDE DEF left
    <3>3. i \in 1..(Len(calls) - Len(left))
      BY <1>0, <2>2, <2>3, <2>5, <3>1, <3>2
    <3>4. calls[i].stamp <= now - Window
      BY <3>1, <3>3
    <3>5. calls[i].at <= calls[i].stamp + MaxDelay
      BY <1>0, <2>3 DEF QuotaStamps
    <3>6. calls[i].at \in Nat /\ calls[i].stamp \in Nat
      BY <1>0, <2>3, CallType
    <3>7. calls'[j].at = now /\ calls'[i] = calls[i]
      BY <2>1, <2>3, <2>5 DEF Call
    <3>8. QED
      BY <1>0, <3>4, <3>5, <3>6, <3>7
  <2>6. QED
    BY <2>2, <2>4, <2>5
<1>3. QED
  BY <1>1, <1>2
  DEF Next, Acquire, ReadClock, RefuseForMinute, RefuseForDay, Tick, Midnight, SetBack, vars

THEOREM MinuteCapHolds == Spec => []MinuteCap
<1>1. Init => MinuteCap
  BY DEF Init, MinuteCap
<1>2. QED
  BY <1>1, QuotaInvariant, QuotaStepMinuteCap, PTL DEF Spec

\* A call that is refused for the minute comes when PerMinute calls were made
\* within the last minute and one wait for the lock.
THEOREM RefusalsHaveCause == Spec => []RefusalsAreJust
<1>1. ASSUME QuotaInv, NEW t \in Threads, stamp[t] # NoStamp, MinuteFull(t)
      PROVE  /\ Len(calls) >= PerMinute
             /\ now - calls[Len(calls) - PerMinute + 1].at < Window + MaxDelay
  <2> DEFINE left == Fresh(t)
             k == Len(calls) - PerMinute + 1
  <2>0. /\ now \in Nat /\ Window \in Nat /\ MaxDelay \in Nat /\ PerMinute \in Nat
        /\ PerMinute > 0
        /\ hits \in Seq(Nat)
        /\ calls \in Seq([at : Nat, stamp : Nat, day : Days])
        /\ stamp[t] \in Nat /\ now <= stamp[t] + MaxDelay
        /\ QuotaStamps /\ QuotaQueue
    BY <1>1, TimesAssumption, CapsAssumption DEF QuotaInv, QuotaTypeInv, QuotaStamps, MinuteFull
  <2>1. /\ left \in Seq(Nat) /\ Len(left) <= Len(hits)
        /\ \A i \in 1..Len(left) : left[i] = calls[Len(calls) - Len(left) + i].stamp
        /\ Len(left) > 0 => left[1] > stamp[t] - Window
    BY <1>1, <2>0, FreshQueue
  <2>2. Len(left) >= PerMinute
    BY <1>1 DEF MinuteFull
  <2> HIDE DEF left
  <2>3. Len(left) \in Nat /\ Len(hits) \in Nat /\ Len(calls) \in Nat
    BY <2>0, <2>1
  <2>4. Len(left) = PerMinute /\ PerMinute <= Len(calls)
    BY <2>0, <2>1, <2>2, <2>3 DEF QuotaQueue
  <2>5. left[1] = calls[k].stamp /\ left[1] > stamp[t] - Window
    <3>1. 1 \in 1..Len(left) /\ Len(left) > 0
      BY <2>0, <2>3, <2>4
    <3>2. left[1] = calls[Len(calls) - Len(left) + 1].stamp
      BY <2>1, <3>1
    <3>3. QED
      BY <2>1, <2>4, <3>1, <3>2
  <2>6. k \in DOMAIN calls
    BY <2>0, <2>3, <2>4
  <2> HIDE DEF k
  <2>7. calls[k].at \in Nat /\ calls[k].stamp \in Nat /\ calls[k].stamp <= calls[k].at
    BY <2>0, <2>6, CallType DEF QuotaStamps
  <2>8. now - calls[k].at < Window + MaxDelay
    <3>1. /\ now \in Nat /\ Window \in Nat /\ MaxDelay \in Nat /\ stamp[t] \in Nat
          /\ now <= stamp[t] + MaxDelay
      BY <2>0
    <3>2. calls[k].stamp > stamp[t] - Window
      BY <2>5
    <3>3. QED
      BY <2>7, <3>1, <3>2
  <2>9. QED
    BY <2>0, <2>3, <2>4, <2>8 DEF k
<1>2. QuotaInv => RefusalsAreJust
  BY <1>1 DEF RefusalsAreJust
<1>3. QED
  BY <1>2, QuotaInvariant, PTL

-----------------------------------------------------------------------------
(* The cap per day.                                                        *)

\* The calls of a day are finitely many.
LEMMA OnIsFinite ==
  ASSUME calls \in Seq([at : Nat, stamp : Nat, day : Days]), NEW d
  PROVE  IsFiniteSet(CallsOn(d)) /\ Cardinality(CallsOn(d)) \in Nat
<1>1. CallsOn(d) \subseteq 1..Len(calls) /\ Len(calls) \in Nat
  BY DEF CallsOn
<1>2. IsFiniteSet(1..Len(calls))
  BY <1>1, FS_Interval
<1>3. QED
  BY <1>1, <1>2, FS_Subset, FS_CardinalityType

\* The pruning keeps the two dates the clock can show.
LEMMA PruningKeepsTheLatest ==
  ASSUME latest \in Nat, NEW days \in SUBSET Nat, \A e \in days : e <= latest,
         NEW d \in days, d >= latest - 1
  PROVE  d \in LastTwo(days)
<1> DEFINE Later == {e \in days : e > d}
<1>1. Later \subseteq {latest}
  <2>1. ASSUME NEW e \in Later PROVE e = latest
    <3>1. e \in Nat /\ d \in Nat /\ e > d /\ e <= latest
      OBVIOUS
    <3>2. QED
      BY <3>1
  <2>2. QED
    BY <2>1
<1>2. IsFiniteSet({latest}) /\ Cardinality({latest}) = 1
  BY FS_Singleton
<1>3. Cardinality(Later) <= 1 /\ Cardinality(Later) \in Nat
  <2> HIDE DEF Later
  <2>1. IsFiniteSet(Later) /\ Cardinality(Later) <= Cardinality({latest})
    BY <1>1, <1>2, FS_Subset
  <2>2. QED
    BY <1>2, <2>1, FS_CardinalityType
<1>4. Cardinality(Later) < 2
  <2> HIDE DEF Later
  <2>1. QED
    BY <1>3
<1>5. QED
  BY <1>4 DEF LastTwo

LEMMA QuotaStepLedger == QuotaInv /\ QuotaLedger /\ [Next]_vars => QuotaLedger'
<1> SUFFICES ASSUME QuotaInv, QuotaLedger, [Next]_vars, PerDay > 0 PROVE QuotaLedger'
  BY DEF QuotaLedger
<1>0. /\ calls \in Seq([at : Nat, stamp : Nat, day : Days])
      /\ latest \in Nat /\ today \in Nat /\ today <= latest /\ today >= latest - 1
      /\ today \in Days /\ latest \in Days /\ PerDay \in Nat
      /\ DOMAIN counts \subseteq Days
  BY CapsAssumption, BoundsAssumption DEF QuotaInv, QuotaTypeInv, Days
<1>1. /\ \A d \in DOMAIN counts : counts[d] = Cardinality(CallsOn(d)) /\ d <= latest
      /\ \A d \in Days \ DOMAIN counts : d >= latest - 1 => CallsOn(d) = {}
      /\ \A i \in DOMAIN calls : calls[i].day <= latest
      /\ \A d \in Days : Cardinality(CallsOn(d)) <= PerDay
  BY DEF QuotaLedger
<1>2. CASE UNCHANGED <<calls, counts, latest>>
  <2>1. \A d : CallsOn(d)' = CallsOn(d)
    BY <1>2 DEF CallsOn
  <2>2. QED
    BY <1>1, <1>2, <2>1 DEF QuotaLedger
<1>3. ASSUME NEW t \in Threads, Admit(t) PROVE QuotaLedger'
  <2> DEFINE next == Len(calls) + 1
             days == LastTwo(DOMAIN counts \cup {today})
  <2>1. /\ calls' \in Seq([at : Nat, stamp : Nat, day : Days])
        /\ Len(calls') = next
        /\ \A k \in 1..Len(calls) : calls'[k] = calls[k]
        /\ calls'[next].day = today
    <3>1. Call(t).day = today
      BY DEF Call
    <3>2. QED
      BY <1>3, <3>1, AdmittedCall
  <2>2. latest' = latest /\ today' = today /\ counts' = Counted(today) /\ ~DayFull
    BY <1>3 DEF Admit, clocks
  <2>3. /\ DOMAIN calls = 1..Len(calls) /\ DOMAIN calls' = 1..next
        /\ Len(calls) \in Nat /\ next \notin 1..Len(calls)
    BY <1>0, <2>1
  <2>4. CallsOn(today)' = CallsOn(today) \cup {next} /\ next \notin CallsOn(today)
    <3>1. CallsOn(today)' = {i \in DOMAIN calls' : calls'[i].day = today}
      BY <2>2 DEF CallsOn
    <3>2. DOMAIN calls' = (1..Len(calls)) \cup {next}
      BY <2>3
    <3> HIDE DEF next
    <3>3. QED
      BY <2>1, <2>3, <3>1, <3>2 DEF CallsOn
  <2>5. ASSUME NEW d, d # today PROVE CallsOn(d)' = CallsOn(d)
    BY <2>1, <2>3, <2>5 DEF CallsOn
  <2> HIDE DEF next
  <2>6. Cardinality(CallsOn(today)') = Cardinality(CallsOn(today)) + 1
    BY <1>0, <2>4, OnIsFinite, FS_AddElement
  <2>7. Count(today) = Cardinality(CallsOn(today))
    <3>1. CASE today \in DOMAIN counts
      BY <1>1, <3>1 DEF Count
    <3>2. CASE today \notin DOMAIN counts
      <4>1. CallsOn(today) = {}
        BY <1>0, <1>1, <3>2
      <4>2. QED
        BY <3>2, <4>1, FS_EmptySet DEF Count
    <3>3. QED
      BY <3>1, <3>2
  <2>8. Cardinality(CallsOn(today)) < PerDay
    <3>1. ~(Count(today) >= PerDay)
      BY <2>2 DEF DayFull
    <3>2. QED
      BY <1>0, <2>7, <3>1, OnIsFinite
  <2>9. /\ DOMAIN counts' = days
        /\ \A d \in days :
             counts'[d] = IF d = today THEN Count(today) + 1 ELSE counts[d]
    <3> HIDE DEF days
    <3>1. counts' = [d \in days |-> IF d = today THEN Count(today) + 1 ELSE counts[d]]
      BY <2>2 DEF Counted, days
    <3>2. QED
      BY <3>1
  <2>10. days \subseteq DOMAIN counts \cup {today}
    BY DEF LastTwo
  <2>11. ASSUME NEW d \in DOMAIN counts, d >= latest - 1 PROVE d \in days
    <3>1. DOMAIN counts \cup {today} \in SUBSET Nat
      BY <1>0 DEF Days
    <3>2. \A e \in DOMAIN counts \cup {today} : e <= latest
      BY <1>0, <1>1
    <3>3. QED
      BY <1>0, <2>11, <3>1, <3>2, PruningKeepsTheLatest
  <2>12. today \in days
    <3>1. DOMAIN counts \cup {today} \in SUBSET Nat
      BY <1>0 DEF Days
    <3>2. \A e \in DOMAIN counts \cup {today} : e <= latest
      BY <1>0, <1>1
    <3>3. QED
      BY <1>0, <3>1, <3>2, PruningKeepsTheLatest
  <2> HIDE DEF days
  <2>13. ASSUME NEW d \in DOMAIN counts'
         PROVE  counts'[d] = Cardinality(CallsOn(d)') /\ d <= latest'
    <3>1. CASE d = today
      <4>1. CallsOn(d)' = CallsOn(today)'
        BY <2>2, <3>1 DEF CallsOn
      <4>2. counts'[d] = Count(today) + 1
        BY <2>9, <3>1
      <4>3. QED
        BY <1>0, <2>2, <2>6, <2>7, <3>1, <4>1, <4>2
    <3>2. CASE d # today
      BY <1>1, <2>2, <2>5, <2>9, <2>10, <3>2
    <3>3. QED
      BY <3>1, <3>2
  <2>14. ASSUME NEW d \in Days \ DOMAIN counts', d >= latest' - 1 PROVE CallsOn(d)' = {}
    <3>1. d # today /\ d \notin DOMAIN counts
      BY <2>2, <2>9, <2>11, <2>12, <2>14
    <3>2. QED
      BY <1>1, <2>2, <2>5, <2>14, <3>1
  <2>15. ASSUME NEW i \in DOMAIN calls' PROVE calls'[i].day <= latest'
    <3>1. CASE i \in 1..Len(calls)
      BY <1>1, <2>1, <2>2, <2>3, <3>1
    <3>2. CASE i = next
      BY <1>0, <2>1, <2>2, <3>2
    <3>3. QED
      BY <2>3, <3>1, <3>2 DEF next
  <2>16. ASSUME NEW d \in Days PROVE Cardinality(CallsOn(d)') <= PerDay
    <3>1. CASE d = today
      <4>1. Cardinality(CallsOn(today)) \in Nat
        BY <1>0, OnIsFinite
      <4>2. CallsOn(d)' = CallsOn(today)'
        BY <2>2, <3>1 DEF CallsOn
      <4>3. QED
        BY <1>0, <2>6, <2>8, <4>1, <4>2
    <3>2. CASE d # today
      BY <1>1, <2>5, <3>2
    <3>3. QED
      BY <3>1, <3>2
  <2>17. QED
    BY <2>13, <2>14, <2>15, <2>16 DEF QuotaLedger
<1>4. CASE Midnight
  <2>1. UNCHANGED <<calls, counts>> /\ latest' \in {latest, latest + 1}
    BY <1>0, <1>4 DEF Midnight
  <2>2. \A d : CallsOn(d)' = CallsOn(d)
    BY <2>1 DEF CallsOn
  <2>3. \A d \in DOMAIN counts : d <= latest'
    BY <1>0, <1>1, <2>1 DEF Days
  <2>4. ASSUME NEW d \in Days \ DOMAIN counts, d >= latest' - 1 PROVE CallsOn(d) = {}
    <3>1. d \in Nat /\ d >= latest - 1
      <4>1. d \in 0..MaxDay /\ MaxDay \in Nat /\ d >= latest' - 1
        BY <2>4, BoundsAssumption DEF Days
      <4>2. latest' = latest \/ latest' = latest + 1
        BY <2>1
      <4>3. QED
        BY <1>0, <4>1, <4>2
    <3>2. QED
      BY <1>1, <3>1
  <2>5. ASSUME NEW i \in DOMAIN calls PROVE calls[i].day <= latest'
    <3>1. calls[i].day \in Nat
      BY <1>0, CallType DEF Days
    <3>2. QED
      BY <1>0, <1>1, <2>1, <3>1
  <2>6. QED
    BY <1>1, <2>1, <2>2, <2>3, <2>4, <2>5 DEF QuotaLedger
<1>5. QED
  BY <1>2, <1>3, <1>4
  DEF Next, Acquire, ReadClock, RefuseForMinute, RefuseForDay, Tick, SetBack, vars, clocks

\* No day sees more calls than the cap, whatever dates were pruned and although
\* the wall clock may be set back over midnight.
THEOREM DayCapHolds == Spec => []DayCap
<1>1. QuotaLedger => DayCap
  BY DEF QuotaLedger, DayCap, CallsOn
<1>2. Init => QuotaLedger
  BY QuotaInitEstablishes
<1>3. QED
  BY <1>1, <1>2, QuotaInvariant, QuotaStepLedger, PTL DEF Spec

\* Both caps together.
THEOREM CapsAreKept == Spec => []CapsHold
  BY MinuteCapHolds, DayCapHolds, PTL DEF CapsHold

-----------------------------------------------------------------------------
(* The invariant.                                                          *)

\* A rate was used while its entry in the cache lived, or at once.
RatePairs ==
  {pair \in [currency : Foreign, fix : Nat, fetched : Int, used : Nat] :
     pair.used - pair.fetched < FixTtl}

RankingStates ==
  [at : {"idle", "rates", "asks", "failed", "stale", "ranked"}, left : SUBSET Foreign,
   pairs : SUBSET RatePairs, answered : Nat]

FxTypeOK ==
  /\ fxNow \in Nat
  /\ rates \in [Foreign -> [fix : Nat, fetched : Int]]
  /\ ranking \in [Rankings -> RankingStates]

\* A ranking asks for a rate only while one is missing, and one that is answered
\* has rates that were recent.
RankingFits(r) ==
  /\ ranking[r].at = "asks" => ranking[r].left # {}
  /\ ranking[r].at = "ranked" =>
       \A pair \in ranking[r].pairs : ranking[r].answered - pair.fix <= MaxFixAge

FxInv == FxTypeOK /\ \A r \in Rankings : RankingFits(r)

-----------------------------------------------------------------------------

LEMMA FxInitEstablishes == FxInit => FxInv
<1>1. SUFFICES ASSUME FxInit PROVE FxInv
  OBVIOUS
<1>2. NoRate \in [fix : Nat, fetched : Int]
  BY FxAssumption DEF NoRate
<1>3. fxNow \in Nat
  BY <1>1, FxAssumption DEF FxInit
<1>4. Unasked \in RankingStates
  BY DEF Unasked, RankingStates
<1>5. FxTypeOK
  BY <1>1, <1>2, <1>3, <1>4 DEF FxInit, FxTypeOK
<1>6. \A r \in Rankings : RankingFits(r)
  BY <1>1 DEF FxInit, Unasked, RankingFits
<1>7. QED
  BY <1>5, <1>6 DEF FxInv

\* A step that turns one ranking keeps the invariant if the ranking fits.
LEMMA FxTurnKeeps ==
  ASSUME FxInv, NEW r \in Rankings, NEW new \in RankingStates,
         ranking' = [ranking EXCEPT ![r] = new], fxNow' = fxNow,
         rates' \in [Foreign -> [fix : Nat, fetched : Int]],
         new.at = "asks" => new.left # {},
         new.at = "ranked" => \A pair \in new.pairs : new.answered - pair.fix <= MaxFixAge
  PROVE  FxInv'
<1>1. /\ ranking' \in [Rankings -> RankingStates] /\ ranking'[r] = new
      /\ \A s \in Rankings \ {r} : ranking'[s] = ranking[s]
  BY DEF FxInv, FxTypeOK
<1>2. FxTypeOK'
  BY <1>1 DEF FxInv, FxTypeOK
<1>3. ASSUME NEW s \in Rankings PROVE RankingFits(s)'
  <2>1. CASE s = r
    BY <1>1, <2>1 DEF RankingFits
  <2>2. CASE s # r
    BY <1>1, <2>2 DEF RankingFits, FxInv
  <2>3. QED
    BY <2>1, <2>2
<1>4. QED
  BY <1>2, <1>3 DEF FxInv

\* The stamp the gate looks at is no newer than that of any rate.
LEMMA OldestIsOldest ==
  ASSUME FxTypeOK, NEW r \in Rankings, NEW pair \in ranking[r].pairs
  PROVE  OldestStamp(r) \in Nat /\ pair.fix \in Nat /\ OldestStamp(r) <= pair.fix
<1> DEFINE stamps == Stamps(r) \cup {fxNow}
<1>1. \A p \in ranking[r].pairs : p.fix \in Nat
  BY DEF FxTypeOK, RankingStates, RatePairs
<1>2. stamps \in SUBSET Nat /\ stamps # {} /\ pair.fix \in stamps
  BY <1>1 DEF Stamps, FxTypeOK
<1>3. PICK least \in stamps : \A n \in stamps : least <= n
  BY <1>2, LeastExists
<1>4. Min(stamps) \in stamps /\ \A n \in stamps : Min(stamps) <= n
  BY <1>3 DEF Min
<1>5. OldestStamp(r) = Min(stamps)
  BY DEF OldestStamp
<1> HIDE DEF stamps
<1>6. QED
  BY <1>2, <1>4, <1>5

\* A ranking that ends keeps its rates; only the gate lets it be answered.
LEMMA FxEndKeeps ==
  ASSUME FxInv, NEW r \in Rankings, NEW status \in {"failed", "stale", "ranked"},
         EndRanking(r, status), fxNow' = fxNow,
         rates' \in [Foreign -> [fix : Nat, fetched : Int]],
         status = "ranked" => fxNow - OldestStamp(r) <= MaxFixAge
  PROVE  FxInv'
<1> DEFINE new == [ranking[r] EXCEPT !.at = status, !.answered = fxNow]
<1>1. FxTypeOK /\ ranking[r] \in RankingStates /\ fxNow \in Nat /\ MaxFixAge \in Nat
  BY FxAssumption DEF FxInv, FxTypeOK
<1>2. ranking' = [ranking EXCEPT ![r] = new]
  BY <1>1 DEF EndRanking, FxTypeOK
<1>3. /\ new \in RankingStates /\ new.at = status /\ new.pairs = ranking[r].pairs
      /\ new.answered = fxNow
  BY <1>1 DEF RankingStates
<1> HIDE DEF new
<1>4. ASSUME status = "ranked", NEW pair \in new.pairs
      PROVE  new.answered - pair.fix <= MaxFixAge
  <2>1. OldestStamp(r) \in Nat /\ pair.fix \in Nat /\ OldestStamp(r) <= pair.fix
    BY <1>1, <1>3, <1>4, OldestIsOldest
  <2>2. QED
    BY <1>1, <1>3, <1>4, <2>1
<1>5. QED
  BY <1>2, <1>3, <1>4, FxTurnKeeps

\* A rate that is used lives, or was just fetched.
LEMMA FxRatedKeeps ==
  ASSUME FxInv, NEW r \in Rankings, NEW fix \in Nat, NEW fetched \in Int,
         ranking[r].left # {}, Rated(r, fix, fetched), fxNow' = fxNow,
         rates' \in [Foreign -> [fix : Nat, fetched : Int]], fxNow - fetched < FixTtl
  PROVE  FxInv'
<1> DEFINE pair == [currency |-> NextOf(r), fix |-> fix, fetched |-> fetched, used |-> fxNow]
           new == [ranking[r] EXCEPT !.at = "rates", !.left = @ \ {NextOf(r)},
                                     !.pairs = @ \cup {pair}]
<1>1. FxTypeOK /\ ranking[r] \in RankingStates /\ fxNow \in Nat
  BY DEF FxInv, FxTypeOK
<1>2. NextOf(r) \in Foreign
  BY <1>1 DEF NextOf, RankingStates
<1>3. pair \in RatePairs
  BY <1>1, <1>2 DEF RatePairs
<1>4. ranking' = [ranking EXCEPT ![r] = new]
  BY <1>1 DEF Rated, FxTypeOK
<1> HIDE DEF pair
<1>5. new \in RankingStates /\ new.at = "rates"
  BY <1>1, <1>3 DEF RankingStates
<1> HIDE DEF new
<1>6. QED
  BY <1>4, <1>5, FxTurnKeeps

LEMMA FxStepKeeps ==
  ASSUME FxInv, [FxNext]_fxVars
  PROVE  FxInv'
<1>1. /\ FxTypeOK /\ fxNow \in Nat
      /\ rates \in [Foreign -> [fix : Nat, fetched : Int]]
      /\ NoRate \in [fix : Nat, fetched : Int]
      /\ FixTtl \in Nat \ {0}
  BY FxAssumption DEF FxInv, FxTypeOK, NoRate
<1>2. ASSUME UNCHANGED <<rates, ranking>>, fxNow' \in Nat PROVE FxInv'
  BY <1>2 DEF FxInv, FxTypeOK, RankingFits
<1>3. CASE UNCHANGED fxVars
  BY <1>1, <1>2, <1>3 DEF fxVars
<1>4. CASE FxTick
  <2>1. UNCHANGED <<rates, ranking>> /\ fxNow' = fxNow + 1
    BY <1>4 DEF FxTick
  <2>2. QED
    BY <1>1, <1>2, <2>1
<1>5. \A c : WithoutLapsed(c) \in [Foreign -> [fix : Nat, fetched : Int]]
  BY <1>1 DEF WithoutLapsed
<1>6. ASSUME NEW r \in Rankings, Quote(r) PROVE FxInv'
  <2>1. PICK currencies \in SUBSET Foreign :
          ranking' = [ranking EXCEPT ![r].at = "rates", ![r].left = currencies]
    BY <1>6 DEF Quote
  <2> DEFINE new == [ranking[r] EXCEPT !.at = "rates", !.left = currencies]
  <2>2. ranking' = [ranking EXCEPT ![r] = new]
    BY <2>1 DEF FxInv, FxTypeOK
  <2>3. new \in RankingStates /\ new.at = "rates"
    BY DEF FxInv, FxTypeOK, RankingStates
  <2>4. UNCHANGED <<fxNow, rates>>
    BY <1>6 DEF Quote
  <2> HIDE DEF new
  <2>5. QED
    BY <1>1, <2>2, <2>3, <2>4, FxTurnKeeps
<1>7. ASSUME NEW r \in Rankings, RateFromCache(r) PROVE FxInv'
  <2> DEFINE entry == rates[NextOf(r)]
  <2>1. /\ ranking[r].left # {} /\ fxNow < entry.fetched + FixTtl
        /\ Rated(r, entry.fix, entry.fetched) /\ UNCHANGED <<fxNow, rates>>
    BY <1>7 DEF RateFromCache, Rating, Cached
  <2>2. NextOf(r) \in Foreign
    BY <2>1 DEF NextOf, FxInv, FxTypeOK, RankingStates
  <2>3. entry.fix \in Nat /\ entry.fetched \in Int
    BY <1>1, <2>2
  <2> HIDE DEF entry
  <2>4. fxNow - entry.fetched < FixTtl
    BY <1>1, <2>1, <2>3
  <2>5. QED
    BY <1>1, <2>1, <2>3, <2>4, FxRatedKeeps
<1>8. ASSUME NEW r \in Rankings, Bar(r) PROVE FxInv'
  BY <1>5, <1>8, FxEndKeeps DEF Bar
<1>9. ASSUME NEW r \in Rankings, AskVendors(r) PROVE FxInv'
  <2> DEFINE new == [ranking[r] EXCEPT !.at = "asks"]
  <2>1. /\ ranking[r].left # {} /\ rates' = WithoutLapsed(NextOf(r)) /\ fxNow' = fxNow
        /\ ranking' = [ranking EXCEPT ![r].at = "asks"]
    BY <1>9 DEF AskVendors, Rating
  <2>2. ranking' = [ranking EXCEPT ![r] = new]
    BY <2>1 DEF FxInv, FxTypeOK
  <2>3. new \in RankingStates /\ new.at = "asks" /\ new.left = ranking[r].left
    BY DEF FxInv, FxTypeOK, RankingStates
  <2> HIDE DEF new
  <2>4. QED
    BY <1>5, <2>1, <2>2, <2>3, FxTurnKeeps
<1>10. ASSUME NEW r \in Rankings, VendorsAnswer(r) PROVE FxInv'
  <2>1. PICK fix \in Fixes \cup {fxNow} :
          /\ rates' = [rates EXCEPT ![NextOf(r)] = [fix |-> fix, fetched |-> fxNow]]
          /\ Rated(r, fix, fxNow)
    BY <1>10 DEF VendorsAnswer
  <2>2. ranking[r].left # {} /\ fxNow' = fxNow
    BY <1>10 DEF VendorsAnswer, FxInv, RankingFits
  <2>3. fix \in Nat
    <3>1. ASSUME NEW n \in 0..FxMaxTime PROVE DayLength * n \in Nat
      <4>1. DayLength \in Nat /\ n \in Nat
        BY FxAssumption
      <4>2. QED
        BY <4>1
    <3>2. Fixes \subseteq Nat
      BY <3>1 DEF Fixes
    <3>3. fxNow \in Nat
      BY DEF FxInv, FxTypeOK
    <3>4. QED
      BY <3>2, <3>3
  <2>4. rates' \in [Foreign -> [fix : Nat, fetched : Int]]
    <3> DEFINE new == [fix |-> fix, fetched |-> fxNow]
    <3>1. fxNow \in Int
      BY <1>1
    <3>2. new \in [fix : Nat, fetched : Int]
      BY <2>3, <3>1
    <3>3. rates' = [rates EXCEPT ![NextOf(r)] = new]
      BY <2>1
    <3> HIDE DEF new
    <3>4. QED
      BY <1>1, <3>2, <3>3
  <2>5. fxNow - fxNow < FixTtl
    BY <1>1
  <2>6. QED
    BY <1>1, <2>1, <2>2, <2>3, <2>4, <2>5, FxRatedKeeps
<1>11. ASSUME NEW r \in Rankings, VendorsFail(r) PROVE FxInv'
  BY <1>1, <1>11, FxEndKeeps DEF VendorsFail
<1>12. ASSUME NEW r \in Rankings, Judge(r) PROVE FxInv'
  <2>1. CASE fxNow - OldestStamp(r) > MaxFixAge
    BY <1>1, <1>12, <2>1, FxEndKeeps DEF Judge
  <2>2. CASE ~(fxNow - OldestStamp(r) > MaxFixAge)
    <3>1. CASE ranking[r].pairs = {}
      <4>1. EndRanking(r, "ranked") /\ UNCHANGED <<fxNow, rates>>
        BY <1>12, <2>2 DEF Judge
      <4> DEFINE new == [ranking[r] EXCEPT !.at = "ranked", !.answered = fxNow]
      <4>2. ranking' = [ranking EXCEPT ![r] = new]
        BY <4>1 DEF EndRanking, FxInv, FxTypeOK
      <4>3. new \in RankingStates /\ new.at = "ranked" /\ new.pairs = {}
        BY <1>1, <3>1 DEF FxInv, FxTypeOK, RankingStates
      <4> HIDE DEF new
      <4>4. QED
        BY <1>1, <4>1, <4>2, <4>3, FxTurnKeeps
    <3>2. CASE ranking[r].pairs # {}
      <4>1. OldestStamp(r) \in Nat /\ MaxFixAge \in Nat
        BY <1>1, <3>2, OldestIsOldest, FxAssumption
      <4>2. fxNow - OldestStamp(r) <= MaxFixAge
        BY <1>1, <2>2, <4>1
      <4>3. QED
        BY <1>1, <1>12, <2>2, <4>2, FxEndKeeps DEF Judge
    <3>3. QED
      BY <3>1, <3>2
  <2>3. QED
    BY <2>1, <2>2
<1>13. QED
  BY <1>3, <1>4, <1>6, <1>7, <1>8, <1>9, <1>10, <1>11, <1>12 DEF FxNext

-----------------------------------------------------------------------------
(* Theorems.                                                               *)

\* However the rankings share the cache and however long the vendors take, no
\* price is ranked by a fix older than the gate's limit, and the cache never keeps
\* a rate past its time (backend/market_data/fx/convert.py, provider.py).
THEOREM RankingsAreRecent == FxSpec => []FixesAreRecent
<1>1. FxInit => FxInv
  BY FxInitEstablishes
<1>2. FxInv /\ [FxNext]_fxVars => FxInv'
  BY FxStepKeeps
<1>3. FxInv => FixesAreRecent
  <2>1. SUFFICES ASSUME FxInv PROVE FixesAreRecent
    OBVIOUS
  <2>2. RankedOnFresh
    BY <2>1 DEF FxInv, RankingFits, RankedOnFresh
  <2>3. CacheAddsLittle
    BY <2>1 DEF FxInv, FxTypeOK, RankingStates, RatePairs, CacheAddsLittle
  <2>4. QED
    BY <2>2, <2>3 DEF FixesAreRecent
<1>4. QED
  BY <1>1, <1>2, <1>3, PTL DEF FxSpec

-----------------------------------------------------------------------------
(* Statements: the invariant.                                              *)

\* A failure of EDGAR that was at most so many ticks before a time.
CausedBy(answer, time, ticks) ==
  ~IsNonUs /\ answer.source = "yfinance-statements" =>
    secFailed \in Nat /\ secFailed # NoTime /\ time <= secFailed + ticks

\* A call ends within a tick of its start.  Yahoo is asked when EDGAR has failed.
ReaderFits(x) ==
  /\ x.at \in Nat /\ x.at <= day
  /\ x.step # "idle" => day <= x.at + 1
  /\ x.step = "yahoo" /\ ~IsNonUs =>
       secFailed \in Nat /\ secFailed # NoTime /\ x.at <= secFailed
  /\ x.step = "store" => x.answer.at = x.at /\ CausedBy(x.answer, x.at, 1)

\* An entry was fetched at most a tick before its life began.
StoredFits ==
  /\ stored.expires \in Nat /\ stored.answer.at \in Nat
  /\ stored.answer # NoAnswer =>
       /\ stored.expires <= stored.answer.at + StatementTtl + 1
       /\ CausedBy(stored.answer, stored.expires, StatementTtl + 2)

ShownFits ==
  Answered =>
    /\ shown.at \in Nat /\ day <= shown.at + StatementTtl + 1
    /\ CausedBy(shown, day, StatementTtl + 2)

StatementsInv ==
  /\ day \in Nat /\ day <= StatementMaxTime
  /\ secFailed \in Nat /\ (secFailed # NoTime => secFailed <= day)
  /\ DOMAIN asks = Readers
  /\ \A r \in Readers : ReaderFits(asks[r])
  /\ StoredFits /\ ShownFits

-----------------------------------------------------------------------------
(* Statements: the steps.                                                  *)

LEMMA StatementsInitEstablishes == StatementsInit => StatementsInv
<1>1. SUFFICES ASSUME StatementsInit PROVE StatementsInv
  OBVIOUS
<1>2. ReaderFits(Idle)
  BY <1>1 DEF StatementsInit, ReaderFits, Idle
<1>3. StoredFits /\ ShownFits
  BY <1>1 DEF StatementsInit, StoredFits, ShownFits, NoEntry, NoAnswer, Answered
<1>4. NoTime \in Nat
  BY StatementsAssumption DEF NoTime
<1>5. QED
  BY <1>1, <1>2, <1>3, <1>4, StatementsAssumption DEF StatementsInit, StatementsInv

\* EDGAR's last failure only moves on, to now.
LEMMA CauseStays ==
  ASSUME StatementsInv, secFailed' = secFailed \/ secFailed' = day, listing' = listing,
         NEW answer, NEW time \in Nat, NEW ticks \in Nat, CausedBy(answer, time, ticks)
  PROVE  CausedBy(answer, time, ticks)'
<1>1. day \in Nat /\ day # NoTime /\ secFailed \in Nat
      /\ (secFailed # NoTime => secFailed <= day)
  BY StatementsAssumption DEF StatementsInv, NoTime
<1>2. NoTime' = NoTime /\ IsNonUs' = IsNonUs
  BY DEF NoTime, IsNonUs
<1>3. QED
  BY <1>1, <1>2 DEF CausedBy

\* What holds of readers, entry and answer holds on while the clock stands still
\* and EDGAR fails at most.
LEMMA StatementsFitOn ==
  ASSUME StatementsInv, day' = day, listing' = listing,
         secFailed' = secFailed \/ secFailed' = day
  PROVE  /\ day' \in Nat /\ day' <= StatementMaxTime
         /\ secFailed' \in Nat /\ (secFailed' # NoTime => secFailed' <= day')
         /\ \A x : ReaderFits(x) => ReaderFits(x)'
         /\ stored' = stored => StoredFits'
         /\ shown' = shown => ShownFits'
<1>1. day \in Nat /\ day # NoTime /\ secFailed \in Nat
      /\ (secFailed # NoTime => secFailed <= day) /\ StatementTtl \in Nat
  BY StatementsAssumption DEF StatementsInv, NoTime
<1>2. IsNonUs' = IsNonUs /\ NoTime' = NoTime
  BY DEF IsNonUs, NoTime
<1>3. ASSUME NEW x, ReaderFits(x) PROVE ReaderFits(x)'
  <2>1. x.step = "store" => CausedBy(x.answer, x.at, 1)'
    BY <1>3, CauseStays DEF ReaderFits
  <2>2. x.step = "yahoo" /\ ~IsNonUs =>
          secFailed' \in Nat /\ secFailed' # NoTime /\ x.at <= secFailed'
    BY <1>1, <1>3 DEF ReaderFits
  <2>3. QED
    BY <1>2, <1>3, <2>1, <2>2 DEF ReaderFits
<1>4. ASSUME stored' = stored PROVE StoredFits'
  <2>1. StoredFits
    BY DEF StatementsInv
  <2>2. PICK answer, expires : answer = stored.answer /\ expires = stored.expires
    OBVIOUS
  <2>3. answer # NoAnswer => CausedBy(answer, expires, StatementTtl + 2)'
    BY <1>1, <2>1, <2>2, CauseStays DEF StoredFits
  <2>4. QED
    BY <1>4, <2>1, <2>2, <2>3 DEF StoredFits, CausedBy
<1>5. ASSUME shown' = shown PROVE ShownFits'
  <2>1. ShownFits
    BY DEF StatementsInv
  <2>2. PICK answer, time : answer = shown /\ time = day
    OBVIOUS
  <2>3. Answered => CausedBy(answer, time, StatementTtl + 2)'
    BY <1>1, <2>1, <2>2, CauseStays DEF ShownFits
  <2>4. QED
    BY <1>5, <2>1, <2>2, <2>3 DEF ShownFits, CausedBy, Answered
<1>6. QED
  BY <1>1, <1>3, <1>4, <1>5 DEF StatementsInv

\* A step of one reader keeps the invariant if it fits then, and with it what is
\* stored and shown.
LEMMA ReaderKeeps ==
  ASSUME StatementsInv, NEW r \in Readers, NEW new, asks' = [asks EXCEPT ![r] = new],
         day' = day, listing' = listing, secFailed' = secFailed \/ secFailed' = day,
         ReaderFits(new)', stored' = stored \/ StoredFits', shown' = shown \/ ShownFits'
  PROVE  StatementsInv'
<1>1. DOMAIN asks' = Readers
  BY DEF StatementsInv
<1>2. ASSUME NEW q \in Readers PROVE ReaderFits(asks[q])'
  <2>1. asks'[q] = IF q = r THEN new ELSE asks[q]
    BY DEF StatementsInv
  <2>2. ReaderFits(asks[q])
    BY DEF StatementsInv
  <2>3. CASE q = r
    BY <2>1, <2>3 DEF ReaderFits, CausedBy
  <2>4. CASE q # r
    <3>1. asks'[q] = asks[q]
      BY <2>1, <2>4
    <3>2. PICK x : x = asks[q]
      OBVIOUS
    <3>3. ReaderFits(x)'
      BY <2>2, <3>2, StatementsFitOn
    <3>4. QED
      BY <3>1, <3>2, <3>3 DEF ReaderFits, CausedBy
  <2>5. QED
    BY <2>3, <2>4
<1>3. QED
  BY <1>1, <1>2, StatementsFitOn DEF StatementsInv

\* A reader that is answered rests.
LEMMA ReplyKeeps ==
  ASSUME StatementsInv, NEW r \in Readers, NEW answer, Reply(r, answer),
         UNCHANGED <<listing, facts, vendorUp, secFailed, day>>,
         stored' = stored \/ StoredFits', ShownFits'
  PROVE  StatementsInv'
<1>1. day \in Nat
  BY DEF StatementsInv
<1>2. asks' = [asks EXCEPT ![r] = Idle] /\ ReaderFits(Idle)'
  BY <1>1 DEF Reply, ReaderFits, Idle
<1>3. QED
  BY <1>2, ReaderKeeps

\* A reader that moves on fits where it gets to.
LEMMA MoveKeeps ==
  ASSUME StatementsInv, NEW r \in Readers, NEW step, NEW answer, MoveTo(r, step, answer),
         UNCHANGED <<listing, stored, shown, day>>,
         secFailed' = secFailed \/ secFailed' = day,
         step = "yahoo" /\ ~IsNonUs => secFailed' = day,
         step = "store" => answer.at = day /\ CausedBy(answer, day, 1)'
  PROVE  StatementsInv'
<1> DEFINE new == [step |-> step, answer |-> answer, at |-> day]
<1>1. asks' = [asks EXCEPT ![r] = new]
  BY DEF MoveTo
<1>2. day \in Nat /\ day # NoTime /\ NoTime' = NoTime /\ IsNonUs' = IsNonUs
  BY StatementsAssumption DEF StatementsInv, NoTime, IsNonUs
<1>3. PICK at : at = day
  OBVIOUS
<1>4. new.step = step /\ new.answer = answer /\ new.at = at
  BY <1>3
<1> HIDE DEF new
<1>5. PICK x : x = new
  OBVIOUS
<1>6. x.step = step /\ x.answer = answer /\ x.at = at
  BY <1>4, <1>5
<1>7. x.step = "store" => x.answer.at = x.at /\ CausedBy(x.answer, x.at, 1)'
  BY <1>3, <1>6 DEF CausedBy
<1>8. ReaderFits(x)'
  BY <1>2, <1>3, <1>6, <1>7 DEF ReaderFits
<1>9. asks' = [asks EXCEPT ![r] = x]
  BY <1>1, <1>5
<1>10. QED
  BY <1>8, <1>9, ReaderKeeps

LEMMA StatementsTickKeeps ==
  ASSUME StatementsInv, StatementsTick
  PROVE  StatementsInv'
<1>1. /\ day' = day + 1 /\ shown' = NoAnswer /\ day < StatementMaxTime
      /\ \A r \in Readers : asks[r].step # "idle" => asks[r].at = day
      /\ asks' = asks /\ stored' = stored /\ secFailed' = secFailed /\ listing' = listing
  BY DEF StatementsTick
<1>2. /\ day \in Nat /\ StatementMaxTime \in Nat /\ secFailed \in Nat
      /\ (secFailed # NoTime => secFailed <= day)
  BY StatementsAssumption DEF StatementsInv
<1>3. day' \in Nat /\ day' <= StatementMaxTime /\ (secFailed' # NoTime => secFailed' <= day')
  BY <1>1, <1>2 DEF NoTime
<1>4. ASSUME NEW r \in Readers PROVE ReaderFits(asks[r])'
  <2>1. ReaderFits(asks[r])
    BY DEF StatementsInv
  <2>2. asks'[r] = asks[r]
    BY <1>1
  <2>3. asks[r].at <= day + 1 /\ (asks[r].step # "idle" => day + 1 <= asks[r].at + 1)
    BY <1>1, <1>2, <2>1 DEF ReaderFits
  <2>4. QED
    BY <1>1, <2>1, <2>2, <2>3 DEF ReaderFits, CausedBy, IsNonUs, NoTime
<1>5. StoredFits'
  BY <1>1 DEF StatementsInv, StoredFits, CausedBy, IsNonUs, NoTime
<1>6. ShownFits'
  BY <1>1 DEF ShownFits, Answered
<1>7. QED
  BY <1>1, <1>2, <1>3, <1>4, <1>5, <1>6 DEF StatementsInv

LEMMA StatementsStepKeeps ==
  ASSUME StatementsInv, [StatementsNext]_statementVars
  PROVE  StatementsInv'
<1>1. ASSUME UNCHANGED <<listing, stored, asks, shown, secFailed, day>> PROVE StatementsInv'
  BY <1>1 DEF StatementsInv, ReaderFits, StoredFits, ShownFits, CausedBy, Answered,
              IsNonUs, NoTime
<1>2. CASE UNCHANGED statementVars
  BY <1>1, <1>2 DEF statementVars
<1>3. ASSUME NEW tag, NEW profits, File(tag, profits) PROVE StatementsInv'
  BY <1>1, <1>3 DEF File
<1>4. ASSUME NEW v, VendorTurns(v) PROVE StatementsInv'
  BY <1>1, <1>4 DEF VendorTurns
<1>5. CASE StatementsTick
  BY <1>5, StatementsTickKeeps
<1>6. day \in Nat /\ day # NoTime /\ day <= StatementMaxTime /\ StatementTtl \in Nat
  BY StatementsAssumption DEF StatementsInv, NoTime
<1>7. ASSUME NEW r \in Readers, FromCache(r) PROVE StatementsInv'
  <2>1. /\ Valid(stored) /\ Reply(r, stored.answer) /\ stored' = stored
        /\ UNCHANGED <<listing, facts, vendorUp, secFailed, day>>
    BY <1>7 DEF FromCache
  <2>2. StoredFits
    BY DEF StatementsInv
  <2>3. PICK answer : answer = stored.answer
    OBVIOUS
  <2>4. /\ answer # NoAnswer /\ day <= stored.expires /\ shown' = answer
        /\ answer.at \in Nat /\ stored.expires \in Nat
        /\ stored.expires <= answer.at + StatementTtl + 1
        /\ CausedBy(answer, stored.expires, StatementTtl + 2)
    BY <2>1, <2>2, <2>3 DEF Valid, StoredFits, Reply
  <2>5. day <= answer.at + StatementTtl + 1
    BY <1>6, <2>4
  <2>6. CausedBy(answer, day, StatementTtl + 2)
    BY <1>6, <2>4 DEF CausedBy
  <2>7. ShownFits'
    BY <2>1, <2>4, <2>5, <2>6 DEF ShownFits, CausedBy, IsNonUs, NoTime
  <2>8. Reply(r, answer)
    BY <2>1, <2>3
  <2>9. QED
    BY <2>1, <2>7, <2>8, ReplyKeeps
<1>8. ASSUME NEW r \in Readers, FirstLeg(r) PROVE StatementsInv'
  <2>1. CASE IsNonUs
    BY <1>8, <2>1, MoveKeeps DEF FirstLeg
  <2>2. CASE ~IsNonUs
    BY <1>8, <2>2, MoveKeeps DEF FirstLeg
  <2>3. QED
    BY <2>1, <2>2
<1>9. ASSUME NEW r \in Readers, ResolveCik(r) PROVE StatementsInv'
  <2>1. CASE "map" \in vendorUp \/ listing = "seeded"
    BY <1>9, <2>1, MoveKeeps DEF ResolveCik
  <2>2. CASE ~("map" \in vendorUp \/ listing = "seeded")
    BY <1>9, <2>2, MoveKeeps DEF ResolveCik
  <2>3. QED
    BY <2>1, <2>2
<1>10. ASSUME NEW r \in Readers, SecAnswers(r) PROVE StatementsInv'
  <2>1. PICK answer : answer = SecAnswer
    OBVIOUS
  <2>2. answer.at = day /\ answer.source = "sec-edgar"
    BY <2>1 DEF SecAnswer
  <2>3. CausedBy(answer, day, 1)'
    BY <2>2 DEF CausedBy
  <2>4. /\ MoveTo(r, "store", answer) /\ UNCHANGED <<listing, stored, shown, day>>
        /\ secFailed' = secFailed
    BY <1>10, <2>1 DEF SecAnswers
  <2>5. QED
    BY <2>2, <2>3, <2>4, MoveKeeps
<1>11. ASSUME NEW r \in Readers, SecFails(r) PROVE StatementsInv'
  BY <1>11, MoveKeeps DEF SecFails
<1>12. ASSUME NEW r \in Readers, NEW lacks \in BOOLEAN, YahooAnswers(r, lacks)
       PROVE  StatementsInv'
  <2>1. PICK answer : answer = YahooAnswer(lacks)
    OBVIOUS
  <2>2. answer.at = day
    BY <2>1 DEF YahooAnswer
  <2>3. /\ asks[r].step = "yahoo" /\ MoveTo(r, "store", answer)
        /\ UNCHANGED <<listing, stored, shown, day>> /\ secFailed' = secFailed
    BY <1>12, <2>1 DEF YahooAnswers
  <2>4. ~IsNonUs => secFailed \in Nat /\ secFailed # NoTime /\ day <= secFailed + 1
    BY <1>6, <2>3 DEF StatementsInv, ReaderFits
  <2>5. CausedBy(answer, day, 1)'
    BY <2>3, <2>4 DEF CausedBy, IsNonUs, NoTime
  <2>6. QED
    BY <2>2, <2>3, <2>5, MoveKeeps
<1>13. ASSUME NEW r \in Readers, YahooFails(r) PROVE StatementsInv'
  <2>1. Reply(r, NoAnswer) /\ stored' = stored
        /\ UNCHANGED <<listing, facts, vendorUp, secFailed, day>>
    BY <1>13 DEF YahooFails
  <2>2. ShownFits'
    BY <2>1 DEF Reply, ShownFits, Answered
  <2>3. QED
    BY <2>1, <2>2, ReplyKeeps
<1>14. ASSUME NEW r \in Readers, Store(r) PROVE StatementsInv'
  <2>1. PICK answer, at : answer = asks[r].answer /\ at = asks[r].at
    OBVIOUS
  <2>2. /\ stored' = [answer |-> answer, expires |-> day + StatementTtl]
        /\ Reply(r, answer) /\ UNCHANGED <<listing, facts, vendorUp, secFailed, day>>
        /\ asks[r].step = "store"
    BY <1>14, <2>1 DEF Store, Expiry
  <2>3. /\ at \in Nat /\ at <= day /\ day <= at + 1 /\ answer.at = at
        /\ CausedBy(answer, at, 1)
    BY <2>1, <2>2 DEF StatementsInv, ReaderFits
  <2>4. /\ day + StatementTtl \in Nat
        /\ day + StatementTtl <= answer.at + StatementTtl + 1
        /\ day <= answer.at + StatementTtl + 1
    BY <1>6, <2>3
  <2>5. /\ CausedBy(answer, day + StatementTtl, StatementTtl + 2)
        /\ CausedBy(answer, day, StatementTtl + 2)
    BY <1>6, <2>3 DEF CausedBy
  <2>6. StoredFits'
    BY <2>2, <2>3, <2>4, <2>5 DEF StoredFits, CausedBy, IsNonUs, NoTime
  <2>7. ShownFits'
    BY <2>2, <2>3, <2>4, <2>5 DEF Reply, ShownFits, CausedBy, IsNonUs, NoTime
  <2>8. QED
    BY <2>2, <2>6, <2>7, ReplyKeeps
<1>15. ASSUME NEW r \in Readers, Read(r) PROVE StatementsInv'
  BY <1>7, <1>8, <1>9, <1>10, <1>11, <1>12, <1>13, <1>14, <1>15 DEF Read
<1>16. QED
  BY <1>2, <1>3, <1>4, <1>5, <1>15 DEF StatementsNext

\* A statement is shown at most the cache's 24 hours and a tick after it was
\* fetched, and Yahoo's for a US listing only after a failure of EDGAR no older,
\* for any number of requests and any lives (resolver.py:186-246).
THEOREM AnswersAreSound == StatementsSpec => []AnswerIsSound
<1>1. StatementsInv => AnswerIsSound
  <2>1. SUFFICES ASSUME StatementsInv PROVE AnswerIsSound
    OBVIOUS
  <2>2. day \in Nat /\ StatementTtl \in Nat /\ ShownFits
    BY <2>1, StatementsAssumption DEF StatementsInv
  <2>3. StatementIsRecent
    BY <2>2 DEF ShownFits, StatementIsRecent
  <2>4. FallbackHadCause
    BY <2>2 DEF ShownFits, FallbackHadCause, CausedBy
  <2>5. QED
    BY <2>3, <2>4 DEF AnswerIsSound
<1>2. StatementsInv /\ [StatementsNext]_statementVars => StatementsInv'
  BY StatementsStepKeeps
<1>3. QED
  BY <1>1, <1>2, StatementsInitEstablishes, PTL DEF StatementsSpec

-----------------------------------------------------------------------------
(* RateLimit: the invariant.                                               *)

RateTypes ==
  /\ rateNow \in Nat
  /\ known \in Seq(Clients) /\ Len(known) <= MaxClients
  /\ \A i, j \in DOMAIN known : known[i] = known[j] => i = j
  /\ buckets \in [Clients -> Seq(Nat)]
  /\ admitted \in [Clients -> Seq(Nat)]
  /\ advice \in [Clients -> Int]
  /\ since \in [Clients -> SUBSET Clients]

Kept(c) == \E i \in DOMAIN known : known[i] = c

\* The clients behind one in the table have been seen since.
OrderFits == \A i, j \in DOMAIN known : i < j => known[j] \in since[known[i]]

\* Who has let only few others come is still in the table, if it was admitted.
TableFits(c) ==
  /\ ~Kept(c) => buckets[c] = <<>>
  /\ Cardinality(since[c]) < MaxClients /\ admitted[c] # <<>> => Kept(c)

\* The last of the times at which a client was admitted are the stamps in its
\* bucket; earlier ones have left the window.
Records(times, stamps, moment, window) ==
  \A i \in 1..Len(times) :
    LET place == Len(stamps) - (Len(times) - i)
    IN  IF place >= 1 THEN times[i] = stamps[place] ELSE times[i] <= moment - window

StampsFit(c) ==
  /\ Len(buckets[c]) <= Limit /\ Len(admitted[c]) <= Limit + 1
  /\ Kept(c) => Records(admitted[c], buckets[c], rateNow, RateWindow)

BudgetFits(c) ==
  Len(admitted[c]) = Limit + 1 => admitted[c][Limit + 1] - admitted[c][1] >= RateWindow

\* When a client was told to come back, its first stamp has left the window, up to
\* the rounding.
AdviceFits(c) ==
  advice[c] # NoAdvice /\ buckets[c] # <<>> =>
    buckets[c][1] + RateWindow <= advice[c] + TicksPerSecond - 1

ClientFits(c) == TableFits(c) /\ StampsFit(c) /\ BudgetFits(c) /\ AdviceFits(c)

RateInv == RateTypes /\ OrderFits /\ \A c \in Clients : ClientFits(c)

LEMMA RateInitEstablishes == RateInit => RateInv
<1> SUFFICES ASSUME RateInit PROVE RateInv
  OBVIOUS
<1>1. MaxClients \in Nat \ {0} /\ Limit \in Nat \ {0} /\ NoAdvice \in Int
  BY LimitAssumption DEF NoAdvice
<1>2. RateTypes
  BY <1>1 DEF RateInit, RateTypes
<1>3. OrderFits
  BY DEF RateInit, OrderFits
<1>4. ASSUME NEW c \in Clients PROVE ClientFits(c)
  <2>1. buckets[c] = <<>> /\ admitted[c] = <<>> /\ advice[c] = NoAdvice
    BY DEF RateInit
  <2>2. Len(admitted[c]) = 0 /\ Len(buckets[c]) = 0
    BY <2>1
  <2>3. TableFits(c)
    BY <2>1 DEF TableFits
  <2>4. StampsFit(c)
    BY <1>1, <2>2 DEF StampsFit, Records
  <2>5. BudgetFits(c)
    BY <1>1, <2>2 DEF BudgetFits
  <2>6. QED
    BY <2>1, <2>3, <2>4, <2>5 DEF ClientFits, AdviceFits
<1>5. QED
  BY <1>2, <1>3, <1>4 DEF RateInv

-----------------------------------------------------------------------------
(* RateLimit: the steps.                                                   *)

\* A sequence without one of its places: the others stay in their order.
LEMMA RemovedAt ==
  ASSUME NEW S, NEW s \in Seq(S), NEW n \in Nat, n = Len(s), NEW p \in 1..n
  PROVE  /\ RemoveAt(s, p) \in Seq(S) /\ Len(RemoveAt(s, p)) = n - 1
         /\ \A i \in 1..(p - 1) : RemoveAt(s, p)[i] = s[i]
         /\ \A i \in p..(n - 1) : RemoveAt(s, p)[i] = s[i + 1]
<1> DEFINE front == SubSeq(s, 1, p - 1)
           back == SubSeq(s, p + 1, n)
<1>1. p \in Int /\ 1 <= p /\ p <= n /\ \A i \in 1..n : s[i] \in S
  OBVIOUS
<1>2. /\ front \in Seq(S) /\ Len(front) = p - 1
      /\ \A i \in 1..(p - 1) : front[i] = s[i]
  <2>1. 1 \in Int /\ p - 1 \in Int /\ \A i \in 1..(p - 1) : i \in 1..n /\ 1 + i - 1 = i
    BY <1>1
  <2>2. /\ front \in Seq(S) /\ Len(front) = (IF 1 <= p - 1 THEN p - 1 - 1 + 1 ELSE 0)
        /\ \A i \in 1..p - 1 - 1 + 1 : front[i] = s[1 + i - 1]
    BY <1>1, <2>1, SubSeqProperties
  <2> HIDE DEF front
  <2>3. QED
    BY <1>1, <2>1, <2>2
<1>3. /\ back \in Seq(S) /\ Len(back) = n - p
      /\ \A i \in 1..(n - p) : back[i] = s[p + i]
  <2>1. n \in Int /\ p + 1 \in Int /\ \A i \in (p + 1)..n : i \in 1..n
    BY <1>1
  <2>2. /\ back \in Seq(S) /\ Len(back) = (IF p + 1 <= n THEN n - (p + 1) + 1 ELSE 0)
        /\ \A i \in 1..n - (p + 1) + 1 : back[i] = s[p + 1 + i - 1]
    BY <1>1, <2>1, SubSeqProperties
  <2>3. \A i \in 1..(n - p) : i \in 1..n - (p + 1) + 1 /\ p + 1 + i - 1 = p + i
    BY <1>1
  <2> HIDE DEF back
  <2>4. QED
    BY <1>1, <2>2, <2>3
<1>4. RemoveAt(s, p) = front \o back
  BY DEF RemoveAt
<1> HIDE DEF front, back
<1>5. PICK whole : whole = front \o back
  OBVIOUS
<1>6. /\ whole \in Seq(S) /\ Len(whole) = Len(front) + Len(back)
      /\ \A i \in 1..Len(front) + Len(back) :
           whole[i] = IF i <= Len(front) THEN front[i] ELSE back[i - Len(front)]
  BY <1>2, <1>3, <1>5, ConcatProperties
<1>7. ASSUME NEW i \in 1..(p - 1) PROVE whole[i] = s[i]
  <2>1. i \in 1..Len(front) + Len(back) /\ i <= Len(front)
    BY <1>1, <1>2, <1>3
  <2>2. QED
    BY <1>2, <1>6, <2>1
<1>8. ASSUME NEW i \in p..(n - 1) PROVE whole[i] = s[i + 1]
  <2>1. /\ i \in 1..Len(front) + Len(back) /\ ~(i <= Len(front)) /\ i - Len(front) \in 1..(n - p)
        /\ p + (i - Len(front)) = i + 1
    BY <1>1, <1>2, <1>3
  <2>2. whole[i] = back[i - Len(front)]
    BY <1>6, <2>1
  <2>3. back[i - Len(front)] = s[p + (i - Len(front))]
    BY <1>3, <2>1
  <2>4. QED
    BY <2>1, <2>2, <2>3
<1>9. Len(whole) = n - 1
  BY <1>1, <1>2, <1>3, <1>6
<1>10. QED
  BY <1>4, <1>5, <1>6, <1>7, <1>8, <1>9

\* The table without a client.
LEMMA WithoutKeepsOrder ==
  ASSUME RateTypes, NEW c \in Clients, NEW n \in Nat, n = Len(known)
  PROVE  \E p \in 1..(n + 1), m \in Nat :
           /\ Without(c) \in Seq(Clients) /\ Len(Without(c)) = m
           /\ p <= n => known[p] = c /\ m = n - 1
           /\ p = n + 1 => ~Kept(c) /\ m = n
           /\ \A i \in 1..m : i < p => Without(c)[i] = known[i]
           /\ \A i \in 1..m : i >= p => Without(c)[i] = known[i + 1]
<1>1. known \in Seq(Clients) /\ DOMAIN known = 1..n
  BY DEF RateTypes
<1>2. CASE Kept(c)
  <2> DEFINE here == {i \in 1..Len(known) : known[i] = c}
  <2>1. PICK q \in 1..n : known[q] = c
    BY <1>1, <1>2 DEF Kept
  <2>2. here # {} /\ here \in SUBSET Nat
    BY <2>1
  <2>3. PICK p \in here : \A k \in here : p <= k
    <3> HIDE DEF here
    <3>1. QED
      BY <2>2, LeastExists
  <2>4. Min(here) = p
    <3>1. Min(here) \in here /\ \A k \in here : Min(here) <= k
      BY <2>3 DEF Min
    <3>2. Min(here) \in Nat /\ p \in Nat /\ Min(here) <= p /\ p <= Min(here)
      BY <2>2, <2>3, <3>1
    <3> HIDE DEF here
    <3>3. QED
      BY <3>2
  <2>5. Without(c) = RemoveAt(known, p)
    <3>1. \E i \in 1..Len(known) : known[i] = c
      BY <2>1
    <3>2. SelectInSeq(known, LAMBDA v : v = c) = p
      BY <2>2, <2>4 DEF SelectInSeq
    <3>3. QED
      BY <3>1, <3>2 DEF Without, RemoveFirst
  <2>6. p \in 1..n /\ known[p] = c
    OBVIOUS
  <2> HIDE DEF here
  <2>7. /\ Without(c) \in Seq(Clients) /\ Len(Without(c)) = n - 1
        /\ \A i \in 1..(p - 1) : Without(c)[i] = known[i]
        /\ \A i \in p..(n - 1) : Without(c)[i] = known[i + 1]
    <3>1. \A at \in 1..n :
            /\ RemoveAt(known, at) \in Seq(Clients) /\ Len(RemoveAt(known, at)) = n - 1
            /\ \A i \in 1..(at - 1) : RemoveAt(known, at)[i] = known[i]
            /\ \A i \in at..(n - 1) : RemoveAt(known, at)[i] = known[i + 1]
      BY <1>1, RemovedAt
    <3>2. QED
      BY <2>5, <2>6, <3>1
  <2>8. /\ p \in 1..(n + 1) /\ n - 1 \in Nat /\ p # n + 1
        /\ \A i \in 1..(n - 1) : (i < p => i \in 1..(p - 1)) /\ (i >= p => i \in p..(n - 1))
    BY <2>6
  <2>9. PICK m \in Nat : m = n - 1
    BY <2>8
  <2>10. QED
    BY <2>6, <2>7, <2>8, <2>9
<1>3. CASE ~Kept(c)
  <2>1. Without(c) = known
    BY <1>1, <1>3 DEF Without, RemoveFirst, Kept
  <2>2. PICK p \in 1..(n + 1) : p = n + 1
    OBVIOUS
  <2>3. ~(p <= n) /\ \A i \in 1..n : ~(i >= p)
    BY <2>2
  <2>4. QED
    BY <1>1, <1>3, <2>1, <2>2, <2>3
<1>4. QED
  BY <1>2, <1>3

\* The table when a client has been seen: it comes last.
LEMMA SeenComesLast ==
  ASSUME RateInv, NEW c \in Clients, Seen(c), NEW n \in Nat, n = Len(known)
  PROVE  LET seen == LastSeen(c)
         IN  /\ seen \in Seq(Clients)
             /\ Len(seen) \in {n, n + 1} /\ Len(seen) \in Nat \ {0}
             /\ Kept(c) => Len(seen) = n
             /\ seen[Len(seen)] = c
             /\ \A i, j \in DOMAIN seen : seen[i] = seen[j] => i = j
             /\ \A i, j \in DOMAIN seen : i < j => seen[j] \in since'[seen[i]]
             /\ \A k \in Clients : (\E i \in DOMAIN seen : seen[i] = k) <=> k = c \/ Kept(k)
<1> DEFINE w == Without(c)
           seen == LastSeen(c)
<1>1. known \in Seq(Clients) /\ DOMAIN known = 1..n /\ \A i \in 1..n : known[i] \in Clients
  BY DEF RateInv, RateTypes
<1>2. \A i, j \in 1..n : known[i] = known[j] => i = j
  BY <1>1 DEF RateInv, RateTypes
<1>3. \A i, j \in 1..n : i < j => known[j] \in since[known[i]]
  BY <1>1 DEF RateInv, OrderFits
<1>4. \A k \in Clients : since'[k] = IF k = c THEN {} ELSE since[k] \cup {c}
  BY DEF Seen
<1>5. PICK p \in 1..(n + 1), m \in Nat :
        /\ w \in Seq(Clients) /\ Len(w) = m
        /\ p <= n => known[p] = c /\ m = n - 1
        /\ p = n + 1 => ~Kept(c) /\ m = n
        /\ \A i \in 1..m : i < p => w[i] = known[i]
        /\ \A i \in 1..m : i >= p => w[i] = known[i + 1]
  BY WithoutKeepsOrder DEF RateInv
<1> HIDE DEF w
<1>6. p \in 1..n \/ p = n + 1
  OBVIOUS
<1>7. p \in 1..n => known[p] = c /\ m = n - 1
  BY <1>5
<1>8. \A k \in Clients : Kept(k) <=> \E i \in 1..n : known[i] = k
  BY <1>1 DEF Kept
\* Where a place of the shorter table was before.
<1> DEFINE at(i) == IF i < p THEN i ELSE i + 1
<1>9. ASSUME NEW i \in 1..m
      PROVE  at(i) \in 1..n /\ at(i) # p /\ w[i] = known[at(i)]
  <2>1. CASE p \in 1..n
    <3>1. m = n - 1
      BY <1>7, <2>1
    <3>2. at(i) \in 1..n /\ at(i) # p
      BY <2>1, <3>1
    <3>3. QED
      BY <1>5, <3>2
  <2>2. CASE p = n + 1
    <3>1. m = n
      BY <1>5, <2>2
    <3>2. at(i) = i /\ i \in 1..n /\ i < p
      BY <2>2, <3>1
    <3>3. w[i] = known[i]
      BY <1>5, <3>2
    <3>4. QED
      BY <2>2, <3>2, <3>3
  <2>3. QED
    BY <1>6, <2>1, <2>2
<1>10. \A i, j \in 1..m : i < j => at(i) < at(j)
  OBVIOUS
<1>11. ASSUME NEW i \in 1..m PROVE w[i] # c /\ w[i] \in Clients
  <2>1. at(i) \in 1..n /\ at(i) # p /\ w[i] = known[at(i)]
    BY <1>9
  <2> HIDE DEF at
  <2>2. CASE p \in 1..n
    BY <1>1, <1>2, <1>7, <2>1, <2>2
  <2>3. CASE p = n + 1
    BY <1>1, <1>5, <1>8, <2>1, <2>3
  <2>4. QED
    BY <1>6, <2>2, <2>3
<1>12. /\ seen \in Seq(Clients) /\ Len(seen) = m + 1
       /\ \A i \in 1..m : seen[i] = w[i]
       /\ seen[m + 1] = c /\ DOMAIN seen = 1..(m + 1)
  <2>1. seen = Append(w, c)
    BY DEF LastSeen, w
  <2> HIDE DEF seen
  <2>2. QED
    BY <1>5, <2>1, AppendProperties
<1> HIDE DEF seen
<1>13. Len(seen) \in {n, n + 1} /\ Len(seen) \in Nat \ {0} /\ seen[Len(seen)] = c
  <2>1. m + 1 \in {n, n + 1}
    BY <1>5, <1>6
  <2>2. QED
    BY <1>12, <2>1
<1>14. Kept(c) => Len(seen) = n
  <2>1. Kept(c) => m = n - 1
    BY <1>5, <1>6
  <2>2. QED
    BY <1>12, <2>1
<1>15. \A i \in DOMAIN seen : i \in 1..m \/ i = m + 1
  BY <1>12
<1>16. ASSUME NEW i \in DOMAIN seen, NEW j \in DOMAIN seen, seen[i] = seen[j] PROVE i = j
  <2>1. CASE i \in 1..m /\ j \in 1..m
    <3>1. w[i] = w[j]
      BY <1>12, <1>16, <2>1
    <3>2. at(i) \in 1..n /\ at(j) \in 1..n /\ known[at(i)] = known[at(j)]
      BY <1>9, <2>1, <3>1
    <3>3. at(i) = at(j)
      <4> HIDE DEF at
      <4>1. QED
        BY <1>2, <3>2
    <3>4. QED
      BY <2>1, <3>3
  <2>2. QED
    BY <1>11, <1>12, <1>15, <1>16, <2>1
<1>17. ASSUME NEW i \in DOMAIN seen, NEW j \in DOMAIN seen, i < j PROVE seen[j] \in since'[seen[i]]
  <2>1. i \in 1..m
    BY <1>12, <1>17
  <2>2. seen[i] = w[i] /\ w[i] # c /\ w[i] \in Clients
    BY <1>11, <1>12, <2>1
  <2>3. since'[w[i]] = since[w[i]] \cup {c}
    BY <1>4, <2>2
  <2>4. CASE j = m + 1
    BY <1>12, <2>2, <2>3, <2>4
  <2>5. CASE j \in 1..m
    <3>1. /\ seen[j] = known[at(j)] /\ w[i] = known[at(i)] /\ at(i) < at(j)
          /\ at(i) \in 1..n /\ at(j) \in 1..n
      BY <1>9, <1>10, <1>12, <1>17, <2>1, <2>5
    <3> HIDE DEF at
    <3>2. seen[j] \in since[w[i]]
      BY <1>3, <3>1
    <3>3. QED
      BY <2>2, <2>3, <3>2
  <2>6. QED
    BY <1>15, <2>4, <2>5
<1>18. ASSUME NEW k \in Clients PROVE (\E i \in DOMAIN seen : seen[i] = k) <=> k = c \/ Kept(k)
  <2>1. ASSUME NEW i \in DOMAIN seen, seen[i] = k PROVE k = c \/ Kept(k)
    <3>1. CASE i \in 1..m
      <4>1. at(i) \in 1..n /\ known[at(i)] = k
        BY <1>9, <1>12, <2>1, <3>1
      <4>2. QED
        BY <1>8, <4>1
    <3>2. QED
      BY <1>12, <1>15, <2>1, <3>1
  <2>2. ASSUME k = c PROVE \E i \in DOMAIN seen : seen[i] = k
    BY <1>12, <2>2
  <2>3. ASSUME Kept(k), k # c PROVE \E i \in DOMAIN seen : seen[i] = k
    <3>1. PICK q \in 1..n : known[q] = k
      BY <1>8, <2>3
    <3>2. p \in 1..n => q # p
      BY <1>7, <2>3, <3>1
    <3> DEFINE i == IF q < p THEN q ELSE q - 1
    <3>3. i \in 1..m /\ at(i) = q
      <4>1. CASE p \in 1..n
        BY <1>7, <3>2, <4>1
      <4>2. CASE p = n + 1
        <5>1. m = n
          BY <1>5, <4>2
        <5>2. QED
          BY <4>2, <5>1
      <4>3. QED
        BY <1>6, <4>1, <4>2
    <3>4. w[i] = k
      BY <1>9, <3>1, <3>3
    <3> HIDE DEF i
    <3>5. QED
      BY <1>12, <3>3, <3>4
  <2>4. QED
    BY <2>1, <2>2, <2>3
<1>19. QED
  BY <1>12, <1>13, <1>14, <1>16, <1>17, <1>18 DEF seen

\* The bucket of a client without its old stamps: it ends as before, and what is
\* gone has left the window.
LEMMA WindowIsSuffix ==
  ASSUME RateInv, NEW c \in Clients
  PROVE  \E b, l \in Nat :
           /\ b = Len(buckets[c]) /\ l = Len(InWindow(c)) /\ l <= b /\ b <= Limit
           /\ InWindow(c) \in Seq(Nat)
           /\ \A i \in 1..l : InWindow(c)[i] = buckets[c][(b - l) + i]
           /\ \A i \in 1..(b - l) : buckets[c][i] <= rateNow - RateWindow
           /\ l > 0 => InWindow(c)[1] > rateNow - RateWindow
<1>1. buckets[c] \in Seq(Nat) /\ rateNow - RateWindow \in Int /\ Len(buckets[c]) <= Limit
  BY RateTimesAssumption DEF RateInv, RateTypes, ClientFits, StampsFit
<1>2. PICK stamps \in Seq(Nat) : stamps = buckets[c]
  BY <1>1
<1>3. PICK left : left = Remaining(stamps, rateNow - RateWindow)
  OBVIOUS
<1>4. /\ left \in Seq(Nat) /\ Len(left) <= Len(stamps)
      /\ \A i \in 1..Len(left) : left[i] = stamps[(Len(stamps) - Len(left)) + i]
      /\ \A i \in 1..(Len(stamps) - Len(left)) : stamps[i] <= rateNow - RateWindow
      /\ Len(left) > 0 => left[1] > rateNow - RateWindow
  BY <1>1, <1>3, RemainingIsSuffix
<1>5. left = InWindow(c)
  BY <1>2, <1>3 DEF InWindow
<1>6. Len(left) \in Nat /\ Len(stamps) \in Nat
  BY <1>4
<1>7. QED
  BY <1>1, <1>2, <1>4, <1>5, <1>6

\* A record stays true of a bucket that loses what has left the window.
LEMMA RecordsWithout ==
  ASSUME NEW times \in Seq(Nat), NEW stamps \in Seq(Nat), NEW left \in Seq(Nat), NEW moment \in Int, NEW window \in Int,
         NEW b \in Nat, NEW l \in Nat, NEW m \in Nat,
         b = Len(stamps), l = Len(left), m = Len(times), l <= b,
         \A i \in 1..l : left[i] = stamps[(b - l) + i],
         \A i \in 1..(b - l) : stamps[i] <= moment - window,
         Records(times, stamps, moment, window)
  PROVE  Records(times, left, moment, window)
<1>1. SUFFICES ASSUME NEW i \in 1..m
               PROVE  IF l - (m - i) >= 1 THEN times[i] = left[l - (m - i)]
                                          ELSE times[i] <= moment - window
  BY DEF Records
<1>2. IF b - (m - i) >= 1 THEN times[i] = stamps[b - (m - i)] ELSE times[i] <= moment - window
  BY DEF Records
<1>3. CASE l - (m - i) >= 1
  <2>1. l - (m - i) \in 1..l /\ (b - l) + (l - (m - i)) = b - (m - i) /\ b - (m - i) >= 1
    BY <1>3
  <2>2. left[l - (m - i)] = stamps[b - (m - i)]
    <3>1. left[l - (m - i)] = stamps[(b - l) + (l - (m - i))]
      BY <2>1
    <3>2. QED
      BY <2>1, <3>1
  <2>3. QED
    BY <1>2, <1>3, <2>1, <2>2
<1>4. CASE ~(l - (m - i) >= 1)
  <2>1. CASE b - (m - i) >= 1
    <3>1. b - (m - i) \in 1..(b - l)
      BY <1>4, <2>1
    <3>2. stamps[b - (m - i)] <= moment - window
      BY <3>1
    <3>3. QED
      BY <1>2, <1>4, <2>1, <3>2
  <2>2. CASE ~(b - (m - i) >= 1)
    BY <1>2, <1>4, <2>2
  <2>3. QED
    BY <2>1, <2>2
<1>5. QED
  BY <1>3, <1>4

\* A record stays true when an admission is added to both.
LEMMA RecordsAppend ==
  ASSUME NEW times \in Seq(Nat), NEW stamps \in Seq(Nat), NEW moment \in Nat, NEW window \in Int,
         Records(times, stamps, moment, window)
  PROVE  Records(Append(times, moment), Append(stamps, moment), moment, window)
<1>1. PICK m \in Nat, b \in Nat : m = Len(times) /\ b = Len(stamps)
  OBVIOUS
<1>2. PICK more : more = Append(times, moment)
  OBVIOUS
<1>3. PICK full : full = Append(stamps, moment)
  OBVIOUS
<1>4. /\ Len(more) = m + 1 /\ more[m + 1] = moment /\ \A i \in 1..m : more[i] = times[i]
      /\ Len(full) = b + 1 /\ full[b + 1] = moment /\ \A i \in 1..b : full[i] = stamps[i]
  BY <1>1, <1>2, <1>3
<1>5. SUFFICES ASSUME NEW i \in 1..(m + 1)
               PROVE  IF (b + 1) - ((m + 1) - i) >= 1 THEN more[i] = full[(b + 1) - ((m + 1) - i)]
                                                      ELSE more[i] <= moment - window
  BY <1>2, <1>3, <1>4 DEF Records
<1>6. CASE i = m + 1
  <2>1. (b + 1) - ((m + 1) - i) = b + 1 /\ b + 1 >= 1
    BY <1>6
  <2>2. QED
    BY <1>4, <1>6, <2>1
<1>7. CASE i \in 1..m
  <2>1. (b + 1) - ((m + 1) - i) = b - (m - i)
    BY <1>7
  <2>2. IF b - (m - i) >= 1 THEN times[i] = stamps[b - (m - i)] ELSE times[i] <= moment - window
    BY <1>1, <1>7 DEF Records
  <2>3. b - (m - i) >= 1 => b - (m - i) \in 1..b
    BY <1>7
  <2>4. QED
    BY <1>4, <1>7, <2>1, <2>2, <2>3
<1>8. QED
  BY <1>6, <1>7

\* A record stays true without its first entry.
LEMMA RecordsTail ==
  ASSUME NEW times \in Seq(Nat), NEW stamps \in Seq(Nat), NEW moment \in Nat, NEW window \in Int,
         times # <<>>, Records(times, stamps, moment, window)
  PROVE  Records(Tail(times), stamps, moment, window)
<1>1. PICK m \in Nat, b \in Nat : m + 1 = Len(times) /\ b = Len(stamps)
  <2>1. Len(times) - 1 \in Nat /\ Len(stamps) \in Nat /\ (Len(times) - 1) + 1 = Len(times)
    OBVIOUS
  <2>2. QED
    BY <2>1
<1>2. PICK rest : rest = Tail(times)
  OBVIOUS
<1>3. Len(rest) = m /\ \A i \in 1..m : rest[i] = times[i + 1]
  BY <1>1, <1>2
<1>4. SUFFICES ASSUME NEW i \in 1..m
               PROVE  IF b - (m - i) >= 1 THEN rest[i] = stamps[b - (m - i)] ELSE rest[i] <= moment - window
  BY <1>1, <1>2, <1>3 DEF Records
<1>5. i + 1 \in 1..(m + 1) /\ (m + 1) - (i + 1) = m - i
  OBVIOUS
<1>6. IF b - ((m + 1) - (i + 1)) >= 1 THEN times[i + 1] = stamps[b - ((m + 1) - (i + 1))]
                                      ELSE times[i + 1] <= moment - window
  BY <1>1, <1>5 DEF Records
<1>7. QED
  BY <1>3, <1>5, <1>6

\* A client fits on while others are seen and none of them takes its place.
LEMMA OthersFit ==
  ASSUME RateInv, NEW k \in Clients, UNCHANGED rateNow,
         buckets'[k] = buckets[k], admitted'[k] = admitted[k], advice'[k] = advice[k],
         since[k] \subseteq since'[k], since'[k] \subseteq Clients, Kept(k)' <=> Kept(k)
  PROVE  ClientFits(k)'
<1>1. TableFits(k)'
  <2>1. IsFiniteSet(since'[k])
    BY ClientsAssumption, FS_Subset
  <2>2. IsFiniteSet(since[k]) /\ Cardinality(since[k]) <= Cardinality(since'[k])
    BY <2>1, FS_Subset
  <2>3. Cardinality(since[k]) \in Nat /\ Cardinality(since'[k]) \in Nat /\ MaxClients \in Nat
    BY <2>1, <2>2, FS_CardinalityType, LimitAssumption
  <2>4. TableFits(k)
    BY DEF RateInv, ClientFits
  <2>5. Cardinality(since[k])' < MaxClients => Cardinality(since[k]) < MaxClients
    BY <2>2, <2>3
  <2>6. QED
    BY <2>4, <2>5 DEF TableFits
<1>2. StampsFit(k)' /\ BudgetFits(k)' /\ AdviceFits(k)'
  BY DEF RateInv, ClientFits, StampsFit, Records, BudgetFits, AdviceFits
<1>3. QED
  BY <1>1, <1>2 DEF ClientFits

\* A client that is forgotten has let as many others come as the table holds.
LEMMA ForgottenFits ==
  ASSUME RateInv, NEW k \in Clients, UNCHANGED rateNow,
         buckets'[k] = <<>>, admitted'[k] = admitted[k], advice'[k] = advice[k],
         ~Kept(k)', ~(Cardinality(since'[k]) < MaxClients)
  PROVE  ClientFits(k)'
<1>1. TableFits(k)'
  BY DEF TableFits
<1>2. StampsFit(k)'
  <2>1. Len(buckets'[k]) = 0 /\ Limit \in Nat
    BY LimitAssumption
  <2>2. QED
    BY <2>1 DEF RateInv, ClientFits, StampsFit
<1>3. BudgetFits(k)' /\ AdviceFits(k)'
  BY DEF RateInv, ClientFits, BudgetFits, AdviceFits
<1>4. QED
  BY <1>1, <1>2, <1>3 DEF ClientFits

\* The clients behind the first of a full table are as many as it holds.
LEMMA BehindTheFirst ==
  ASSUME NEW seen \in Seq(Clients), NEW max \in Nat, Len(seen) = max + 1, NEW others \in SUBSET Clients,
         \A i, j \in DOMAIN seen : seen[i] = seen[j] => i = j,
         \A j \in DOMAIN seen : j > 1 => seen[j] \in others
  PROVE  Cardinality(others) \in Nat /\ max <= Cardinality(others)
<1> DEFINE f == [i \in 1..max |-> seen[i + 1]]
<1>1. DOMAIN seen = 1..(max + 1)
  OBVIOUS
<1>2. \A i \in 1..max : i + 1 \in DOMAIN seen /\ i + 1 > 1
  BY <1>1
<1>3. f \in [1..max -> others]
  BY <1>2
<1>4. ASSUME NEW i \in 1..max, NEW j \in 1..max, f[i] = f[j] PROVE i = j
  <2>1. i + 1 = j + 1
    BY <1>2, <1>4
  <2>2. QED
    BY <2>1
<1>5. f \in Injection(1..max, others)
  <2> HIDE DEF f
  <2>1. QED
    BY <1>3, <1>4 DEF Injection, IsInjective
<1>6. IsFiniteSet(others)
  BY ClientsAssumption, FS_Subset
<1>7. Cardinality(1..max) <= Cardinality(others)
  BY <1>5, <1>6, FS_Injection
<1>8. Cardinality(1..max) = max
  <2>1. 1 \in Int /\ max \in Int /\ max - 1 + 1 = max
    OBVIOUS
  <2>2. Cardinality(1..max) = IF 1 > max THEN 0 ELSE max - 1 + 1
    BY <2>1, FS_Interval
  <2>3. QED
    BY <2>1, <2>2
<1>9. QED
  BY <1>6, <1>7, <1>8, FS_CardinalityType

\* A request is let in.
LEMMA AdmitKeeps == ASSUME RateInv, NEW c \in Clients, AdmitRequest(c) PROVE RateInv'
<1> DEFINE seen == LastSeen(c)
           forgotten == IF Len(seen) > MaxClients THEN {Head(seen)} ELSE {}
<1>1. /\ ~Full(c) /\ rateNow' = rateNow /\ Seen(c)
      /\ known' = IF forgotten = {} THEN seen ELSE Tail(seen)
      /\ buckets' = [k \in Clients |->
           IF k \in forgotten THEN <<>> ELSE IF k = c THEN Append(InWindow(c), rateNow) ELSE buckets[k]]
      /\ admitted' = [admitted EXCEPT ![c] = Recorded(c)]
      /\ advice' = [advice EXCEPT ![c] = NoAdvice]
  BY DEF AdmitRequest
<1>2. PICK n \in Nat : n = Len(known)
  BY DEF RateInv, RateTypes
<1>3. /\ seen \in Seq(Clients) /\ Len(seen) \in {n, n + 1} /\ Len(seen) \in Nat \ {0}
      /\ Kept(c) => Len(seen) = n
      /\ seen[Len(seen)] = c
      /\ \A i, j \in DOMAIN seen : seen[i] = seen[j] => i = j
      /\ \A i, j \in DOMAIN seen : i < j => seen[j] \in since'[seen[i]]
      /\ \A k \in Clients : (\E i \in DOMAIN seen : seen[i] = k) <=> k = c \/ Kept(k)
  BY <1>1, <1>2, SeenComesLast
<1>4. /\ rateNow \in Nat /\ RateWindow \in Nat /\ Limit \in Nat \ {0} /\ MaxClients \in Nat \ {0}
      /\ n <= MaxClients /\ buckets \in [Clients -> Seq(Nat)] /\ admitted \in [Clients -> Seq(Nat)]
      /\ advice \in [Clients -> Int] /\ since \in [Clients -> SUBSET Clients] /\ NoAdvice \in Int
      /\ ClientFits(c)
  BY <1>2, LimitAssumption, RateTimesAssumption DEF RateInv, RateTypes, NoAdvice
<1> HIDE DEF seen
<1>5. since' \in [Clients -> SUBSET Clients] /\ \A k \in Clients : k # c => since[k] \subseteq since'[k]
  BY <1>1, <1>4 DEF Seen
\* What is in the table then.
<1>6. /\ known' \in Seq(Clients) /\ Len(known') <= MaxClients
      /\ \A i, j \in DOMAIN known' : known'[i] = known'[j] => i = j
      /\ \A i, j \in DOMAIN known' : i < j => known'[j] \in since'[known'[i]]
      /\ c \notin forgotten
      /\ \A k \in Clients : Kept(k)' <=> (k = c \/ Kept(k)) /\ k \notin forgotten
      /\ \A k \in forgotten : ~(Cardinality(since'[k]) < MaxClients)
  <2>1. CASE Len(seen) > MaxClients
    <3>1. forgotten = {seen[1]} /\ known' = Tail(seen) /\ seen # <<>>
      <4>1. forgotten = {Head(seen)} /\ seen # <<>>
        BY <1>3, <2>1
      <4>2. forgotten # {}
        BY <4>1
      <4>3. Head(seen) = seen[1]
        BY <1>3, <4>1
      <4> HIDE DEF forgotten
      <4>4. QED
        BY <1>1, <4>1, <4>2, <4>3
    <3>2. n = MaxClients /\ Len(seen) = MaxClients + 1
      <4>1. PICK length \in Nat : length = Len(seen) /\ length > MaxClients /\ length \in {n, n + 1}
        BY <1>3, <2>1
      <4>2. length = MaxClients + 1 /\ n = MaxClients
        BY <1>4, <4>1
      <4>3. QED
        BY <4>1, <4>2
    <3>3. DOMAIN seen = 1..(MaxClients + 1) /\ 1 \in DOMAIN seen
      BY <1>3, <1>4, <3>2
    <3>4. /\ known' \in Seq(Clients) /\ Len(known') = MaxClients /\ DOMAIN known' = 1..MaxClients
          /\ \A i \in 1..MaxClients : known'[i] = seen[i + 1]
      <4>1. PICK rest : rest = Tail(seen)
        OBVIOUS
      <4>2. /\ rest \in Seq(Clients) /\ Len(rest) = Len(seen) - 1
            /\ \A i \in 1..Len(rest) : rest[i] = seen[i + 1]
        BY <1>3, <3>1, <4>1, HeadTailProperties
      <4>3. Len(rest) = MaxClients
        BY <1>4, <3>2, <4>2
      <4>4. QED
        BY <3>1, <4>1, <4>2, <4>3
    <3>5. \A i \in 1..MaxClients : i + 1 \in DOMAIN seen /\ i + 1 # 1
      BY <1>4, <3>3
    <3>6. \A i, j \in DOMAIN known' : known'[i] = known'[j] => i = j
      <4>1. SUFFICES ASSUME NEW i \in 1..MaxClients, NEW j \in 1..MaxClients, known'[i] = known'[j]
                     PROVE  i = j
        BY <3>4
      <4>2. PICK first \in DOMAIN seen : first = i + 1
        BY <3>5
      <4>3. PICK other \in DOMAIN seen : other = j + 1
        BY <3>5
      <4>4. seen[first] = seen[other]
        BY <3>4, <4>1, <4>2, <4>3
      <4>5. first = other
        BY <1>3, <4>4
      <4>6. QED
        BY <4>2, <4>3, <4>5
    <3>7. \A i, j \in DOMAIN known' : i < j => known'[j] \in since'[known'[i]]
      <4>1. SUFFICES ASSUME NEW i \in 1..MaxClients, NEW j \in 1..MaxClients, i < j
                     PROVE  known'[j] \in since'[known'[i]]
        BY <3>4
      <4>2. i + 1 < j + 1
        BY <1>4, <4>1
      <4>3. QED
        BY <1>3, <3>4, <3>5, <4>2
    <3>8. c \notin forgotten
      <4>1. MaxClients + 1 # 1 /\ MaxClients + 1 \in DOMAIN seen /\ seen[MaxClients + 1] = c
        BY <1>3, <1>4, <3>2, <3>3
      <4>2. QED
        BY <1>3, <3>1, <3>3, <4>1
    <3>9. ASSUME NEW k \in Clients PROVE Kept(k)' <=> (k = c \/ Kept(k)) /\ k \notin forgotten
      <4>1. ASSUME Kept(k)' PROVE (k = c \/ Kept(k)) /\ k \notin forgotten
        <5>1. PICK i \in 1..MaxClients : known'[i] = k
          BY <3>4, <4>1 DEF Kept
        <5>2. i + 1 \in DOMAIN seen /\ i + 1 # 1 /\ seen[i + 1] = k
          BY <3>4, <3>5, <5>1
        <5>3. QED
          BY <1>3, <3>1, <3>3, <5>2
      <4>2. ASSUME k = c \/ Kept(k), k \notin forgotten PROVE Kept(k)'
        <5>1. PICK i \in DOMAIN seen : seen[i] = k
          BY <1>3, <4>2
        <5>2. i # 1
          BY <3>1, <4>2, <5>1
        <5>3. i - 1 \in 1..MaxClients /\ (i - 1) + 1 = i
          BY <1>4, <3>3, <5>2
        <5>4. known'[i - 1] = k
          BY <3>4, <5>1, <5>3
        <5>5. QED
          BY <3>4, <5>3, <5>4 DEF Kept
      <4>3. QED
        BY <4>1, <4>2
    <3>10. ~(Cardinality(since'[seen[1]]) < MaxClients)
      <4>1. seen[1] \in Clients
        BY <1>3, <3>3
      <4>2. PICK others \in SUBSET Clients : others = since'[seen[1]]
        BY <1>5, <4>1
      <4>3. \A j \in DOMAIN seen : j > 1 => seen[j] \in others
        BY <1>3, <3>3, <4>2
      <4>4. Cardinality(others) \in Nat /\ MaxClients <= Cardinality(others)
        BY <1>3, <1>4, <3>2, <4>3, BehindTheFirst
      <4>5. QED
        BY <1>4, <4>2, <4>4
    <3>11. Len(known') <= MaxClients
      BY <1>4, <3>4
    <3>12. QED
      BY <3>1, <3>4, <3>6, <3>7, <3>8, <3>9, <3>10, <3>11
  <2>2. CASE ~(Len(seen) > MaxClients)
    <3>1. forgotten = {} /\ known' = seen
      BY <1>1, <2>2
    <3>2. Len(seen) <= MaxClients
      BY <1>3, <1>4, <2>2
    <3>3. QED
      BY <1>3, <3>1, <3>2 DEF Kept
  <2>3. QED
    BY <2>1, <2>2
<1> HIDE DEF forgotten
\* The client's own record.
<1>7. PICK b \in Nat, l \in Nat :
        /\ b = Len(buckets[c]) /\ l = Len(InWindow(c)) /\ l <= b /\ b <= Limit
        /\ InWindow(c) \in Seq(Nat)
        /\ \A i \in 1..l : InWindow(c)[i] = buckets[c][(b - l) + i]
        /\ \A i \in 1..(b - l) : buckets[c][i] <= rateNow - RateWindow
  BY WindowIsSuffix
<1>8. l < Limit
  BY <1>1, <1>4, <1>7 DEF Full
<1>9. PICK left \in Seq(Nat) : left = InWindow(c)
  BY <1>7
<1>90. PICK moment \in Nat : moment = rateNow
  BY <1>4
<1> DEFINE times == IF Cardinality(since[c]) < MaxClients THEN admitted[c] ELSE <<>>
<1>10. times \in Seq(Nat) /\ Len(times) <= Limit + 1
  <2>1. Len(admitted[c]) <= Limit + 1 /\ Len(<<>>) <= Limit + 1
    BY <1>4 DEF ClientFits, StampsFit
  <2>2. QED
    BY <1>4, <2>1
<1>11. Records(times, left, rateNow, RateWindow)
  <2>1. CASE times = <<>>
    <3>1. Len(times) = 0
      BY <2>1
    <3>2. QED
      BY <3>1 DEF Records
  <2>2. CASE times # <<>>
    <3>1. times = admitted[c] /\ Kept(c)
      BY <1>4, <2>2 DEF ClientFits, TableFits
    <3>2. Records(times, buckets[c], rateNow, RateWindow)
      BY <1>4, <3>1 DEF ClientFits, StampsFit
    <3>3. PICK m \in Nat : m = Len(times)
      BY <1>10
    <3>4. PICK stamps \in Seq(Nat) : stamps = buckets[c]
      BY <1>4
    <3>5. PICK old \in Seq(Nat) : old = times
      BY <1>10
    <3> HIDE DEF times
    <3>6. /\ b = Len(stamps) /\ l = Len(left) /\ m = Len(old) /\ l <= b
          /\ \A i \in 1..l : left[i] = stamps[(b - l) + i]
          /\ \A i \in 1..(b - l) : stamps[i] <= moment - RateWindow
          /\ Records(old, stamps, moment, RateWindow)
      BY <1>7, <1>9, <1>90, <3>2, <3>3, <3>4, <3>5
    <3>7. moment \in Int /\ RateWindow \in Int
      BY <1>4
    <3>8. Records(old, left, moment, RateWindow)
      BY <3>6, <3>7, RecordsWithout
    <3>9. QED
      BY <1>90, <3>5, <3>8
  <2>3. QED
    BY <2>1, <2>2
<1>12. Recorded(c) = IF Len(Append(times, rateNow)) > Limit + 1 THEN Tail(Append(times, rateNow))
                                                               ELSE Append(times, rateNow)
  <2>1. CASE Cardinality(since[c]) < MaxClients
    BY <2>1 DEF Recorded
  <2>2. CASE ~(Cardinality(since[c]) < MaxClients)
    <3>1. Append(<<>>, rateNow) = <<rateNow>>
      OBVIOUS
    <3>2. QED
      BY <2>2, <3>1 DEF Recorded
  <2>3. QED
    BY <2>1, <2>2
<1> HIDE DEF times
<1>13. PICK all : all = Append(times, rateNow)
  OBVIOUS
<1>14. PICK full : full = Append(left, rateNow)
  OBVIOUS
<1>15. /\ all \in Seq(Nat) /\ all # <<>> /\ Len(all) = Len(times) + 1 /\ Len(times) \in Nat
       /\ all[Len(times) + 1] = rateNow
       /\ full \in Seq(Nat) /\ Len(full) = l + 1 /\ Records(all, full, rateNow, RateWindow)
  <2>1. PICK old \in Seq(Nat) : old = times
    BY <1>10
  <2>2. all = Append(old, moment) /\ full = Append(left, moment) /\ RateWindow \in Int
    BY <1>4, <1>13, <1>14, <1>90, <2>1
  <2>3. Records(old, left, moment, RateWindow)
    BY <1>11, <1>90, <2>1
  <2>4. Records(all, full, moment, RateWindow)
    BY <2>2, <2>3, RecordsAppend
  <2>5. /\ all \in Seq(Nat) /\ all # <<>> /\ Len(all) = Len(old) + 1 /\ Len(old) \in Nat
        /\ all[Len(old) + 1] = moment
        /\ full \in Seq(Nat) /\ Len(full) = l + 1
    <3>1. l = Len(left)
      BY <1>7, <1>9
    <3>2. all \in Seq(Nat) /\ Len(all) = Len(old) + 1 /\ Len(old) \in Nat
      BY <2>2
    <3>3. all # <<>> /\ all[Len(old) + 1] = moment
      BY <2>2
    <3>4. full \in Seq(Nat) /\ Len(full) = Len(left) + 1
      BY <2>2
    <3>5. QED
      BY <3>1, <3>2, <3>3, <3>4
  <2>6. QED
    BY <1>90, <2>1, <2>4, <2>5
<1>16. PICK new : new = Recorded(c)
  OBVIOUS
<1>17. /\ new \in Seq(Nat) /\ Len(new) <= Limit + 1 /\ Records(new, full, rateNow, RateWindow)
       /\ new # <<>> /\ new[Len(new)] = rateNow
  <2>1. CASE Len(all) > Limit + 1
    <3>1. new = Tail(all) /\ Len(all) = Limit + 2 /\ Len(times) = Limit + 1
      <4>1. new = Tail(all)
        BY <1>12, <1>13, <1>16, <2>1
      <4>2. PICK length \in Nat : length = Len(times)
        BY <1>15
      <4>3. length <= Limit + 1 /\ Len(all) = length + 1 /\ length + 1 > Limit + 1
        BY <1>10, <1>15, <2>1, <4>2
      <4>4. length = Limit + 1 /\ length + 1 = Limit + 2
        BY <1>4, <4>3
      <4>5. QED
        BY <4>1, <4>2, <4>3, <4>4
    <3>2. /\ new \in Seq(Nat) /\ Len(new) = Len(all) - 1
          /\ \A i \in 1..Len(new) : new[i] = all[i + 1]
      BY <1>15, <3>1, HeadTailProperties
    <3>3. Len(new) = Limit + 1 /\ Limit + 1 \in 1..Len(new)
      <4>1. Len(new) = (Limit + 2) - 1
        BY <3>1, <3>2
      <4>2. Limit + 1 \in 1..(Limit + 1) /\ (Limit + 2) - 1 = Limit + 1
        BY <1>4
      <4>3. QED
        BY <4>1, <4>2
    <3>4. new[Limit + 1] = rateNow
      BY <1>15, <3>1, <3>2, <3>3
    <3>5. Records(new, full, rateNow, RateWindow)
      BY <1>4, <1>15, <3>1, RecordsTail
    <3>6. new # <<>>
      BY <1>4, <3>3
    <3>7. QED
      BY <1>4, <3>2, <3>3, <3>4, <3>5, <3>6
  <2>2. CASE ~(Len(all) > Limit + 1)
    <3>1. new = all /\ Len(all) <= Limit + 1
      BY <1>4, <1>10, <1>12, <1>13, <1>15, <1>16, <2>2
    <3>2. QED
      BY <1>15, <3>1
  <2>3. QED
    BY <2>1, <2>2
<1>18. /\ buckets'[c] = full /\ admitted'[c] = new /\ advice'[c] = NoAdvice
       /\ \A k \in Clients : k # c => admitted'[k] = admitted[k] /\ advice'[k] = advice[k]
       /\ \A k \in Clients : k # c =>
            buckets'[k] = IF k \in forgotten THEN <<>> ELSE buckets[k]
  BY <1>1, <1>4, <1>6, <1>9, <1>14, <1>16
<1>19. ClientFits(c)'
  <2>1. Kept(c)'
    BY <1>6
  <2>2. TableFits(c)'
    BY <2>1 DEF TableFits
  <2>3. StampsFit(c)'
    <3>1. Len(full) <= Limit
      BY <1>4, <1>8, <1>15
    <3>2. QED
      BY <1>1, <1>17, <1>18, <3>1 DEF StampsFit
  <2>4. BudgetFits(c)'
    <3>1. SUFFICES ASSUME Len(new) = Limit + 1 PROVE new[Limit + 1] - new[1] >= RateWindow
      BY <1>18 DEF BudgetFits
    <3>2. new[Limit + 1] = rateNow /\ 1 \in 1..Len(new)
      BY <1>4, <1>17, <3>1
    <3>3. PICK place \in Int : place = Len(full) - (Len(new) - 1)
      BY <1>4, <1>15, <3>1
    <3>4. ~(place >= 1)
      BY <1>4, <1>8, <1>15, <3>1, <3>3
    <3>5. new[1] <= rateNow - RateWindow
      BY <1>17, <3>2, <3>3, <3>4 DEF Records
    <3>6. new[1] \in Nat
      BY <1>17, <3>2
    <3>7. QED
      BY <1>4, <3>2, <3>5, <3>6
  <2>5. AdviceFits(c)'
    BY <1>18 DEF AdviceFits
  <2>6. QED
    BY <2>2, <2>3, <2>4, <2>5 DEF ClientFits
<1>20. ASSUME NEW k \in Clients, k # c PROVE ClientFits(k)'
  <2>1. CASE k \in forgotten
    <3>1. buckets'[k] = <<>> /\ ~Kept(k)'
      BY <1>6, <1>18, <1>20, <2>1
    <3>2. QED
      BY <1>1, <1>6, <1>18, <1>20, <2>1, <3>1, ForgottenFits
  <2>2. CASE k \notin forgotten
    <3>1. Kept(k)' <=> Kept(k)
      BY <1>6, <1>20, <2>2
    <3>2. since[k] \subseteq since'[k] /\ since'[k] \subseteq Clients
      BY <1>5, <1>20
    <3>3. buckets'[k] = buckets[k]
      BY <1>18, <1>20, <2>2
    <3>4. QED
      BY <1>1, <1>18, <1>20, <3>1, <3>2, <3>3, OthersFit
  <2>3. QED
    BY <2>1, <2>2
<1>21. RateTypes'
  <2>1. admitted' \in [Clients -> Seq(Nat)]
    BY <1>1, <1>4, <1>16, <1>17
  <2>2. advice' \in [Clients -> Int]
    BY <1>1, <1>4
  <2>3. buckets' \in [Clients -> Seq(Nat)]
    <3>1. ASSUME NEW k \in Clients PROVE buckets'[k] \in Seq(Nat)
      <4>1. CASE k = c
        BY <1>15, <1>18, <4>1
      <4>2. CASE k # c /\ k \in forgotten
        <5>1. buckets'[k] = <<>> /\ <<>> \in Seq(Nat)
          BY <1>18, <4>2
        <5>2. QED
          BY <5>1
      <4>3. CASE k # c /\ k \notin forgotten
        <5>1. buckets'[k] = buckets[k]
          BY <1>18, <4>3
        <5>2. QED
          BY <1>4, <5>1
      <4>4. QED
        BY <4>1, <4>2, <4>3
    <3>2. buckets' = [k \in Clients |-> buckets'[k]]
      BY <1>1
    <3>3. QED
      BY <3>1, <3>2
  <2>4. QED
    BY <1>1, <1>4, <1>5, <1>6, <2>1, <2>2, <2>3 DEF RateTypes
<1>22. QED
  BY <1>6, <1>19, <1>20, <1>21 DEF RateInv, OrderFits

\* What the whole seconds of Retry-After take from the wait is less than a second.
LEMMA RoundingTakesLittle ==
  ASSUME NEW wait \in Nat, NEW second \in Nat \ {0}, NEW seconds \in Int, seconds = wait \div second
  PROVE  wait <= (IF seconds > 1 THEN seconds ELSE 1) * second + second - 1
<1>1. seconds \in Nat /\ wait < seconds * second + second
  OBVIOUS
<1>2. CASE seconds > 1
  <2>1. seconds * second \in Nat
    BY <1>1
  <2>2. QED
    BY <1>1, <1>2, <2>1
<1>3. CASE ~(seconds > 1)
  <2>1. seconds = 0 \/ seconds = 1
    BY <1>1, <1>3
  <2>2. seconds * second <= second /\ seconds * second \in Nat /\ 1 * second = second
    BY <2>1
  <2>3. wait <= 1 * second + second - 1
    BY <1>1, <2>2
  <2>4. QED
    BY <1>3, <2>3
<1>4. QED
  BY <1>2, <1>3

\* A request is refused.
LEMMA RefuseKeeps == ASSUME RateInv, NEW c \in Clients, Refuse(c) PROVE RateInv'
<1>1. /\ Full(c) /\ rateNow' = rateNow /\ Seen(c) /\ known' = LastSeen(c) /\ admitted' = admitted
      /\ buckets' = [buckets EXCEPT ![c] = InWindow(c)]
      /\ advice' = [advice EXCEPT ![c] = rateNow + RetryAfter(c) * TicksPerSecond]
  BY DEF Refuse
<1>2. PICK n \in Nat : n = Len(known)
  BY DEF RateInv, RateTypes
<1>3. /\ known' \in Seq(Clients) /\ Len(known') \in {n, n + 1}
      /\ Kept(c) => Len(known') = n
      /\ \A i, j \in DOMAIN known' : known'[i] = known'[j] => i = j
      /\ \A i, j \in DOMAIN known' : i < j => known'[j] \in since'[known'[i]]
      /\ \A k \in Clients : (\E i \in DOMAIN known' : known'[i] = k) <=> k = c \/ Kept(k)
  BY <1>1, <1>2, SeenComesLast
<1>4. /\ rateNow \in Nat /\ RateWindow \in Nat /\ Limit \in Nat \ {0} /\ TicksPerSecond \in Nat \ {0}
      /\ n <= MaxClients /\ buckets \in [Clients -> Seq(Nat)] /\ admitted \in [Clients -> Seq(Nat)]
      /\ advice \in [Clients -> Int] /\ since \in [Clients -> SUBSET Clients]
      /\ ClientFits(c)
  BY <1>2, LimitAssumption, RateTimesAssumption DEF RateInv, RateTypes
<1>5. since' \in [Clients -> SUBSET Clients] /\ \A k \in Clients : k # c => since[k] \subseteq since'[k]
  BY <1>1, <1>4 DEF Seen
<1>6. PICK b \in Nat, l \in Nat :
        /\ b = Len(buckets[c]) /\ l = Len(InWindow(c)) /\ l <= b /\ b <= Limit
        /\ InWindow(c) \in Seq(Nat)
        /\ \A i \in 1..l : InWindow(c)[i] = buckets[c][(b - l) + i]
        /\ \A i \in 1..(b - l) : buckets[c][i] <= rateNow - RateWindow
        /\ l > 0 => InWindow(c)[1] > rateNow - RateWindow
  BY WindowIsSuffix
<1>7. PICK left \in Seq(Nat) : left = InWindow(c)
  BY <1>6
<1>8. l = Limit /\ l > 0 /\ b > 0
  BY <1>1, <1>4, <1>6 DEF Full
<1>9. Kept(c)
  <2>1. buckets[c] # <<>>
    BY <1>6, <1>8
  <2>2. QED
    BY <1>4, <2>1 DEF ClientFits, TableFits
<1>10. \A k \in Clients : Kept(k)' <=> k = c \/ Kept(k)
  BY <1>3 DEF Kept
<1>11. PICK moment \in Nat : moment = rateNow
  BY <1>4
<1>12. Records(admitted[c], left, moment, RateWindow)
  <2>1. PICK times \in Seq(Nat) : times = admitted[c]
    BY <1>4
  <2>2. PICK stamps \in Seq(Nat) : stamps = buckets[c]
    BY <1>4
  <2>3. PICK m \in Nat : m = Len(times)
    OBVIOUS
  <2>4. Records(times, stamps, moment, RateWindow)
    BY <1>4, <1>9, <1>11, <2>1, <2>2 DEF ClientFits, StampsFit
  <2>5. /\ b = Len(stamps) /\ l = Len(left) /\ l <= b
        /\ \A i \in 1..l : left[i] = stamps[(b - l) + i]
        /\ \A i \in 1..(b - l) : stamps[i] <= moment - RateWindow
        /\ moment \in Int /\ RateWindow \in Int
    BY <1>4, <1>6, <1>7, <1>11, <2>2
  <2>6. Records(times, left, moment, RateWindow)
    BY <2>3, <2>4, <2>5, RecordsWithout
  <2>7. QED
    BY <2>1, <2>6
<1>13. PICK told : told = rateNow + RetryAfter(c) * TicksPerSecond
  OBVIOUS
<1>14. told \in Int /\ left[1] + RateWindow <= told + TicksPerSecond - 1
  <2>1. PICK first \in Nat : first = left[1]
    <3>1. Len(left) = l /\ 1 \in 1..Len(left)
      BY <1>6, <1>7, <1>8
    <3>2. left[1] \in Nat
      BY <3>1
    <3>3. QED
      BY <3>2
  <2>2. PICK wait \in Nat : wait = RateWindow - (moment - first)
    <3>1. first > moment - RateWindow
      BY <1>6, <1>7, <1>8, <1>11, <2>1
    <3>2. RateWindow - (moment - first) \in Nat
      BY <1>4, <3>1
    <3>3. QED
      BY <3>2
  <2>3. PICK second \in Nat \ {0} : second = TicksPerSecond
    BY <1>4
  <2>4. PICK seconds \in Int : seconds = wait \div second
    OBVIOUS
  <2>5. PICK retry \in Int : retry = IF seconds > 1 THEN seconds ELSE 1
    OBVIOUS
  <2>6. RetryAfter(c) = retry
    BY <1>7, <1>11, <2>1, <2>2, <2>3, <2>4, <2>5 DEF RetryAfter
  <2>7. wait <= retry * second + second - 1
    BY <2>4, <2>5, RoundingTakesLittle
  <2>8. PICK pause \in Int : pause = retry * second
    OBVIOUS
  <2>9. told = moment + pause
    BY <1>11, <1>13, <2>3, <2>6, <2>8
  <2>10. wait <= pause + second - 1
    BY <2>7, <2>8
  <2>11. first + RateWindow <= moment + pause + second - 1
    BY <1>4, <2>2, <2>10
  <2>12. QED
    BY <2>1, <2>3, <2>9, <2>11
<1>15. /\ buckets'[c] = left /\ advice'[c] = told
       /\ \A k \in Clients : k # c => buckets'[k] = buckets[k] /\ advice'[k] = advice[k]
  BY <1>1, <1>4, <1>7, <1>13
<1>16. ClientFits(c)'
  <2>1. Kept(c)'
    BY <1>10
  <2>2. TableFits(c)'
    BY <2>1 DEF TableFits
  <2>3. StampsFit(c)'
    <3>1. Len(left) <= Limit
      BY <1>6, <1>7, <1>8
    <3>2. Records(admitted[c], left, rateNow, RateWindow)
      BY <1>11, <1>12
    <3>3. Len(admitted[c]) <= Limit + 1
      BY <1>4 DEF ClientFits, StampsFit
    <3>4. QED
      BY <1>1, <1>15, <3>1, <3>2, <3>3 DEF StampsFit
  <2>4. BudgetFits(c)'
    BY <1>1, <1>4 DEF ClientFits, BudgetFits
  <2>5. AdviceFits(c)'
    BY <1>14, <1>15 DEF AdviceFits
  <2>6. QED
    BY <2>2, <2>3, <2>4, <2>5 DEF ClientFits
<1>17. ASSUME NEW k \in Clients, k # c PROVE ClientFits(k)'
  <2>1. Kept(k)' <=> Kept(k)
    BY <1>10, <1>17
  <2>2. since[k] \subseteq since'[k] /\ since'[k] \subseteq Clients
    BY <1>5, <1>17
  <2>3. buckets'[k] = buckets[k] /\ advice'[k] = advice[k] /\ admitted'[k] = admitted[k]
    BY <1>1, <1>15, <1>17
  <2>4. QED
    BY <1>1, <2>1, <2>2, <2>3, OthersFit
<1>18. RateTypes'
  <2>1. Len(known') <= MaxClients
    BY <1>3, <1>4, <1>9
  <2>2. buckets' \in [Clients -> Seq(Nat)] /\ advice' \in [Clients -> Int]
    BY <1>1, <1>4, <1>7, <1>13, <1>14
  <2>3. QED
    BY <1>1, <1>3, <1>4, <1>5, <2>1, <2>2 DEF RateTypes
<1>19. QED
  BY <1>3, <1>16, <1>17, <1>18 DEF RateInv, OrderFits

\* A record stays true while time passes.
LEMMA RecordsLater ==
  ASSUME NEW times \in Seq(Nat), NEW stamps, NEW moment \in Nat, NEW window \in Nat,
         Records(times, stamps, moment, window)
  PROVE  Records(times, stamps, moment + 1, window)
<1>1. SUFFICES ASSUME NEW i \in 1..Len(times)
               PROVE  IF Len(stamps) - (Len(times) - i) >= 1
                      THEN times[i] = stamps[Len(stamps) - (Len(times) - i)]
                      ELSE times[i] <= moment + 1 - window
  BY DEF Records
<1>2. IF Len(stamps) - (Len(times) - i) >= 1
      THEN times[i] = stamps[Len(stamps) - (Len(times) - i)]
      ELSE times[i] <= moment - window
  BY DEF Records
<1>3. times[i] \in Nat
  OBVIOUS
<1>4. QED
  BY <1>2, <1>3

\* Time passes.
LEMMA ClockKeeps == ASSUME RateInv, RateTick PROVE RateInv'
<1>1. /\ rateNow' = rateNow + 1 /\ known' = known /\ buckets' = buckets
      /\ admitted' = admitted /\ advice' = advice /\ since' = since
  BY DEF RateTick, history
<1>2. RateTypes' /\ OrderFits'
  BY <1>1 DEF RateInv, RateTypes, OrderFits
<1>3. ASSUME NEW c \in Clients PROVE ClientFits(c)'
  <2>1. ClientFits(c) /\ rateNow \in Nat /\ RateWindow \in Nat /\ admitted[c] \in Seq(Nat)
    BY RateTimesAssumption DEF RateInv, RateTypes
  <2>2. TableFits(c)' /\ BudgetFits(c)' /\ AdviceFits(c)' /\ (Kept(c)' <=> Kept(c))
    BY <1>1, <2>1 DEF ClientFits, TableFits, Kept, BudgetFits, AdviceFits
  <2>3. ASSUME Records(admitted[c], buckets[c], rateNow, RateWindow)
        PROVE  Records(admitted[c], buckets[c], rateNow + 1, RateWindow)
    <3>1. PICK times \in Seq(Nat) : times = admitted[c]
      BY <2>1
    <3>2. PICK stamps : stamps = buckets[c]
      OBVIOUS
    <3>3. PICK moment \in Nat : moment = rateNow
      BY <2>1
    <3>4. Records(times, stamps, moment, RateWindow)
      BY <2>3, <3>1, <3>2, <3>3
    <3>5. Records(times, stamps, moment + 1, RateWindow)
      BY <2>1, <3>4, RecordsLater
    <3>6. QED
      BY <3>1, <3>2, <3>3, <3>5
  <2>4. StampsFit(c)'
    BY <1>1, <2>1, <2>2, <2>3 DEF ClientFits, StampsFit
  <2>5. QED
    BY <2>2, <2>4 DEF ClientFits
<1>4. QED
  BY <1>2, <1>3 DEF RateInv

LEMMA RateStepKeeps == RateInv /\ [RateNext]_rateVars => RateInv'
<1> SUFFICES ASSUME RateInv, [RateNext]_rateVars PROVE RateInv'
  OBVIOUS
<1>1. CASE UNCHANGED rateVars
  <2>1. /\ rateNow' = rateNow /\ known' = known /\ buckets' = buckets
        /\ admitted' = admitted /\ advice' = advice /\ since' = since
    BY <1>1 DEF rateVars, history
  <2>2. QED
    BY <2>1 DEF RateInv, RateTypes, OrderFits, ClientFits, TableFits, StampsFit, Records, BudgetFits,
                AdviceFits, Kept
<1>2. QED
  BY <1>1, AdmitKeeps, RefuseKeeps, ClockKeeps DEF RateNext

LEMMA RateIsFair == RateInv => LimitIsFair
<1> SUFFICES ASSUME RateInv PROVE LimitIsFair
  OBVIOUS
<1>1. ASSUME NEW c \in Clients, NEW i \in DOMAIN admitted[c], NEW j \in DOMAIN admitted[c], j = i + Limit
      PROVE  admitted[c][j] - admitted[c][i] >= RateWindow
  <2>1. /\ ClientFits(c) /\ Limit \in Nat \ {0} /\ admitted[c] \in Seq(Nat) /\ Len(admitted[c]) <= Limit + 1
    BY LimitAssumption DEF RateInv, RateTypes, ClientFits, StampsFit
  <2>2. i \in 1..Len(admitted[c]) /\ j \in 1..Len(admitted[c]) /\ Len(admitted[c]) \in Nat
    BY <2>1
  <2>3. i = 1 /\ j = Limit + 1 /\ Len(admitted[c]) = Limit + 1
    BY <1>1, <2>1, <2>2
  <2>4. QED
    BY <2>1, <2>3 DEF ClientFits, BudgetFits
<1>2. ASSUME NEW c \in Clients, advice[c] # NoAdvice, rateNow >= advice[c] + TicksPerSecond - 1, Full(c)
      PROVE  FALSE
  <2>1. /\ ClientFits(c) /\ Limit \in Nat \ {0} /\ rateNow \in Nat /\ RateWindow \in Nat
        /\ TicksPerSecond \in Nat /\ advice[c] \in Int /\ buckets[c] \in Seq(Nat)
    BY LimitAssumption, RateTimesAssumption DEF RateInv, RateTypes
  <2>2. PICK b \in Nat, l \in Nat :
          /\ b = Len(buckets[c]) /\ l = Len(InWindow(c)) /\ l <= b /\ b <= Limit
          /\ \A i \in 1..l : InWindow(c)[i] = buckets[c][(b - l) + i]
          /\ l > 0 => InWindow(c)[1] > rateNow - RateWindow
    BY WindowIsSuffix
  <2>3. l = b /\ b > 0
    BY <1>2, <2>1, <2>2 DEF Full
  <2>4. 1 \in 1..l /\ (b - l) + 1 = 1
    BY <2>3
  <2>5. InWindow(c)[1] = buckets[c][1]
    BY <2>2, <2>4
  <2>6. buckets[c] # <<>> /\ buckets[c][1] \in Nat
    BY <2>1, <2>2, <2>3
  <2>7. buckets[c][1] > rateNow - RateWindow
    BY <2>2, <2>3, <2>5
  <2>8. buckets[c][1] + RateWindow <= advice[c] + TicksPerSecond - 1
    BY <1>2, <2>1, <2>6 DEF ClientFits, AdviceFits
  <2>9. QED
    BY <1>2, <2>1, <2>6, <2>7, <2>8
<1>3. QED
  BY <1>1, <1>2 DEF LimitIsFair, BudgetHolds, RetryAfterSuffices

\* No client has more requests admitted in a window than its limit, unless MaxClients
\* others come between two of them, and one that keeps away for as long as the refusal
\* told it to, and a second more, is let in (rate_limit.py:53-84, check_rate_limit).
THEOREM LimitsAreFair == RateSpec => []LimitIsFair
<1>1. RateInit => RateInv
  BY RateInitEstablishes
<1>2. RateInv /\ [RateNext]_rateVars => RateInv'
  BY RateStepKeeps
<1>3. RateInv => LimitIsFair
  BY RateIsFair
<1>4. QED
  BY <1>1, <1>2, <1>3, PTL DEF RateSpec

-----------------------------------------------------------------------------
(* AiEvidence: the invariant.                                              *)

Headlines ==
  [from : {"alpaca", "investopedia"}, about : {"symbol", "market"}, tone : {"bull", "bear"},
   at : Nat]

Entries == [articles : SUBSET Headlines, expires : Nat, made : BOOLEAN]

EvidenceItems == [kind : {"bull", "bear", "event"}, article : Headlines \cup {NoArticle}]

EvidenceSteps == {"idle", "alpaca", "scrape", "filter", "packet", "prompt", "reply"}

Inquiries ==
  [step : EvidenceSteps, articles : SUBSET Headlines, items : SUBSET EvidenceItems]

\* A cache keeps headlines of one source, for so many ticks after their fetch.
KeptFor(entry, source, ticks) ==
  \A a \in entry.articles : a.from = source /\ entry.expires <= a.at + ticks

EntriesFit ==
  /\ newsEntry \in Entries /\ KeptFor(newsEntry, "alpaca", NewsTtl)
  /\ sceneEntry \in Entries /\ KeptFor(sceneEntry, "investopedia", NewsTtl)
  /\ symbolEntry \in Entries /\ KeptFor(symbolEntry, "investopedia", 2 * NewsTtl)

Recent(a) == tick <= a.at + (IF a.from = "alpaca" THEN NewsTtl ELSE 2 * NewsTtl)

\* What a request has gathered is recent; the page that it filters lives.
InquiryFits ==
  /\ inquiry \in Inquiries
  /\ inquiry.step = "idle" => inquiry = AtRest
  /\ inquiry.step = "filter" => tick <= sceneEntry.expires
  /\ \A a \in inquiry.articles : Recent(a)
  /\ \A i \in inquiry.items : i.article # NoArticle => Recent(i.article)

GivenFits ==
  given.made =>
    BlendIsBounded /\ \A a \in given.articles : a \in Headlines /\ Recent(a)

EvidenceInv == tick \in Nat /\ EntriesFit /\ InquiryFits /\ GivenFits

LEMMA EvidenceInitEstablishes == EvidenceInit => EvidenceInv
<1> SUFFICES ASSUME EvidenceInit PROVE EvidenceInv
  OBVIOUS
<1>1. NoArticles \in Entries /\ NoArticles.articles = {}
  BY DEF NoArticles, Entries
<1>2. EntriesFit
  BY <1>1 DEF EvidenceInit, EntriesFit, KeptFor
<1>3. AtRest \in Inquiries /\ AtRest.articles = {} /\ AtRest.items = {} /\ AtRest.step = "idle"
  BY DEF AtRest, Inquiries, EvidenceSteps
<1>4. InquiryFits
  BY <1>3 DEF EvidenceInit, InquiryFits
<1>5. GivenFits
  BY DEF EvidenceInit, NothingGiven, GivenFits
<1>6. QED
  BY <1>2, <1>4, <1>5 DEF EvidenceInit, EvidenceInv

-----------------------------------------------------------------------------
(* AiEvidence: the steps.                                                  *)

\* What is offered now is new.
LEMMA OffersAreNew ==
  ASSUME tick \in Nat, NEW from \in {"alpaca", "investopedia"}, NEW offered \in Offers(from),
         NEW picked \in SUBSET offered
  PROVE  /\ picked \in SUBSET Headlines
         /\ \A a \in picked : a.from = from /\ a.at = tick /\ Recent(a)
         /\ Entry(picked) \in Entries /\ Entry(picked).articles = picked
         /\ Entry(picked).expires = tick + NewsTtl
         /\ KeptFor(Entry(picked), from, NewsTtl)
<1>1. NewsTtl \in Nat
  BY EvidenceAssumption
<1>2. /\ Headline(from, "symbol", "bull") \in Headlines /\ Headline(from, "market", "bear") \in Headlines
      /\ Headline(from, "symbol", "bull").at = tick /\ Headline(from, "market", "bear").at = tick
      /\ Headline(from, "symbol", "bull").from = from /\ Headline(from, "market", "bear").from = from
  BY DEF Headline, Headlines
<1>3. ASSUME NEW a \in picked PROVE a \in Headlines /\ a.from = from /\ a.at = tick
  BY <1>2 DEF Offers
<1>4. \A a \in picked : Recent(a)
  BY <1>1, <1>3 DEF Recent
<1>5. /\ Entry(picked).articles = picked /\ Entry(picked).expires = tick + NewsTtl
      /\ Entry(picked) \in Entries
  BY <1>1, <1>3 DEF Entry, Entries
<1>6. KeptFor(Entry(picked), from, NewsTtl)
  BY <1>1, <1>3, <1>5 DEF KeptFor
<1>7. QED
  BY <1>3, <1>4, <1>5, <1>6

\* What lives in a cache is recent.
LEMMA KeptIsRecent ==
  ASSUME tick \in Nat, EntriesFit
  PROVE  /\ Live(newsEntry) => \A a \in newsEntry.articles : a \in Headlines /\ Recent(a)
         /\ Live(symbolEntry) => \A a \in symbolEntry.articles : a \in Headlines /\ Recent(a)
         /\ tick <= sceneEntry.expires => \A a \in sceneEntry.articles : a \in Headlines /\ Recent(a)
<1>1. NewsTtl \in Nat
  BY EvidenceAssumption
<1>2. ASSUME NEW entry \in Entries, tick <= entry.expires, NEW a \in entry.articles,
             \/ KeptFor(entry, "alpaca", NewsTtl)
             \/ KeptFor(entry, "investopedia", NewsTtl)
             \/ KeptFor(entry, "investopedia", 2 * NewsTtl)
      PROVE  a \in Headlines /\ Recent(a)
  <2>1. a \in Headlines /\ a.at \in Nat /\ entry.expires \in Nat
    BY DEF Entries, Headlines
  <2>2. CASE KeptFor(entry, "alpaca", NewsTtl)
    BY <1>1, <1>2, <2>1, <2>2 DEF KeptFor, Recent
  <2>3. CASE KeptFor(entry, "investopedia", NewsTtl)
    BY <1>1, <1>2, <2>1, <2>3 DEF KeptFor, Recent
  <2>4. CASE KeptFor(entry, "investopedia", 2 * NewsTtl)
    BY <1>1, <1>2, <2>1, <2>4 DEF KeptFor, Recent
  <2>5. QED
    BY <1>2, <2>2, <2>3, <2>4
<1>3. QED
  BY <1>2 DEF EntriesFit, Live

\* A request goes on with recent headlines.
LEMMA GatheredKeeps ==
  ASSUME EvidenceInv, NEW step \in EvidenceSteps \ {"idle"}, NEW found \in SUBSET Headlines,
         \A a \in found : Recent(a), Gathered(step, found),
         UNCHANGED <<tick, given>>, EntriesFit', step = "filter" => tick <= sceneEntry'.expires
  PROVE  EvidenceInv'
<1> DEFINE new == [inquiry EXCEPT !.step = step, !.articles = @ \cup found]
<1>1. inquiry \in Inquiries /\ inquiry' = new
  BY DEF EvidenceInv, InquiryFits, Gathered
<1>2. inquiry.articles \in SUBSET Headlines
  BY <1>1 DEF Inquiries
<1>3. new \in Inquiries
  <2> DEFINE all == inquiry.articles \cup found
  <2>1. all \in SUBSET Headlines /\ new = [inquiry EXCEPT !.step = step, !.articles = all]
    BY <1>2
  <2> HIDE DEF new, all
  <2>2. QED
    BY <1>1, <2>1 DEF Inquiries
<1>4. /\ new.step = step /\ new.articles = inquiry.articles \cup found
      /\ new.items = inquiry.items
  BY <1>1 DEF Inquiries
<1> HIDE DEF new
<1>5. ASSUME NEW a PROVE Recent(a)' <=> Recent(a)
  BY DEF Recent
<1>6. InquiryFits'
  <2>1. \A a \in inquiry'.articles : Recent(a)'
    BY <1>1, <1>4, <1>5 DEF EvidenceInv, InquiryFits
  <2>2. \A i \in inquiry'.items : i.article # NoArticle => Recent(i.article)'
    BY <1>1, <1>4, <1>5 DEF EvidenceInv, InquiryFits
  <2>3. inquiry' \in Inquiries /\ inquiry'.step = step /\ step # "idle"
    BY <1>1, <1>3, <1>4
  <2>4. QED
    BY <2>1, <2>2, <2>3 DEF InquiryFits
<1>7. GivenFits'
  BY <1>5 DEF EvidenceInv, GivenFits, BlendIsBounded
<1>8. QED
  BY <1>6, <1>7 DEF EvidenceInv

\* The weight is one of the presets, and the blend follows the model by a fifth
\* of the way at most, with a label that a clash has lowered.
LEMMA WeightIsPreset == ASSUME NEW wanted \in Requestable PROVE ResolveWeight(wanted) \in {0, 1, 2}
<1> DEFINE least == Min({wanted, MaxWeight})
           some == {p \in Presets : p <= least}
<1>1. wanted \in {0, 1, 4} /\ MaxWeight = 2 /\ Presets = {0, 1, 2}
  BY DEF Requestable, MaxWeight, Presets
<1>2. \E x \in {wanted, MaxWeight} : \A y \in {wanted, MaxWeight} : x <= y
  BY <1>1
<1>3. least \in {wanted, MaxWeight} /\ \A y \in {wanted, MaxWeight} : least <= y
  BY <1>2 DEF Min
<1>4. least \in {0, 1, 2}
  <2> HIDE DEF least
  <2>1. QED
    BY <1>1, <1>3
<1> HIDE DEF least
<1>5. least \in some /\ \A y \in some : least >= y
  BY <1>1, <1>4
<1>6. Max(some) \in some
  <2> HIDE DEF some
  <2>1. QED
    BY <1>5 DEF Max
<1>7. ResolveWeight(wanted) = Max(some)
  BY DEF ResolveWeight, least
<1>8. QED
  BY <1>1, <1>6, <1>7

LEMMA BlendFollows ==
  ASSUME NEW quant \in Nat, NEW prob \in Nat, NEW weight \in {0, 1, 2}
  PROVE  Gap(Blended(quant, prob, weight), 10 * quant) <= 2 * Gap(prob, quant)
<1>1. CASE weight = 0
  BY <1>1 DEF Gap, Blended
<1>2. CASE weight = 1
  BY <1>2 DEF Gap, Blended
<1>3. CASE weight = 2
  BY <1>3 DEF Gap, Blended
<1>4. QED
  BY <1>1, <1>2, <1>3

\* A request ends with an opinion on what it has gathered.
LEMMA OpinionKeeps ==
  ASSUME EvidenceInv, inquiry' = AtRest, UNCHANGED <<newsEntry, sceneEntry, symbolEntry, tick>>,
         NEW quant \in Nat, NEW blend \in Nat, NEW label \in Nat, NEW was \in Nat, NEW prob \in Nat,
         given' = Opinion(quant, blend, label, was, prob),
         Gap(blend, 10 * quant) <= 2 * Gap(prob, quant), label <= was,
         blend # 10 * quant /\ Clashes(quant, prob) => label < was \/ label = 1
  PROVE  EvidenceInv'
<1>1. PICK next : next = given'
  OBVIOUS
<1>2. /\ next.made /\ next.quant = quant /\ next.blend = blend /\ next.label = label
      /\ next.was = was /\ next.prob = prob
      /\ next.articles = {i.article : i \in inquiry.items} \ {NoArticle}
  BY <1>1 DEF Opinion
<1>3. BlendIsBounded'
  BY <1>1, <1>2 DEF BlendIsBounded, MaxWeight, Gap, Clashes
<1>4. ASSUME NEW a \in next.articles PROVE a \in Headlines /\ Recent(a)'
  <2>1. PICK i \in inquiry.items : a = i.article /\ a # NoArticle
    BY <1>2
  <2>2. i \in EvidenceItems /\ Recent(a)
    BY <2>1 DEF EvidenceInv, InquiryFits, Inquiries
  <2>3. QED
    BY <2>1, <2>2 DEF EvidenceItems, Recent
<1>5. GivenFits'
  BY <1>1, <1>3, <1>4 DEF GivenFits
<1>6. AtRest \in Inquiries /\ AtRest.articles = {} /\ AtRest.items = {} /\ AtRest.step = "idle"
  BY DEF AtRest, Inquiries, EvidenceSteps
<1>7. InquiryFits'
  BY <1>6 DEF InquiryFits
<1>8. EntriesFit'
  BY DEF EvidenceInv, EntriesFit, KeptFor
<1>9. QED
  BY <1>5, <1>7, <1>8 DEF EvidenceInv

\* A request goes on to another step with items of the headlines it has.
LEMMA ItemsKeep ==
  ASSUME EvidenceInv, NEW step \in EvidenceSteps \ {"idle", "filter"},
         NEW items \in SUBSET EvidenceItems,
         \A i \in items : i.article # NoArticle => Recent(i.article),
         inquiry' = [inquiry EXCEPT !.step = step, !.items = items],
         UNCHANGED <<newsEntry, sceneEntry, symbolEntry, given, tick>>
  PROVE  EvidenceInv'
<1> DEFINE new == [inquiry EXCEPT !.step = step, !.items = items]
<1>1. inquiry \in Inquiries
  BY DEF EvidenceInv, InquiryFits
<1>2. /\ new \in Inquiries /\ new.step = step /\ new.items = items
      /\ new.articles = inquiry.articles
  BY <1>1 DEF Inquiries
<1> HIDE DEF new
<1>3. ASSUME NEW a PROVE Recent(a)' <=> Recent(a)
  BY DEF Recent
<1>4. InquiryFits'
  <2>1. inquiry' \in Inquiries /\ inquiry'.step \notin {"idle", "filter"}
    BY <1>2 DEF new
  <2>2. inquiry'.items = items /\ inquiry'.articles = inquiry.articles
    BY <1>2 DEF new
  <2>3. QED
    BY <1>3, <2>1, <2>2 DEF EvidenceInv, InquiryFits
<1>5. EntriesFit' /\ GivenFits'
  BY <1>3 DEF EvidenceInv, EntriesFit, KeptFor, GivenFits, BlendIsBounded
<1>6. QED
  BY <1>4, <1>5 DEF EvidenceInv

LEMMA EvidenceStepKeeps == EvidenceInv /\ [EvidenceNext]_evidenceVars => EvidenceInv'
<1> SUFFICES ASSUME EvidenceInv, [EvidenceNext]_evidenceVars PROVE EvidenceInv'
  OBVIOUS
<1>1. /\ tick \in Nat /\ EntriesFit /\ InquiryFits /\ GivenFits
      /\ NewsTtl \in Nat /\ inquiry \in Inquiries
      /\ {} \in SUBSET Headlines
      /\ {"alpaca", "scrape", "filter", "packet"} \subseteq EvidenceSteps \ {"idle"}
  BY EvidenceAssumption DEF EvidenceInv, InquiryFits, EvidenceSteps
<1>2. ASSUME UNCHANGED <<newsEntry, sceneEntry, symbolEntry>> PROVE EntriesFit'
  BY <1>1, <1>2 DEF EntriesFit, KeptFor
<1>3. AtRest \in Inquiries /\ AtRest.articles = {} /\ AtRest.items = {} /\ AtRest.step = "idle"
  BY DEF AtRest, Inquiries, EvidenceSteps
<1>4. ASSUME NEW a PROVE UNCHANGED tick => (Recent(a)' <=> Recent(a))
  BY DEF Recent
<1>5. CASE QuoteFound
  <2>1. /\ inquiry' = [AtRest EXCEPT !.step = "alpaca"] /\ given' = NothingGiven
        /\ UNCHANGED <<newsEntry, sceneEntry, symbolEntry, tick>>
    BY <1>5 DEF QuoteFound
  <2>2. /\ inquiry' \in Inquiries /\ inquiry'.articles = {} /\ inquiry'.items = {}
        /\ inquiry'.step = "alpaca"
    BY <1>3, <2>1 DEF AtRest, Inquiries, EvidenceSteps
  <2>3. InquiryFits'
    BY <2>2 DEF InquiryFits
  <2>4. GivenFits'
    BY <2>1 DEF GivenFits, NothingGiven
  <2>5. QED
    BY <1>1, <1>2, <2>1, <2>3, <2>4 DEF EvidenceInv
<1>6. CASE NewsRefused
  BY <1>1, <1>2, <1>6, GatheredKeeps DEF NewsRefused
<1>7. CASE NewsCached
  BY <1>1, <1>2, <1>7, KeptIsRecent, GatheredKeeps DEF NewsCached
<1>8. CASE NewsFetched
  <2>1. PICK offered \in Offers("alpaca") :
          Gathered("scrape", NewsQuery(offered)) /\ newsEntry' = Entry(NewsQuery(offered))
    BY <1>8 DEF NewsFetched
  <2>2. NewsQuery(offered) \in SUBSET offered
    BY DEF NewsQuery
  <2>3. PICK picked \in SUBSET offered : picked = NewsQuery(offered)
    BY <2>2
  <2>4. PICK entry : entry = Entry(picked)
    OBVIOUS
  <2>5. /\ picked \in SUBSET Headlines /\ \A a \in picked : Recent(a)
        /\ entry \in Entries /\ KeptFor(entry, "alpaca", NewsTtl)
    BY <1>1, <2>4, OffersAreNew
  <2>6. newsEntry' = entry /\ UNCHANGED <<sceneEntry, symbolEntry, tick, given>>
    BY <1>8, <2>1, <2>3, <2>4 DEF NewsFetched
  <2>7. EntriesFit'
    BY <1>1, <2>5, <2>6 DEF EntriesFit, KeptFor
  <2>8. QED
    BY <1>1, <2>1, <2>3, <2>5, <2>6, <2>7, GatheredKeeps
<1>9. CASE NewsMissed
  BY <1>1, <1>2, <1>9, GatheredKeeps DEF NewsMissed
<1>10. CASE ScrapeCached
  BY <1>1, <1>2, <1>10, KeptIsRecent, GatheredKeeps DEF ScrapeCached
<1>11. CASE SceneCached
  <2>1. tick <= sceneEntry'.expires
    BY <1>11 DEF SceneCached, Live
  <2>2. QED
    BY <1>1, <1>2, <1>11, <2>1, GatheredKeeps DEF SceneCached
<1>12. CASE SceneFetched
  <2>1. PICK page \in Offers("investopedia") : sceneEntry' = Entry(page)
    BY <1>12 DEF SceneFetched
  <2>2. PICK entry : entry = Entry(page)
    OBVIOUS
  <2>3. page \in SUBSET page
    OBVIOUS
  <2>4. /\ entry \in Entries /\ KeptFor(entry, "investopedia", NewsTtl)
        /\ entry.expires = tick + NewsTtl
    BY <1>1, <2>2, <2>3, OffersAreNew
  <2>5. sceneEntry' = entry /\ UNCHANGED <<newsEntry, symbolEntry, tick, given>>
    BY <1>12, <2>1, <2>2 DEF SceneFetched
  <2>6. EntriesFit'
    BY <1>1, <2>4, <2>5 DEF EntriesFit, KeptFor
  <2>7. tick <= sceneEntry'.expires
    BY <1>1, <2>4, <2>5
  <2>8. Gathered("filter", {})
    BY <1>12 DEF SceneFetched
  <2>9. QED
    BY <1>1, <2>5, <2>6, <2>7, <2>8, GatheredKeeps
<1>13. CASE SceneMissed
  BY <1>1, <1>2, <1>13, GatheredKeeps DEF SceneMissed
<1>14. CASE FilterScene
  <2> DEFINE found == {a \in sceneEntry.articles : a.about = "symbol"}
  <2>1. /\ Gathered("packet", found)
        /\ symbolEntry' = IF found = {} THEN symbolEntry ELSE Entry(found)
        /\ UNCHANGED <<newsEntry, sceneEntry, given, tick>> /\ inquiry.step = "filter"
    BY <1>14 DEF FilterScene
  <2>2. tick <= sceneEntry.expires
    BY <1>1, <2>1 DEF InquiryFits
  <2>3. PICK picked : picked = found
    OBVIOUS
  <2>4. \A a \in picked : a \in Headlines /\ Recent(a) /\ a \in sceneEntry.articles
    BY <1>1, <2>2, <2>3, KeptIsRecent
  <2>5. PICK entry : entry = Entry(picked)
    OBVIOUS
  <2>6. /\ entry.articles = picked /\ entry.expires = tick + NewsTtl /\ entry \in Entries
    BY <1>1, <2>4, <2>5 DEF Entry, Entries
  <2>7. KeptFor(entry, "investopedia", 2 * NewsTtl)
    <3>1. ASSUME NEW a \in picked PROVE a.from = "investopedia" /\ entry.expires <= a.at + 2 * NewsTtl
      <4>1. a \in sceneEntry.articles /\ a \in Headlines
        BY <2>4
      <4>2. a.from = "investopedia" /\ sceneEntry.expires <= a.at + NewsTtl /\ a.at \in Nat
        BY <1>1, <4>1 DEF EntriesFit, KeptFor, Headlines
      <4>3. sceneEntry.expires \in Nat
        BY <1>1 DEF EntriesFit, Entries
      <4>4. QED
        BY <1>1, <2>2, <2>6, <4>2, <4>3
    <3>2. QED
      BY <2>6, <3>1 DEF KeptFor
  <2>8. symbolEntry' \in {symbolEntry, entry}
    BY <2>1, <2>3, <2>5
  <2>9. EntriesFit'
    BY <1>1, <2>1, <2>6, <2>7, <2>8 DEF EntriesFit, KeptFor
  <2>10. picked \in SUBSET Headlines /\ \A a \in picked : Recent(a)
    BY <2>4
  <2>11. Gathered("packet", picked)
    BY <2>1, <2>3
  <2> HIDE DEF found
  <2>12. QED
    BY <1>1, <2>1, <2>9, <2>10, <2>11, GatheredKeeps
<1>15. CASE BuildPacket
  <2>1. PICK kept \in FirstOf(ArticleCap, inquiry.articles), momentum \in {"bull", "bear", "flat"} :
          \E bulls \in Listed(kept, "bull", momentum), bears \in Listed(kept, "bear", momentum) :
            inquiry' = [inquiry EXCEPT !.step = "prompt",
                                       !.items = PacketItems(kept, bulls \cup bears, momentum)]
    BY <1>15 DEF BuildPacket
  <2>2. PICK bulls \in SUBSET kept, bears \in SUBSET kept :
          inquiry' = [inquiry EXCEPT !.step = "prompt",
                                     !.items = PacketItems(kept, bulls \cup bears, momentum)]
    <3>1. Listed(kept, "bull", momentum) \subseteq SUBSET kept
      BY DEF Listed, FirstOf
    <3>2. Listed(kept, "bear", momentum) \subseteq SUBSET kept
      BY DEF Listed, FirstOf
    <3>3. QED
      BY <2>1, <3>1, <3>2
  <2>3. PICK items : items = PacketItems(kept, bulls \cup bears, momentum)
    OBVIOUS
  <2>4. \A a \in kept : a \in inquiry.articles /\ a \in Headlines /\ Recent(a)
    BY <1>1 DEF FirstOf, InquiryFits, Inquiries
  <2>5. ASSUME NEW i \in items
        PROVE  i \in EvidenceItems /\ (i.article # NoArticle => Recent(i.article))
    <3>1. CASE i = Item("event", NoArticle) \/ (momentum # "flat" /\ i = Item(momentum, NoArticle))
      BY <3>1 DEF Item, EvidenceItems
    <3>2. CASE \E a \in kept : i = Item("event", a) \/ i = Item(a.tone, a)
      <4>1. PICK a \in kept : i = Item("event", a) \/ i = Item(a.tone, a)
        BY <3>2
      <4>2. a.tone \in {"bull", "bear"}
        BY <2>4 DEF Headlines
      <4>3. QED
        BY <2>4, <4>1, <4>2 DEF Item, EvidenceItems
    <3>3. QED
      BY <2>2, <2>3, <2>5, <3>1, <3>2 DEF PacketItems
  <2>6. items \in SUBSET EvidenceItems /\ "prompt" \in EvidenceSteps \ {"idle", "filter"}
    BY <2>5 DEF EvidenceSteps
  <2>7. QED
    BY <1>15, <2>2, <2>3, <2>5, <2>6, ItemsKeep DEF BuildPacket
<1>16. CASE RenderPrompt
  <2>1. PICK some \in SUBSET inquiry.items : inquiry' = [inquiry EXCEPT !.step = "reply", !.items = some]
    BY <1>16 DEF RenderPrompt, Prompted
  <2>2. /\ some \in SUBSET EvidenceItems /\ \A i \in some : i.article # NoArticle => Recent(i.article)
        /\ "reply" \in EvidenceSteps \ {"idle", "filter"}
    BY <1>1 DEF InquiryFits, Inquiries, EvidenceSteps
  <2>3. QED
    BY <1>16, <2>1, <2>2, ItemsKeep DEF RenderPrompt
<1>17. CASE Blend
  <2>1. PICK quant \in Probabilities, reply \in {r \in Replies : Parses(r)},
             wanted \in Requestable, label \in 1 .. 3 :
          LET prob == reply.prob
              weight == ResolveWeight(wanted)
              applied == weight > 0
          IN  given' = Opinion(quant, IF applied THEN Blended(quant, prob, weight) ELSE 10 * quant,
                              IF applied THEN Lowered(label, quant, prob) ELSE label, label, prob)
    BY <1>17 DEF Blend
  <2>2. quant \in Nat /\ reply.prob \in Nat
    <3>1. reply.prob \in Probabilities \cup {11}
      BY DEF Replies
    <3>2. \A p \in Probabilities : p \in 0 .. 10
      BY EvidenceAssumption
    <3>3. quant \in 0 .. 10 /\ (reply.prob \in 0 .. 10 \/ reply.prob = 11)
      BY <3>1, <3>2
    <3>4. QED
      BY <3>3
  <2>3. PICK weight \in {0, 1, 2} : weight = ResolveWeight(wanted)
    BY WeightIsPreset
  <2>4. PICK prob \in Nat : prob = reply.prob
    BY <2>2
  <2>5. PICK blend : blend = IF weight > 0 THEN Blended(quant, prob, weight) ELSE 10 * quant
    OBVIOUS
  <2>6. PICK told : told = IF weight > 0 THEN Lowered(label, quant, prob) ELSE label
    OBVIOUS
  <2>7. given' = Opinion(quant, blend, told, label, prob)
    BY <2>1, <2>3, <2>4, <2>5, <2>6
  <2>8. blend \in Nat /\ blend = Blended(quant, prob, weight)
    BY <2>2, <2>3, <2>5 DEF Blended
  <2>9. Gap(blend, 10 * quant) <= 2 * Gap(prob, quant)
    BY <2>2, <2>8, BlendFollows
  <2>10. told \in Nat /\ label \in Nat /\ told <= label
    BY <2>6 DEF Lowered
  <2>11. blend # 10 * quant /\ Clashes(quant, prob) => told < label \/ told = 1
    <3>1. blend # 10 * quant => weight > 0
      BY <2>5
    <3>2. weight > 0 => told = Lowered(label, quant, prob)
      BY <2>6
    <3>3. Clashes(quant, prob) => Lowered(label, quant, prob) < label \/ Lowered(label, quant, prob) = 1
      BY DEF Lowered
    <3>4. QED
      BY <3>1, <3>2, <3>3
  <2>12. QED
    BY <1>1, <1>17, <2>2, <2>7, <2>8, <2>9, <2>10, <2>11, OpinionKeeps DEF Blend
<1>18. CASE PassThrough
  <2>1. PICK quant \in Probabilities, label \in 1 .. 3 :
          given' = Opinion(quant, 10 * quant, label, label, quant)
    BY <1>18 DEF PassThrough
  <2>2. quant \in Nat /\ 10 * quant \in Nat /\ label \in Nat
    BY EvidenceAssumption
  <2>3. Gap(10 * quant, 10 * quant) <= 2 * Gap(quant, quant) /\ label <= label
    BY <2>2 DEF Gap
  <2>4. QED
    BY <1>1, <1>18, <2>1, <2>2, <2>3, OpinionKeeps DEF PassThrough
<1>19. CASE ReplyRejected
  <2>1. inquiry' = AtRest /\ UNCHANGED <<newsEntry, sceneEntry, symbolEntry, given, tick>>
    BY <1>19 DEF ReplyRejected
  <2>2. InquiryFits'
    BY <1>3, <2>1 DEF InquiryFits
  <2>3. GivenFits'
    BY <1>1, <1>4, <2>1 DEF GivenFits, BlendIsBounded
  <2>4. QED
    BY <1>1, <1>2, <2>1, <2>2, <2>3 DEF EvidenceInv
<1>20. CASE EvidenceTick
  <2>1. /\ tick' = tick + 1 /\ given' = NothingGiven /\ inquiry.step = "idle"
        /\ UNCHANGED <<newsEntry, sceneEntry, symbolEntry, inquiry>>
    BY <1>20 DEF EvidenceTick
  <2>2. inquiry' = AtRest
    BY <1>1, <2>1 DEF InquiryFits
  <2>3. InquiryFits'
    BY <1>3, <2>2 DEF InquiryFits
  <2>4. GivenFits'
    BY <2>1 DEF GivenFits, NothingGiven
  <2>5. QED
    BY <1>1, <1>2, <2>1, <2>3, <2>4 DEF EvidenceInv
<1>21. CASE UNCHANGED evidenceVars
  <2>1. UNCHANGED <<newsEntry, sceneEntry, symbolEntry, inquiry, given, tick>>
    BY <1>21 DEF evidenceVars
  <2>2. InquiryFits'
    BY <1>1, <1>4, <2>1 DEF InquiryFits
  <2>3. GivenFits'
    BY <1>1, <1>4, <2>1 DEF GivenFits, BlendIsBounded
  <2>4. QED
    BY <1>1, <1>2, <2>1, <2>2, <2>3 DEF EvidenceInv
<1>22. QED
  BY <1>5, <1>6, <1>7, <1>8, <1>9, <1>10, <1>11, <1>12, <1>13, <1>14, <1>15, <1>16, <1>17, <1>18,
     <1>19, <1>20, <1>21 DEF EvidenceNext

-----------------------------------------------------------------------------
(* AiEvidence: the theorem.                                                *)

\* The blend follows the model by a fifth of the way at most, a clash lowers the
\* label, and the headlines of an opinion are no older than the caches in their
\* way keep them (backend/ai/blend.py, investopedia.py): for all lives, caps and
\* probabilities.
THEOREM OpinionsAreGrounded == EvidenceSpec => []OpinionIsGrounded
<1>1. EvidenceInv => OpinionIsGrounded
  <2> SUFFICES ASSUME EvidenceInv PROVE OpinionIsGrounded
    OBVIOUS
  <2>1. tick \in Nat /\ NewsTtl \in Nat
    BY EvidenceAssumption DEF EvidenceInv
  <2>2. BlendIsBounded
    BY DEF EvidenceInv, GivenFits, BlendIsBounded
  <2>3. ASSUME given.made, NEW a \in given.articles
        PROVE  tick - a.at <= IF a.from = "alpaca" THEN NewsTtl ELSE 2 * NewsTtl
    <3>1. a.at \in Nat /\ Recent(a)
      BY <2>3 DEF EvidenceInv, GivenFits, Headlines
    <3>2. QED
      BY <2>1, <3>1 DEF Recent
  <2>4. QED
    BY <2>2, <2>3 DEF OpinionIsGrounded, HeadlinesAreRecent
<1>2. QED
  BY <1>1, EvidenceInitEstablishes, EvidenceStepKeeps, PTL DEF EvidenceSpec

-----------------------------------------------------------------------------
(* WorkerJobs: the invariant.                                              *)

JobReports == UNION {[done -> BOOLEAN] : done \in SUBSET JobNames}

HandStates ==
  [at : {"idle", "enqueues", "runs", "stores", "ended"}, for : Hands, left : Seq(JobNames),
   fetched : Nat, news : JobReports]

JobTypes ==
  /\ jobDay \in Nat \ {0} /\ newest \in Nat
  /\ waiting \in Seq(Shells) /\ unheard \in SUBSET Shells
  /\ order \in [Shells -> JobNames \cup {"all"}]
  /\ hand \in [Hands -> HandStates]
  /\ ran \in [Shells -> Nat]

Wanted(c) == IF order[c] = "all" THEN JobNames ELSE {order[c]}

Queued(c) == \E i \in DOMAIN waiting : waiting[i] = c

\* Nobody is in the queue twice.
QueueFits == \A i, j \in DOMAIN waiting : waiting[i] = waiting[j] => i = j

\* What is in the queue has not been run, or only because the reply was lost.
ShellFits(c) ==
  /\ hand[c].at = "idle" => order[c] = "all"
  /\ hand[c].at \in {"idle", "enqueues"} => ran[c] = 0 /\ c \notin unheard /\ ~Queued(c)
  /\ Queued(c) => order[c] # "all" /\ ran[c] <= IF c \in unheard THEN 1 ELSE 0
  /\ ran[c] <= IF c \in unheard THEN 2 ELSE 1

\* The jobs that are left, each once, and those that have reported are the jobs
\* of a shell whose request has been counted.
PlanFits(x) ==
  /\ x.for \in Shells /\ ran[x.for] > 0 /\ x.left # <<>>
  /\ \A i, j \in DOMAIN x.left : x.left[i] = x.left[j] => i = j
  /\ ToSet(x.left) \cap DOMAIN x.news = {}
  /\ ToSet(x.left) \cup DOMAIN x.news = Wanted(x.for)

\* Bars that have been reported are in the database.
BarsFit(x) ==
  "ingest_bars" \in DOMAIN x.news /\ x.news["ingest_bars"] =>
    newest >= x.fetched /\ newest > 0

HandFits(h, x) ==
  /\ h \in Shells => x.for = h
  /\ x.at \in {"idle", "enqueues"} => DOMAIN x.news = {}
  /\ x.at = "enqueues" => h \in Shells /\ order[h] # "all"
  /\ x.at \in {"runs", "stores"} => PlanFits(x)
  /\ x.at = "stores" => Head(x.left) = "ingest_bars" /\ x.fetched > 0
  /\ x.at = "ended" =>
       \/ DOMAIN x.news = {}
       \/ x.for \in Shells /\ ran[x.for] > 0 /\ DOMAIN x.news = Wanted(x.for)
  /\ BarsFit(x)

JobsInv ==
  /\ JobTypes /\ QueueFits
  /\ \A c \in Shells : ShellFits(c)
  /\ \A h \in Hands : HandFits(h, hand[h])

LEMMA JobsInitEstablishes == JobsInit => JobsInv
<1> SUFFICES ASSUME JobsInit PROVE JobsInv
  OBVIOUS
<1>1. /\ jobDay = 1 /\ newest = 0 /\ waiting = <<>> /\ unheard = {}
      /\ order = [c \in Shells |-> "all"]
      /\ hand = [h \in Hands |-> Off(h)]
      /\ ran = [c \in Shells |-> 0]
  BY DEF JobsInit
<1>2. ASSUME NEW h \in Hands PROVE Off(h) \in HandStates
  <2>1. [job \in {} |-> TRUE] \in [{} -> BOOLEAN]
    OBVIOUS
  <2>2. [job \in {} |-> TRUE] \in JobReports
    BY <2>1 DEF JobReports
  <2>3. QED
    BY <2>2 DEF Off, HandStates
<1>3. JobTypes
  BY <1>1, <1>2 DEF JobTypes
<1>4. QueueFits /\ \A c \in Shells : ShellFits(c)
  BY <1>1 DEF QueueFits, ShellFits, Queued
<1>5. ASSUME NEW h \in Hands PROVE HandFits(h, hand[h])
  <2>1. hand[h] = Off(h)
    BY <1>1
  <2>2. /\ Off(h).at = "idle" /\ Off(h).for = h /\ Off(h).news = [job \in {} |-> TRUE]
    BY DEF Off
  <2>3. DOMAIN Off(h).news = {}
    BY <2>2
  <2>4. QED
    BY <2>1, <2>2, <2>3 DEF HandFits, BarsFit
<1>6. QED
  BY <1>3, <1>4, <1>5 DEF JobsInv

-----------------------------------------------------------------------------
(* WorkerJobs: the steps.                                                  *)

\* What is after the head of a sequence in which nothing occurs twice.
LEMMA TailOfDistinct ==
  ASSUME NEW S, NEW s \in Seq(S), s # <<>>,
         \A i, j \in DOMAIN s : s[i] = s[j] => i = j
  PROVE  /\ Head(s) \in S /\ Head(s) \in ToSet(s) /\ Tail(s) \in Seq(S)
         /\ ToSet(Tail(s)) = ToSet(s) \ {Head(s)}
         /\ \A i, j \in DOMAIN Tail(s) : Tail(s)[i] = Tail(s)[j] => i = j
<1>1. /\ Head(s) \in S /\ Tail(s) \in Seq(S) /\ Len(Tail(s)) = Len(s) - 1
      /\ \A i \in 1..Len(Tail(s)) : Tail(s)[i] = s[i + 1]
  BY HeadTailProperties
<1>2. Head(s) = s[1] /\ 1 \in DOMAIN s /\ DOMAIN s = 1..Len(s) /\ DOMAIN Tail(s) = 1..Len(Tail(s))
  <2>1. Len(s) \in Nat /\ Len(s) # 0 /\ DOMAIN s = 1..Len(s) /\ Head(s) = s[1]
    OBVIOUS
  <2>2. QED
    BY <1>1, <2>1
<1>3. \A i \in DOMAIN Tail(s) : i + 1 \in DOMAIN s /\ Tail(s)[i] = s[i + 1]
  BY <1>1, <1>2
<1>4. ASSUME NEW i \in DOMAIN s, i # 1 PROVE i - 1 \in DOMAIN Tail(s) /\ Tail(s)[i - 1] = s[i]
  <2>1. i - 1 \in 1..Len(Tail(s)) /\ (i - 1) + 1 = i
    BY <1>1, <1>2, <1>4
  <2>2. QED
    BY <1>1, <1>2, <2>1
<1>5. ASSUME NEW x PROVE x \in ToSet(Tail(s)) <=> x \in ToSet(s) \ {Head(s)}
  <2>1. ASSUME x \in ToSet(Tail(s)) PROVE x \in ToSet(s) \ {Head(s)}
    <3>1. PICK i \in DOMAIN Tail(s) : Tail(s)[i] = x
      BY <2>1 DEF ToSet
    <3>2. i + 1 \in DOMAIN s /\ s[i + 1] = x /\ i + 1 # 1
      BY <1>1, <1>2, <1>3, <3>1
    <3>3. QED
      BY <1>2, <3>2 DEF ToSet
  <2>2. ASSUME x \in ToSet(s) \ {Head(s)} PROVE x \in ToSet(Tail(s))
    <3>1. PICK i \in DOMAIN s : s[i] = x
      BY <2>2 DEF ToSet
    <3>2. i # 1
      BY <1>2, <2>2, <3>1
    <3>3. QED
      BY <1>4, <3>1, <3>2 DEF ToSet
  <2>3. QED
    BY <2>1, <2>2
<1>6. ASSUME NEW i \in DOMAIN Tail(s), NEW j \in DOMAIN Tail(s), Tail(s)[i] = Tail(s)[j] PROVE i = j
  <2>1. i + 1 = j + 1
    BY <1>3, <1>6
  <2>2. QED
    BY <1>1, <1>2, <2>1
<1>7. QED
  BY <1>1, <1>2, <1>5, <1>6 DEF ToSet

\* A hand fits on while counts and bars only grow and no order that is being
\* carried out is changed.
LEMMA HandFitsOn ==
  ASSUME JobsInv, NEW h \in Hands, NEW x \in HandStates, HandFits(h, x),
         newest' \in Nat, newest <= newest', ran' \in [Shells -> Nat],
         \A c \in Shells : ran[c] > 0 => ran'[c] > 0 /\ order'[c] = order[c],
         \A c \in Shells : order[c] # "all" => order'[c] # "all"
  PROVE  HandFits(h, x)'
<1>1. newest \in Nat /\ x.fetched \in Nat
  BY DEF JobsInv, JobTypes, HandStates
<1>2. BarsFit(x)'
  BY <1>1 DEF HandFits, BarsFit
<1>3. ASSUME x.for \in Shells, ran[x.for] > 0 PROVE Wanted(x.for)' = Wanted(x.for) /\ ran'[x.for] > 0
  BY <1>3 DEF Wanted
<1>4. x.at \in {"runs", "stores"} => PlanFits(x)'
  <2>1. SUFFICES ASSUME PlanFits(x) PROVE PlanFits(x)'
    BY DEF HandFits
  <2>2. x.for \in Shells /\ ran[x.for] > 0
    BY <2>1 DEF PlanFits
  <2>3. Wanted(x.for)' = Wanted(x.for) /\ ran'[x.for] > 0
    BY <1>3, <2>2
  <2>4. QED
    BY <2>1, <2>3 DEF PlanFits
<1>5. x.at = "ended" =>
        \/ DOMAIN x.news = {}
        \/ x.for \in Shells /\ ran'[x.for] > 0 /\ DOMAIN x.news = Wanted(x.for)'
  BY <1>3 DEF HandFits
<1>6. QED
  BY <1>2, <1>4, <1>5 DEF HandFits

\* Nothing but one hand moves, and the database perhaps.
LEMMA HandKeeps ==
  ASSUME JobsInv, NEW h \in Hands, NEW new \in HandStates, Becomes(h, new),
         UNCHANGED <<jobDay, waiting, unheard, order, ran>>,
         newest' \in Nat, newest <= newest',
         HandFits(h, new)',
         hand[h].at \notin {"idle", "enqueues"}, new.at \notin {"idle", "enqueues"}
  PROVE  JobsInv'
<1>1. /\ hand \in [Hands -> HandStates] /\ ran \in [Shells -> Nat]
      /\ hand' = [hand EXCEPT ![h] = new]
  BY DEF JobsInv, JobTypes, Becomes
<1>2. JobTypes'
  <2>1. hand' \in [Hands -> HandStates]
    BY <1>1
  <2>2. QED
    BY <2>1 DEF JobsInv, JobTypes
<1>3. \A k \in Hands : k # h => hand'[k] = hand[k]
  BY <1>1
<1>4. hand'[h] = new
  BY <1>1
<1>5. QueueFits'
  BY DEF JobsInv, QueueFits
<1>6. ASSUME NEW c \in Shells PROVE ShellFits(c)'
  <2>1. c \in Hands /\ ShellFits(c)
    BY DEF JobsInv, Hands
  <2>2. hand'[c].at \in {"idle", "enqueues"} => hand[c].at \in {"idle", "enqueues"}
    BY <1>3, <1>4, <2>1
  <2>3. Queued(c)' = Queued(c)
    BY DEF Queued
  <2>4. /\ ran'[c] = ran[c] /\ order'[c] = order[c] /\ unheard' = unheard
        /\ hand'[c].at = "idle" => hand[c].at = "idle"
    BY <1>3, <1>4, <2>1
  <2>5. QED
    BY <2>1, <2>2, <2>3, <2>4 DEF ShellFits
<1>7. ASSUME NEW k \in Hands PROVE HandFits(k, hand[k])'
  <2>1. CASE k = h
    BY <1>4, <2>1
  <2>2. CASE k # h
    <3>1. PICK x : x = hand[k]
      OBVIOUS
    <3>2. x \in HandStates /\ HandFits(k, x) /\ hand'[k] = x
      BY <1>1, <1>3, <2>2, <3>1 DEF JobsInv
    <3>3. HandFits(k, x)'
      BY <1>1, <3>2, HandFitsOn
    <3>4. QED
      BY <3>2, <3>3
  <2>3. QED
    BY <2>1, <2>2
<1>8. QED
  BY <1>2, <1>5, <1>6, <1>7 DEF JobsInv

\* A job reports: the next one is at the head of what is left, or all is done.
LEMMA ReportKeeps ==
  ASSUME JobsInv, NEW h \in Hands, hand[h].at \in {"runs", "stores"}, NEW ok \in BOOLEAN,
         Report(h, ok), UNCHANGED <<jobDay, waiting, unheard, order, ran>>,
         newest' \in Nat, newest <= newest',
         Job(h) = "ingest_bars" /\ ok => newest' >= hand[h].fetched /\ newest' > 0
  PROVE  JobsInv'
<1> DEFINE left == LeftAfter(h, ok)
           old == hand[h].news
           news == [job \in DOMAIN old \cup {Job(h)} |-> IF job = Job(h) THEN ok ELSE old[job]]
           new == [hand[h] EXCEPT !.at = IF left = <<>> THEN "ended" ELSE "runs",
                                  !.left = left, !.news = news]
<1>1. Becomes(h, new)
  BY DEF Report
<1>2. /\ hand[h] \in HandStates /\ HandFits(h, hand[h]) /\ PlanFits(hand[h])
      /\ ran \in [Shells -> Nat] /\ newest \in Nat
  BY DEF JobsInv, JobTypes, HandFits
<1>3. /\ hand[h].for \in Shells /\ ran[hand[h].for] > 0 /\ hand[h].left # <<>>
      /\ \A i, j \in DOMAIN hand[h].left : hand[h].left[i] = hand[h].left[j] => i = j
      /\ ToSet(hand[h].left) \cap DOMAIN old = {}
      /\ ToSet(hand[h].left) \cup DOMAIN old = Wanted(hand[h].for)
  BY <1>2 DEF PlanFits
<1>4. hand[h].left \in Seq(JobNames) /\ old \in JobReports /\ hand[h].fetched \in Nat
  BY <1>2 DEF HandStates
<1>5. /\ Job(h) \in JobNames /\ Job(h) \in ToSet(hand[h].left) /\ left \in Seq(JobNames)
      /\ ToSet(left) = ToSet(hand[h].left) \ {Job(h)}
      /\ \A i, j \in DOMAIN left : left[i] = left[j] => i = j
  BY <1>3, <1>4, TailOfDistinct DEF Job, LeftAfter
<1>6. news \in JobReports /\ DOMAIN news = DOMAIN old \cup {Job(h)}
  <2>1. PICK done \in SUBSET JobNames : old \in [done -> BOOLEAN]
    BY <1>4 DEF JobReports
  <2>2. DOMAIN old = done /\ \A job \in done : old[job] \in BOOLEAN
    BY <2>1
  <2>3. done \cup {Job(h)} \in SUBSET JobNames
    BY <1>5
  <2>4. \A job \in done \cup {Job(h)} : (IF job = Job(h) THEN ok ELSE old[job]) \in BOOLEAN
    BY <2>2
  <2>5. news \in [done \cup {Job(h)} -> BOOLEAN]
    BY <2>2, <2>4
  <2>6. QED
    BY <2>2, <2>3, <2>5 DEF JobReports
<1>7. /\ new.at = (IF left = <<>> THEN "ended" ELSE "runs") /\ new.left = left /\ new.news = news
      /\ new.for = hand[h].for /\ new.fetched = hand[h].fetched
  BY <1>2 DEF HandStates
<1>8. new \in HandStates
  <2> DEFINE at == IF left = <<>> THEN "ended" ELSE "runs"
             Steps == {"idle", "enqueues", "runs", "stores", "ended"}
             Plans == Seq(JobNames)
  <2>1. at \in Steps /\ left \in Plans /\ news \in JobReports
    BY <1>5, <1>6
  <2>2. hand[h] \in [at : Steps, for : Hands, left : Plans, fetched : Nat, news : JobReports]
    BY <1>2 DEF HandStates
  <2>3. new = [hand[h] EXCEPT !.at = at, !.left = left, !.news = news]
    OBVIOUS
  <2> HIDE DEF left, news, new, at, Steps, Plans
  <2>4. new \in [at : Steps, for : Hands, left : Plans, fetched : Nat, news : JobReports]
    BY <2>1, <2>2, <2>3
  <2>5. QED
    BY <2>4 DEF HandStates, Steps, Plans
<1>18. PICK next : next = new
  OBVIOUS
<1>9. Wanted(next.for)' = Wanted(next.for)
  BY DEF Wanted
<1>10. left = <<>> => ToSet(left) = {}
  BY DEF ToSet
<1>11. BarsFit(next)'
  <2>1. CASE Job(h) = "ingest_bars"
    <3>1. news["ingest_bars"] = ok
      BY <2>1
    <3>2. QED
      BY <1>7, <1>18, <2>1, <3>1 DEF BarsFit
  <2>2. CASE Job(h) # "ingest_bars"
    <3>1. "ingest_bars" \in DOMAIN news => "ingest_bars" \in DOMAIN old /\ news["ingest_bars"] = old["ingest_bars"]
      BY <1>6, <2>2
    <3>2. BarsFit(hand[h])
      BY <1>2 DEF HandFits
    <3>4. next.news = news /\ next.fetched = hand[h].fetched
      BY <1>7, <1>18
    <3> HIDE DEF news, new
    <3>3. QED
      BY <1>2, <1>4, <3>4, <1>18, <3>1, <3>2 DEF BarsFit
  <2>3. QED
    BY <2>1, <2>2
<1> HIDE DEF new, news, left, old
<1>12. left # <<>> => PlanFits(next)'
  <2>1. DOMAIN news \cap ToSet(left) = {}
    BY <1>3, <1>5, <1>6 DEF old
  <2>2. DOMAIN news \cup ToSet(left) = Wanted(hand[h].for)
    BY <1>3, <1>5, <1>6 DEF old
  <2>3. QED
    BY <1>3, <1>5, <1>7, <1>18, <1>9, <2>1, <2>2 DEF PlanFits
<1>13. left = <<>> => DOMAIN news = Wanted(hand[h].for)
  BY <1>3, <1>5, <1>6, <1>10 DEF old
<1>14. h \in Shells => next.for = h
  BY <1>2, <1>7, <1>18 DEF HandFits
<1>15. HandFits(h, next)'
  BY <1>3, <1>7, <1>18, <1>9, <1>11, <1>12, <1>13, <1>14 DEF HandFits
<1>16. hand[h].at \notin {"idle", "enqueues"} /\ next.at \notin {"idle", "enqueues"}
  BY <1>7, <1>18
<1>17. QED
  BY <1>1, <1>8, <1>15, <1>16, <1>18, HandKeeps

\* A shell's hand moves before anything has been run for it, or to be the first
\* to run it; the queue and the counts of the others stay.
LEMMA ShellKeeps ==
  ASSUME JobsInv, NEW c \in Shells, NEW new \in HandStates, Becomes(c, new),
         hand[c].at \in {"idle", "enqueues"},
         UNCHANGED <<jobDay, newest>>,
         waiting' \in {waiting, Append(waiting, c)}, unheard' \in SUBSET Shells,
         \A d \in Shells : d # c =>
           /\ ran'[d] = ran[d] /\ order'[d] = order[d] /\ (d \in unheard' <=> d \in unheard),
         order' \in [Shells -> JobNames \cup {"all"}], ran' \in [Shells -> Nat],
         order[c] # "all" => order'[c] # "all",
         ShellFits(c)', HandFits(c, new)'
  PROVE  JobsInv'
<1>1. /\ hand \in [Hands -> HandStates] /\ ran \in [Shells -> Nat] /\ newest \in Nat
      /\ hand' = [hand EXCEPT ![c] = new] /\ c \in Hands /\ waiting \in Seq(Shells)
      /\ ran[c] = 0 /\ ~Queued(c)
  BY DEF JobsInv, JobTypes, Becomes, Hands, ShellFits
<1>2. hand'[c] = new /\ \A k \in Hands : k # c => hand'[k] = hand[k]
  BY <1>1
<1>3. /\ waiting' \in Seq(Shells)
      /\ DOMAIN waiting = 1..Len(waiting) /\ Len(waiting) \in Nat
      /\ waiting' = waiting \/ /\ DOMAIN waiting' = 1..(Len(waiting) + 1)
                               /\ waiting'[Len(waiting) + 1] = c
                               /\ \A i \in 1..Len(waiting) : waiting'[i] = waiting[i]
  <2>1. CASE waiting' = waiting
    BY <1>1, <2>1
  <2>2. CASE waiting' = Append(waiting, c)
    BY <1>1, <2>2
  <2>3. QED
    BY <2>1, <2>2
<1>3a. ASSUME NEW i \in DOMAIN waiting'
      PROVE  \/ i \in DOMAIN waiting /\ waiting'[i] = waiting[i]
             \/ waiting'[i] = c /\ i = Len(waiting) + 1
  <2>1. CASE waiting' = waiting
    BY <2>1
  <2>2. CASE waiting' # waiting
    BY <1>3, <2>2
  <2>3. QED
    BY <2>1, <2>2
<1>4. JobTypes'
  <2>1. hand' \in [Hands -> HandStates]
    BY <1>1
  <2>2. QED
    BY <1>3, <2>1 DEF JobsInv, JobTypes
<1>5. QueueFits'
  <2>1. QueueFits /\ \A i \in DOMAIN waiting : waiting[i] # c
    BY <1>1 DEF JobsInv, Queued
  <2>2. QED
    BY <1>3a, <2>1 DEF QueueFits
<1>6. ASSUME NEW d \in Shells PROVE ShellFits(d)'
  <2>1. CASE d = c
    BY <2>1
  <2>2. CASE d # c
    <3>1. d \in Hands /\ ShellFits(d) /\ hand'[d] = hand[d]
      BY <1>2, <2>2 DEF JobsInv, Hands
    <3>2. Queued(d)' => Queued(d)
      BY <1>3a, <2>2 DEF Queued
    <3>3. ran'[d] = ran[d] /\ order'[d] = order[d] /\ (d \in unheard' <=> d \in unheard)
      BY <2>2
    <3>4. QED
      BY <3>1, <3>2, <3>3 DEF ShellFits
  <2>3. QED
    BY <2>1, <2>2
<1>7. ASSUME NEW k \in Hands PROVE HandFits(k, hand[k])'
  <2>1. CASE k = c
    BY <1>2, <2>1
  <2>2. CASE k # c
    <3>1. PICK x : x = hand[k]
      OBVIOUS
    <3>2. x \in HandStates /\ HandFits(k, x) /\ hand'[k] = x
      BY <1>1, <1>2, <2>2, <3>1 DEF JobsInv
    <3>3. /\ newest' \in Nat /\ newest <= newest' /\ ran' \in [Shells -> Nat]
          /\ \A d \in Shells : ran[d] > 0 => ran'[d] > 0 /\ order'[d] = order[d]
          /\ \A d \in Shells : order[d] # "all" => order'[d] # "all"
      BY <1>1
    <3>4. HandFits(k, x)'
      BY <3>2, <3>3, HandFitsOn
    <3>5. QED
      BY <3>2, <3>4
  <2>3. QED
    BY <2>1, <2>2
<1>8. QED
  BY <1>4, <1>5, <1>6, <1>7 DEF JobsInv

\* A process starts on a plan: the jobs of a shell's order, each of them once.
LEMMA PlanStarts ==
  ASSUME NEW c \in Shells, NEW plan \in {OncePlan, <<order[c]>>}, c \in Hands,
         order[c] \in JobNames \cup {"all"},
         plan = OncePlan => order[c] = "all", plan = <<order[c]>> => order[c] # "all"
  PROVE  /\ Runs(c, plan) \in HandStates
         /\ Runs(c, plan).at = "runs" /\ Runs(c, plan).for = c /\ Runs(c, plan).left = plan
         /\ DOMAIN Runs(c, plan).news = {}
         /\ plan # <<>> /\ ToSet(plan) = Wanted(c)
         /\ \A i, j \in DOMAIN plan : plan[i] = plan[j] => i = j
<1> DEFINE none == [job \in {} |-> TRUE]
           new == Runs(c, plan)
<1>1. none \in JobReports
  <2>1. none \in [{} -> BOOLEAN]
    OBVIOUS
  <2>2. QED
    BY <2>1 DEF JobReports
<1>2. DOMAIN none = {}
  OBVIOUS
<1>3. OncePlan \in Seq(JobNames) /\ OncePlan # <<>>
      /\ \A i, j \in DOMAIN OncePlan : OncePlan[i] = OncePlan[j] => i = j
  <2>1. \A i \in 1..6 : OncePlan[i] \in JobNames
    BY DEF JobNames, ToSet, OncePlan
  <2>2. Len(OncePlan) = 6 /\ DOMAIN OncePlan = 1..6 /\ OncePlan = [i \in 1..6 |-> OncePlan[i]]
    BY DEF OncePlan
  <2>3. OncePlan \in Seq(JobNames)
    BY <2>1, <2>2
  <2>4. \A i, j \in DOMAIN OncePlan : OncePlan[i] = OncePlan[j] => i = j
    BY DEF OncePlan
  <2>5. QED
    BY <2>2, <2>3, <2>4
<1>4. plan \in Seq(JobNames) /\ plan # <<>> /\ ToSet(plan) = Wanted(c)
      /\ \A i, j \in DOMAIN plan : plan[i] = plan[j] => i = j
  <2>1. CASE plan = OncePlan
    BY <1>3, <2>1 DEF Wanted, JobNames
  <2>2. CASE plan = <<order[c]>>
    BY <2>2 DEF Wanted, ToSet
  <2>3. QED
    BY <2>1, <2>2
<1>5. new.at = "runs" /\ new.for = c /\ new.left = plan /\ new.news = none /\ new.fetched = 0
  BY DEF Runs, Off
<1>6. new \in HandStates
  <2> DEFINE Steps == {"idle", "enqueues", "runs", "stores", "ended"}
             Plans == Seq(JobNames)
             off == Off(c)
  <2>1. "runs" \in Steps /\ plan \in Plans
    BY <1>4
  <2>2. off \in [at : Steps, for : Hands, left : Plans, fetched : Nat, news : JobReports]
    BY <1>1 DEF Off
  <2>3. new = [off EXCEPT !.at = "runs", !.left = plan]
    BY DEF Runs
  <2> HIDE DEF new, off, Steps, Plans
  <2>4. new \in [at : Steps, for : Hands, left : Plans, fetched : Nat, news : JobReports]
    BY <2>1, <2>2, <2>3
  <2>5. QED
    BY <2>4 DEF HandStates, Steps, Plans
<1>7. QED
  BY <1>2, <1>4, <1>5, <1>6

\* The consumer takes the request at the head of the queue.
LEMMA ConsumeKeeps == JobsInv /\ Consume => JobsInv'
<1> SUFFICES ASSUME JobsInv, Consume PROVE JobsInv'
  OBVIOUS
<1> DEFINE c == Head(waiting)
           new == Runs(c, <<order[c]>>)
<1>1. /\ hand \in [Hands -> HandStates] /\ ran \in [Shells -> Nat] /\ newest \in Nat
      /\ waiting \in Seq(Shells) /\ order \in [Shells -> JobNames \cup {"all"}]
      /\ Consumer \in Hands /\ Consumer \notin Shells
  BY JobsAssumption DEF JobsInv, JobTypes, Hands
<1>2. /\ waiting # <<>> /\ waiting' = Tail(waiting) /\ hand' = [hand EXCEPT ![Consumer] = new]
      /\ ran' = [ran EXCEPT ![c] = @ + 1]
      /\ UNCHANGED <<jobDay, newest, unheard, order>>
  BY DEF Consume, Becomes
<1>3. /\ c \in Shells /\ c \in ToSet(waiting) /\ waiting' \in Seq(Shells)
      /\ ToSet(waiting') = ToSet(waiting) \ {c}
      /\ \A i, j \in DOMAIN waiting' : waiting'[i] = waiting'[j] => i = j
  BY <1>1, <1>2, TailOfDistinct DEF JobsInv, QueueFits
<1>4. \A d \in Shells : /\ Queued(d) <=> d \in ToSet(waiting)
                        /\ Queued(d)' <=> d \in ToSet(waiting')
  BY DEF Queued, ToSet
<1>5. /\ Queued(c) /\ ShellFits(c) /\ order[c] # "all" /\ ran[c] <= IF c \in unheard THEN 1 ELSE 0
      /\ c \in Hands /\ order[c] \in JobNames \cup {"all"}
  BY <1>1, <1>3, <1>4 DEF JobsInv, ShellFits, Hands
<1>6. /\ new \in HandStates
      /\ new.at = "runs" /\ new.for = c /\ new.left = <<order[c]>>
      /\ DOMAIN new.news = {}
      /\ <<order[c]>> # <<>> /\ ToSet(<<order[c]>>) = Wanted(c)
      /\ \A i, j \in DOMAIN <<order[c]>> : <<order[c]>>[i] = <<order[c]>>[j] => i = j
  <2>1. <<order[c]>> # OncePlan
    BY DEF OncePlan
  <2>2. QED
    BY <1>3, <1>5, <2>1, PlanStarts
<1>7. PICK next : next = new
  OBVIOUS
<1> HIDE DEF new
<1>8. hand'[Consumer] = next /\ \A k \in Hands : k # Consumer => hand'[k] = hand[k]
  BY <1>1, <1>2, <1>7
<1>9. ran' \in [Shells -> Nat] /\ ran'[c] = ran[c] + 1 /\ \A d \in Shells : d # c => ran'[d] = ran[d]
  <2> HIDE DEF c
  <2>1. QED
    BY <1>1, <1>2, <1>3
<1> HIDE DEF c
<1>10. JobTypes'
  <2>1. hand' \in [Hands -> HandStates]
    BY <1>1, <1>2, <1>6, <1>7
  <2>2. QED
    BY <1>2, <1>3, <1>9, <2>1 DEF JobsInv, JobTypes
<1>11. QueueFits'
  BY <1>3 DEF QueueFits
<1>12. ASSUME NEW d \in Shells PROVE ShellFits(d)'
  <2>1. /\ ShellFits(d) /\ hand'[d] = hand[d] /\ ran[d] \in Nat
        /\ Queued(d)' => Queued(d)
        /\ order' = order /\ unheard' = unheard
    <3>1. d \in Hands /\ d # Consumer
      BY <1>1 DEF Hands
    <3>2. QED
      BY <1>1, <1>2, <1>3, <1>4, <1>8, <3>1 DEF JobsInv
  <2>2. CASE d = c
    <3>1. ~Queued(d)'
      BY <1>3, <1>4, <2>2
    <3>2. hand[d].at \notin {"idle", "enqueues"}
      BY <1>5, <2>2 DEF ShellFits
    <3>3. ran'[d] <= IF d \in unheard THEN 2 ELSE 1
      BY <1>5, <1>9, <2>1, <2>2
    <3>4. hand'[d].at \notin {"idle", "enqueues"}
      BY <2>1, <3>2
    <3>5. QED
      BY <2>1, <3>1, <3>3, <3>4 DEF ShellFits
  <2>3. CASE d # c
    <3>1. ran'[d] = ran[d] /\ order'[d] = order[d]
      BY <1>9, <2>1, <2>3
    <3>2. (d \in unheard' <=> d \in unheard) /\ hand'[d].at = hand[d].at
      BY <2>1
    <3>3. QED
      BY <2>1, <3>1, <3>2 DEF ShellFits
  <2>4. QED
    BY <2>2, <2>3
<1>13. ASSUME NEW k \in Hands PROVE HandFits(k, hand[k])'
  <2>1. CASE k = Consumer
    <3>0. ran'[c] > 0
      <4>1. ran[c] \in Nat
        BY <1>1, <1>3
      <4>2. QED
        BY <1>9, <4>1
    <3>1. /\ next.at = "runs" /\ next.for = c /\ DOMAIN next.news = {} /\ next.left # <<>>
          /\ ToSet(next.left) = Wanted(next.for) /\ next.for \in Shells /\ ran'[next.for] > 0
          /\ \A i, j \in DOMAIN next.left : next.left[i] = next.left[j] => i = j
      BY <1>3, <1>6, <1>7, <3>0
    <3>2. Wanted(next.for)' = Wanted(next.for)
      BY <1>2 DEF Wanted
    <3>3. PlanFits(next)'
      BY <3>1, <3>2 DEF PlanFits
    <3>4. BarsFit(next)'
      BY <3>1 DEF BarsFit
    <3>5. HandFits(k, next)'
      BY <1>1, <2>1, <3>1, <3>3, <3>4 DEF HandFits
    <3>6. QED
      BY <1>8, <2>1, <3>5
  <2>2. CASE k # Consumer
    <3>1. PICK x : x = hand[k]
      OBVIOUS
    <3>2. x \in HandStates /\ HandFits(k, x) /\ hand'[k] = x
      BY <1>1, <1>8, <2>2, <3>1 DEF JobsInv
    <3>3. /\ newest' \in Nat /\ newest <= newest' /\ ran' \in [Shells -> Nat]
          /\ \A d \in Shells : ran[d] > 0 => ran'[d] > 0 /\ order'[d] = order[d]
          /\ \A d \in Shells : order[d] # "all" => order'[d] # "all"
      <4>1. ASSUME NEW d \in Shells, ran[d] > 0 PROVE ran'[d] > 0
        <5>1. ran[d] \in Nat
          BY <1>1
        <5>2. QED
          BY <1>9, <4>1, <5>1
      <4>2. QED
        BY <1>1, <1>2, <1>9, <4>1
    <3>4. HandFits(k, x)'
      BY <3>2, <3>3, HandFitsOn
    <3>5. QED
      BY <3>2, <3>4
  <2>3. QED
    BY <2>1, <2>2
<1>14. QED
  BY <1>10, <1>11, <1>12, <1>13 DEF JobsInv

\* A shell runs the jobs itself.
LEMMA StartKeeps ==
  ASSUME JobsInv, NEW c \in Shells, NEW plan \in {OncePlan, <<order[c]>>},
         hand[c].at = IF plan = OncePlan THEN "idle" ELSE "enqueues",
         Becomes(c, Runs(c, plan)), ran' = [ran EXCEPT ![c] = @ + 1],
         UNCHANGED <<jobDay, newest, order>>,
         \/ UNCHANGED <<waiting, unheard>>
         \/ /\ waiting' = Append(waiting, c) /\ unheard' = unheard \cup {c} /\ order[c] # "all"
  PROVE  JobsInv'
<1>1. /\ hand \in [Hands -> HandStates] /\ ran \in [Shells -> Nat] /\ newest \in Nat
      /\ waiting \in Seq(Shells) /\ unheard \in SUBSET Shells
      /\ order \in [Shells -> JobNames \cup {"all"}]
      /\ c \in Hands /\ ShellFits(c) /\ HandFits(c, hand[c])
  BY DEF JobsInv, JobTypes, Hands
<1>2. ran[c] = 0 /\ c \notin unheard /\ ~Queued(c)
  BY <1>1 DEF ShellFits
<1>3. /\ plan = OncePlan => order[c] = "all"
      /\ plan = <<order[c]>> => order[c] # "all"
  <2>1. <<order[c]>> # OncePlan
    BY DEF OncePlan
  <2>2. QED
    BY <1>1, <2>1 DEF ShellFits, HandFits
<1>4. PICK next : next = Runs(c, plan)
  OBVIOUS
<1>5. order[c] \in JobNames \cup {"all"}
  BY <1>1
<1>6. /\ next \in HandStates
      /\ next.at = "runs" /\ next.for = c /\ next.left = plan
      /\ DOMAIN next.news = {}
      /\ plan # <<>> /\ ToSet(plan) = Wanted(c)
      /\ \A i, j \in DOMAIN plan : plan[i] = plan[j] => i = j
  BY <1>1, <1>3, <1>4, <1>5, PlanStarts
<1>7. ran' \in [Shells -> Nat] /\ ran'[c] = 1 /\ \A d \in Shells : d # c => ran'[d] = ran[d]
  BY <1>1, <1>2
<1>8. HandFits(c, next)'
  <2>1. Wanted(c)' = Wanted(c)
    BY DEF Wanted
  <2>2. PlanFits(next)'
    BY <1>6, <1>7, <2>1 DEF PlanFits
  <2>3. BarsFit(next)'
    BY <1>6 DEF BarsFit
  <2>4. QED
    BY <1>6, <2>2, <2>3 DEF HandFits
<1>9. hand'[c] = next
  BY <1>1, <1>4 DEF Becomes
<1>10. ShellFits(c)'
  <2>1. CASE UNCHANGED <<waiting, unheard>>
    <3>1. ~Queued(c)'
      BY <1>2, <2>1 DEF Queued
    <3>2. QED
      BY <1>6, <1>7, <1>9, <3>1 DEF ShellFits
  <2>2. CASE waiting' = Append(waiting, c) /\ unheard' = unheard \cup {c} /\ order[c] # "all"
    <3>1. c \in unheard' /\ order'[c] # "all"
      BY <2>2
    <3>2. QED
      BY <1>6, <1>7, <1>9, <3>1 DEF ShellFits
  <2>3. QED
    BY <2>1, <2>2
<1>11. Becomes(c, next) /\ hand[c].at \in {"idle", "enqueues"}
  BY <1>4
<1>12. QED
  BY <1>1, <1>6, <1>7, <1>8, <1>10, <1>11, ShellKeeps

\* A hand that goes on to another step, perhaps with bars, is a hand.
LEMMA HandMoves ==
  ASSUME NEW x \in HandStates, NEW at \in {"idle", "enqueues", "runs", "stores", "ended"},
         NEW days \in Nat
  PROVE  /\ [x EXCEPT !.at = at] \in HandStates
         /\ [x EXCEPT !.at = at, !.fetched = days] \in HandStates
<1> DEFINE Steps == {"idle", "enqueues", "runs", "stores", "ended"}
           Plans == Seq(JobNames)
<1>1. x \in [at : Steps, for : Hands, left : Plans, fetched : Nat, news : JobReports] /\ at \in Steps
  BY DEF HandStates
<1> HIDE DEF Steps, Plans
<1>2. /\ [x EXCEPT !.at = at]
           \in [at : Steps, for : Hands, left : Plans, fetched : Nat, news : JobReports]
      /\ [x EXCEPT !.at = at, !.fetched = days]
           \in [at : Steps, for : Hands, left : Plans, fetched : Nat, news : JobReports]
  BY <1>1
<1>3. QED
  BY <1>2 DEF HandStates, Steps, Plans

LEMMA JobsStepKeeps == JobsInv /\ [JobsNext]_jobVars => JobsInv'
<1> SUFFICES ASSUME JobsInv, [JobsNext]_jobVars PROVE JobsInv'
  OBVIOUS
<1> USE DEF Doing, Working, Alone
<1>1. /\ newest \in Nat /\ jobDay \in Nat \ {0} /\ hand \in [Hands -> HandStates]
      /\ ran \in [Shells -> Nat] /\ order \in [Shells -> JobNames \cup {"all"}]
      /\ waiting \in Seq(Shells) /\ unheard \in SUBSET Shells
      /\ \A h \in Hands : HandFits(h, hand[h])
      /\ \A c \in Shells : ShellFits(c) /\ c \in Hands
  BY DEF JobsInv, JobTypes, Hands
<1>2. CASE Consume
  BY <1>2, ConsumeKeeps
<1>3. ASSUME DayEnds \/ UNCHANGED jobVars PROVE JobsInv'
  <2>1. /\ UNCHANGED <<newest, waiting, unheard, order, hand, ran>>
        /\ jobDay' \in Nat \ {0}
    BY <1>1, <1>3 DEF DayEnds, jobVars
  <2>2. JobTypes' /\ QueueFits'
    BY <2>1 DEF JobsInv, JobTypes, QueueFits
  <2>3. ASSUME NEW c \in Shells PROVE ShellFits(c)'
    BY <1>1, <2>1 DEF ShellFits, Queued
  <2>4. ASSUME NEW h \in Hands PROVE HandFits(h, hand[h])'
    <3>1. HandFits(h, hand[h])
      BY <1>1
    <3>2. hand' = hand /\ order' = order /\ ran' = ran /\ newest' = newest
      BY <2>1
    <3>3. QED
      BY <3>1, <3>2 DEF HandFits, PlanFits, BarsFit, Wanted
  <2>5. QED
    BY <2>2, <2>3, <2>4 DEF JobsInv
<1>4. ASSUME NEW c \in Shells, Once(c) PROVE JobsInv'
  <2>1. /\ hand[c].at = "idle" /\ ran[c] = 0 /\ Becomes(c, Runs(c, OncePlan))
        /\ ran' = [ran EXCEPT ![c] = 1] /\ UNCHANGED <<jobDay, newest, waiting, unheard, order>>
    BY <1>4 DEF Once
  <2>2. ran' = [ran EXCEPT ![c] = @ + 1]
    BY <1>1, <2>1
  <2>3. QED
    BY <2>1, <2>2, StartKeeps
<1>5. ASSUME NEW c \in Shells, RunHere(c) PROVE JobsInv'
  <2>1. /\ hand[c].at = "enqueues" /\ Becomes(c, Runs(c, <<order[c]>>))
        /\ CountRun(c, hand'[c]) /\ UNCHANGED <<jobDay, newest, order>>
        /\ \/ UNCHANGED <<waiting, unheard>>
           \/ waiting' = Append(waiting, c) /\ unheard' = unheard \cup {c}
    BY <1>5 DEF RunHere
  <2>2. order[c] # "all"
    BY <1>1, <2>1 DEF HandFits
  <2>3. hand'[c].at = "runs"
    <3>1. Runs(c, <<order[c]>>).at = "runs"
      BY DEF Runs, Off
    <3>2. hand'[c] = Runs(c, <<order[c]>>)
      BY <1>1, <2>1 DEF Becomes
    <3>3. QED
      BY <3>1, <3>2
  <2>4. ran' = [ran EXCEPT ![c] = @ + 1]
    BY <2>1, <2>3 DEF CountRun
  <2>5. <<order[c]>> # OncePlan
    BY DEF OncePlan
  <2>6. QED
    BY <2>1, <2>2, <2>4, <2>5, StartKeeps
<1>6. ASSUME NEW c \in Shells, Push(c) PROVE JobsInv'
  <2>1. /\ hand[c].at = "enqueues" /\ Becomes(c, AfterPush(c)) /\ CountRun(c, AfterPush(c))
        /\ waiting' = Append(waiting, c) /\ UNCHANGED <<jobDay, newest, unheard, order>>
    BY <1>6 DEF Push
  <2>2. PICK next : next = AfterPush(c)
    OBVIOUS
  <2>3. /\ next \in HandStates /\ next.at = "ended"
        /\ next.for = hand[c].for /\ next.news = hand[c].news
    <3>1. hand[c] \in HandStates /\ 0 \in Nat
      BY <1>1
    <3>2. next \in HandStates
      BY <2>2, <3>1, HandMoves DEF AfterPush
    <3>3. QED
      BY <2>2, <3>1, <3>2 DEF AfterPush, HandStates
  <2>4. ran' = ran
    <3>1. ran' = [ran EXCEPT ![c] = ran[c]]
      BY <2>1, <2>2, <2>3 DEF CountRun
    <3>2. QED
      BY <1>1, <3>1
  <2>5. /\ ShellFits(c) /\ HandFits(c, hand[c]) /\ ran[c] = 0 /\ c \notin unheard
        /\ order[c] # "all" /\ DOMAIN hand[c].news = {} /\ hand[c].for = c
    BY <1>1, <2>1 DEF ShellFits, HandFits
  <2>6. HandFits(c, next)'
    BY <2>3, <2>5 DEF HandFits, BarsFit
  <2>7. hand'[c] = next
    BY <1>1, <2>1, <2>2 DEF Becomes
  <2>8. ShellFits(c)'
    BY <2>1, <2>3, <2>4, <2>5, <2>7 DEF ShellFits
  <2>9. Becomes(c, next)
    BY <2>1, <2>2
  <2>10. QED
    BY <1>1, <2>1, <2>3, <2>4, <2>6, <2>8, <2>9, ShellKeeps
<1>7. ASSUME NEW c \in Shells, NEW job \in JobNames, AskFor(c, job) PROVE JobsInv'
  <2> DEFINE new == [hand[c] EXCEPT !.at = "enqueues"]
  <2>1. /\ hand[c].at = "idle" /\ ran[c] = 0 /\ order[c] = "all"
        /\ order' = [order EXCEPT ![c] = job] /\ Becomes(c, new)
        /\ UNCHANGED <<jobDay, newest, waiting, unheard, ran>>
    BY <1>7 DEF AskFor
  <2>2. PICK next : next = new
    OBVIOUS
  <2>3. /\ next \in HandStates /\ next.at = "enqueues"
        /\ next.for = hand[c].for /\ next.news = hand[c].news
    <3>1. hand[c] \in HandStates /\ 0 \in Nat
      BY <1>1
    <3>2. next \in HandStates
      BY <2>2, <3>1, HandMoves
    <3>3. QED
      BY <2>2, <3>1, <3>2 DEF HandStates
  <2> HIDE DEF new
  <2>4. /\ ShellFits(c) /\ HandFits(c, hand[c]) /\ DOMAIN hand[c].news = {} /\ hand[c].for = c
    BY <1>1, <2>1 DEF HandFits
  <2>5. job # "all"
    BY DEF JobNames, OncePlan, ToSet
  <2>6. /\ order' \in [Shells -> JobNames \cup {"all"}] /\ order'[c] = job
        /\ \A d \in Shells : d # c => order'[d] = order[d]
    BY <1>1, <2>1
  <2>7. HandFits(c, next)'
    BY <2>3, <2>4, <2>5, <2>6 DEF HandFits, BarsFit
  <2>8. hand'[c] = next
    BY <1>1, <2>1, <2>2 DEF Becomes
  <2>9. ShellFits(c)'
    <3>1. Queued(c)' = Queued(c) /\ ~Queued(c) /\ c \notin unheard
      BY <2>1, <2>4 DEF Queued, ShellFits
    <3>2. ran'[c] = 0 /\ unheard' = unheard /\ hand'[c].at = "enqueues"
      BY <2>1, <2>3, <2>8
    <3>3. QED
      BY <3>1, <3>2 DEF ShellFits
  <2>10. Becomes(c, next) /\ order[c] = "all"
    BY <2>1, <2>2
  <2>11. QED
    BY <1>1, <2>1, <2>3, <2>6, <2>7, <2>9, <2>10, ShellKeeps
<1>8. ASSUME NEW h \in Hands, FetchBars(h) PROVE JobsInv'
  <2>1. PICK last \in {jobDay - 1, jobDay} \ {0} :
          Becomes(h, [hand[h] EXCEPT !.at = "stores", !.fetched = last])
    BY <1>8 DEF FetchBars
  <2> DEFINE new == [hand[h] EXCEPT !.at = "stores", !.fetched = last]
  <2>2. /\ hand[h].at = "runs" /\ Job(h) = "ingest_bars"
        /\ UNCHANGED <<jobDay, newest, waiting, unheard, order, ran>>
    BY <1>8 DEF FetchBars
  <2>3. last \in Nat /\ last > 0
    BY <1>1
  <2>4. PICK next : next = new
    OBVIOUS
  <2>5. next \in HandStates
    <3>1. hand[h] \in HandStates
      BY <1>1
    <3>2. QED
      BY <2>3, <2>4, <3>1, HandMoves
  <2>6. /\ next.at = "stores" /\ next.fetched = last /\ next.for = hand[h].for
        /\ next.left = hand[h].left /\ next.news = hand[h].news
    BY <1>1, <2>4 DEF HandStates
  <2> HIDE DEF new
  <2>7. HandFits(h, hand[h]) /\ PlanFits(hand[h]) /\ Head(next.left) = "ingest_bars"
    BY <1>1, <2>2, <2>6 DEF HandFits, Job
  <2>8. PlanFits(next)'
    <3>1. Wanted(next.for)' = Wanted(next.for)
      BY <2>2 DEF Wanted
    <3>2. PlanFits(next)
      BY <2>6, <2>7 DEF PlanFits
    <3>3. QED
      BY <2>2, <3>1, <3>2 DEF PlanFits
  <2>9. "ingest_bars" \notin DOMAIN next.news
    <3>1. hand[h].left \in Seq(JobNames) /\ hand[h].left # <<>>
      BY <1>1, <2>7 DEF HandStates, PlanFits
    <3>2. Head(hand[h].left) \in ToSet(hand[h].left)
      BY <3>1 DEF ToSet
    <3>3. QED
      BY <2>6, <2>7, <3>2 DEF PlanFits
  <2>10. HandFits(h, next)'
    <3>1. h \in Shells => next.for = h
      BY <2>6, <2>7 DEF HandFits
    <3>2. BarsFit(next)'
      BY <2>9 DEF BarsFit
    <3>3. QED
      BY <2>3, <2>6, <2>7, <2>8, <3>1, <3>2 DEF HandFits
  <2>11. Becomes(h, next) /\ next.at \notin {"idle", "enqueues"} /\ hand[h].at \notin {"idle", "enqueues"}
    BY <2>1, <2>2, <2>4, <2>6 DEF new
  <2>12. QED
    BY <1>1, <2>2, <2>5, <2>10, <2>11, HandKeeps
<1>9. ASSUME NEW h \in Hands, NEW ok \in BOOLEAN, Report(h, ok), Alone, hand[h].at \in {"runs", "stores"},
             ok => Job(h) # "ingest_bars"
      PROVE  JobsInv'
  BY <1>1, <1>9, ReportKeeps
<1>10. ASSUME NEW h \in Hands, NoBars(h) \/ StoreFails(h) PROVE JobsInv'
  BY <1>9, <1>10 DEF NoBars, StoreFails
<1>11. ASSUME NEW h \in Hands, StoreBars(h) PROVE JobsInv'
  <2>1. /\ hand[h].at = "stores" /\ Report(h, TRUE)
        /\ newest' = IF hand[h].fetched > newest THEN hand[h].fetched ELSE newest
        /\ UNCHANGED <<jobDay, waiting, unheard, order, ran>>
    BY <1>11 DEF StoreBars
  <2>2. hand[h].fetched \in Nat /\ hand[h].fetched > 0
    BY <1>1, <2>1 DEF HandStates, HandFits
  <2>3. newest' \in Nat /\ newest <= newest' /\ newest' >= hand[h].fetched /\ newest' > 0
    BY <1>1, <2>1, <2>2
  <2>4. hand[h].at \in {"runs", "stores"} /\ TRUE \in BOOLEAN
    BY <2>1
  <2>5. QED
    BY <2>1, <2>3, <2>4, ReportKeeps
<1>12. ASSUME NEW h \in Hands, RefreshForecasts(h) PROVE JobsInv'
  <2>1. PICK done \in SUBSET HorizonDays : Report(h, done = HorizonDays)
    BY <1>12 DEF RefreshForecasts
  <2>2. Alone /\ hand[h].at = "runs" /\ Job(h) # "ingest_bars"
    BY <1>12 DEF RefreshForecasts
  <2>3. PICK ok \in BOOLEAN : ok = (done = HorizonDays)
    OBVIOUS
  <2>4. Report(h, ok)
    BY <2>1, <2>3
  <2>5. QED
    BY <1>9, <2>2, <2>4
<1>13. ASSUME NEW h \in Hands, Capture(h) PROVE JobsInv'
  <2>1. PICK found \in BOOLEAN : Report(h, found)
    BY <1>13 DEF Capture
  <2>2. Alone /\ hand[h].at = "runs" /\ Job(h) # "ingest_bars"
    BY <1>13 DEF Capture
  <2>3. QED
    BY <1>9, <2>1, <2>2
<1>14. ASSUME NEW h \in Hands, Decline(h) \/ ScoreNothing(h) PROVE JobsInv'
  <2>1. PICK ok \in BOOLEAN : Report(h, ok)
    BY <1>14 DEF Decline, ScoreNothing
  <2>2. Alone /\ hand[h].at = "runs" /\ Job(h) # "ingest_bars"
    BY <1>14 DEF Decline, ScoreNothing
  <2>3. QED
    BY <1>9, <2>1, <2>2
<1>15. QED
  BY <1>2, <1>3, <1>4, <1>5, <1>6, <1>7, <1>8, <1>10, <1>11, <1>12, <1>13, <1>14 DEF JobsNext

-----------------------------------------------------------------------------
(* WorkerJobs: the theorem.                                                *)

\* What is asked for is run once, or twice where the reply to the push was lost;
\* all the jobs of a plan report, and bars that are reported are in the database
\* (backend/workers/jobs.py, enqueue and run_once): for any number of processes
\* and days.
THEOREM JobsRunOnce == JobsSpec => []JobsAreRun
<1>1. JobsInv => JobsAreRun
  <2> SUFFICES ASSUME JobsInv PROVE JobsAreRun
    OBVIOUS
  <2>1. AskedRunsOnce
    BY DEF JobsInv, ShellFits, AskedRunsOnce
  <2>2. ASSUME NEW h \in Hands PROVE HandFits(h, hand[h]) /\ Off(h).news = [job \in {} |-> TRUE]
    BY DEF JobsInv, Off
  <2>3. ASSUME NEW h \in Hands, hand[h].at = "ended", hand[h].news # Off(h).news
        PROVE  DOMAIN hand[h].news = Wanted(hand[h].for)
    <3>1. CASE DOMAIN hand[h].news = {}
      <4>1. PICK done \in SUBSET JobNames : hand[h].news \in [done -> BOOLEAN]
        <5>1. hand[h] \in HandStates
          BY DEF JobsInv, JobTypes
        <5>2. hand[h].news \in JobReports
          BY <5>1 DEF HandStates
        <5>3. QED
          BY <5>2 DEF JobReports
      <4>2. hand[h].news = [job \in {} |-> TRUE]
        BY <3>1, <4>1
      <4>3. QED
        BY <2>2, <2>3, <4>2
    <3>2. CASE DOMAIN hand[h].news # {}
      BY <2>2, <2>3, <3>2 DEF HandFits
    <3>3. QED
      BY <3>1, <3>2
  <2>4. NoJobIsSkipped
    BY <2>2, <2>3 DEF NoJobIsSkipped, Doing, HandFits, BarsFit, Wanted
  <2>5. QED
    BY <2>1, <2>4 DEF JobsAreRun
<1>2. QED
  BY <1>1, JobsInitEstablishes, JobsStepKeeps, PTL DEF JobsSpec

-----------------------------------------------------------------------------
(* MarketScan: no symbol is forgotten.                                     *)

\* Symbols of the market, in any order.
ScanRows == Seq(Symbols)

Accounted == ToSet(scanned) \cup ToSet(skipped)

ScanTypes ==
  /\ scanned \in ScanRows /\ skipped \in ScanRows /\ toRepeat \in ScanRows
  /\ quoting \in [Symbols -> {"off", "queued", "running", "quoted", "failed", "taken"}]

\* What was taken of the pool or quoted again is a row or was skipped; what was not
\* will be.
ScanFits ==
  /\ scanAt = "pool" => \A s \in Symbols : quoting[s] = "taken" => s \in Accounted
  /\ scanAt = "repeats" => Symbols = Accounted \cup ToSet(toRepeat)
  /\ scanAt \in {"sorts", "answered"} => Symbols = Accounted
  /\ scanAt = "answered" =>
       \A s \in ToSet(scanned) \ ToSet(summary.rows) :
         \A t \in ToSet(summary.rows) : Turnover[s] <= Turnover[t]

ScanInv == ScanTypes /\ ScanFits

LEMMA AppendedSet ==
  ASSUME NEW S, NEW s \in Seq(S), NEW e \in S
  PROVE  Append(s, e) \in Seq(S) /\ ToSet(Append(s, e)) = ToSet(s) \cup {e}
<1>1. /\ Append(s, e) \in Seq(S) /\ Len(Append(s, e)) = Len(s) + 1 /\ Len(s) \in Nat
      /\ Append(s, e)[Len(s) + 1] = e
      /\ \A i \in 1..Len(s) : Append(s, e)[i] = s[i]
  OBVIOUS
<1> QED
  BY <1>1 DEF ToSet

LEMMA HeadAndTail ==
  ASSUME NEW S, NEW s \in Seq(S), s # <<>>
  PROVE  Head(s) \in S /\ Tail(s) \in Seq(S) /\ ToSet(s) = {Head(s)} \cup ToSet(Tail(s))
<1>1. /\ Head(s) \in S /\ Head(s) = s[1] /\ Tail(s) \in Seq(S)
      /\ Len(Tail(s)) = Len(s) - 1 /\ Len(s) \in Nat \ {0}
      /\ \A i \in 1..Len(s) - 1 : Tail(s)[i] = s[i + 1]
  OBVIOUS
<1>2. ASSUME NEW i \in 1..Len(s) PROVE s[i] \in {Head(s)} \cup ToSet(Tail(s))
  <2>1. CASE i = 1
    BY <1>1, <2>1
  <2>2. CASE i # 1
    <3>1. i - 1 \in 1..Len(s) - 1 /\ s[(i - 1) + 1] = s[i]
      BY <1>1, <2>2
    <3>2. s[i] = Tail(s)[i - 1] /\ DOMAIN Tail(s) = 1..Len(s) - 1
      BY <1>1, <3>1
    <3> QED
      BY <3>1, <3>2 DEF ToSet
  <2> QED
    BY <2>1, <2>2
<1>3. ASSUME NEW i \in 1..Len(s) - 1 PROVE Tail(s)[i] \in ToSet(s)
  <2>1. i + 1 \in 1..Len(s)
    BY <1>1
  <2> QED
    BY <1>1, <2>1 DEF ToSet
<1>4. s[1] \in ToSet(s)
  BY <1>1 DEF ToSet
<1> QED
  BY <1>1, <1>2, <1>3, <1>4 DEF ToSet

LEMMA ScanConstants == Universe \in ScanRows /\ RowLimit \in Nat /\ Turnover \in [Symbols -> Nat]
  BY ScanAssumption DEF ScanRows, Symbols

\* A row, or a reason for none.
LEMMA TakeAccounts ==
  ASSUME ScanTypes, NEW s \in Symbols, NEW how, Take(s, how)
  PROVE  scanned' \in ScanRows /\ skipped' \in ScanRows /\ Accounted' = Accounted \cup {s}
<1>1. \/ scanned' = Append(scanned, s) /\ skipped' = skipped
      \/ scanned' = scanned /\ skipped' = Append(skipped, s)
  BY DEF Take
<1>2. CASE scanned' = Append(scanned, s) /\ skipped' = skipped
  <2>1. scanned' \in ScanRows /\ ToSet(scanned') = ToSet(scanned) \cup {s}
    BY <1>2, AppendedSet DEF ScanTypes, ScanRows
  <2> QED
    BY <1>2, <2>1 DEF ScanTypes, Accounted
<1>3. CASE scanned' = scanned /\ skipped' = Append(skipped, s)
  <2>1. skipped' \in ScanRows /\ ToSet(skipped') = ToSet(skipped) \cup {s}
    BY <1>3, AppendedSet DEF ScanTypes, ScanRows
  <2> QED
    BY <1>3, <2>1 DEF ScanTypes, Accounted
<1> QED
  BY <1>1, <1>2, <1>3

\* The places of rows are a ranking of them.
LEMMA PlacesRank ==
  ASSUME NEW rows \in ScanRows, NEW n \in Nat, n = Len(rows)
  PROVE  /\ \A p \in 1..n : \E k \in 1..n : p = Place(rows, k) /\ Ranked(rows)[p] = rows[k]
         /\ \A k \in 1..n : Place(rows, k) \in 1..n /\ Ranked(rows)[Place(rows, k)] = rows[k]
         /\ \A i, k \in 1..n : Place(rows, i) < Place(rows, k) => Turnover[rows[k]] <= Turnover[rows[i]]
<1> DEFINE Before(k) == {i \in 1..n : Precedes(rows, i, k)}
<1>1. /\ DOMAIN rows = 1..n /\ \A i \in 1..n : Turnover[rows[i]] \in Nat
  BY ScanConstants DEF ScanRows
<1>2. \A k \in 1..n : Place(rows, k) = Cardinality(Before(k)) /\ k \in Before(k)
  BY <1>1 DEF Place, Precedes
<1>3. IsFiniteSet(1..n) /\ Cardinality(1..n) = n
  <2>1. 1 \in Int /\ n \in Int
    OBVIOUS
  <2>2. IsFiniteSet(1..n) /\ Cardinality(1..n) = (IF 1 > n THEN 0 ELSE n - 1 + 1)
    BY <2>1, FS_Interval
  <2> QED
    BY <2>2
<1>4. ASSUME NEW k \in 1..n
      PROVE  IsFiniteSet(Before(k)) /\ Cardinality(Before(k)) \in Nat
             /\ Cardinality(Before(k)) <= n /\ Cardinality(Before(k)) # 0
  <2>1. Before(k) \in SUBSET (1..n) /\ Before(k) # {}
    BY <1>2
  <2> HIDE DEF Before
  <2> QED
    BY <1>3, <2>1, FS_Subset, FS_CardinalityType, FS_EmptySet
<1>5. ASSUME NEW i \in 1..n, NEW k \in 1..n, i # k, Precedes(rows, i, k)
      PROVE  Place(rows, i) < Place(rows, k)
  <2>1. k \notin Before(i) /\ k \in Before(k)
    BY <1>1, <1>2, <1>5 DEF Precedes
  <2>2. ASSUME NEW j \in Before(i) PROVE j \in Before(k)
    <3>1. j \in 1..n /\ Turnover[rows[i]] \in Nat /\ Turnover[rows[k]] \in Nat /\ Turnover[rows[j]] \in Nat
      BY <1>1
    <3> QED
      BY <1>5, <3>1 DEF Precedes
  <2>3. Before(i) \in SUBSET Before(k) /\ Before(i) # Before(k)
    BY <2>1, <2>2
  <2> HIDE DEF Before
  <2>4. Cardinality(Before(i)) <= Cardinality(Before(k)) /\ Cardinality(Before(i)) # Cardinality(Before(k))
    BY <1>4, <2>3, FS_Subset
  <2> QED
    BY <1>2, <1>4, <2>4
<1>6. ASSUME NEW i \in 1..n, NEW k \in 1..n, i # k PROVE Precedes(rows, i, k) \/ Precedes(rows, k, i)
  BY <1>1, <1>6 DEF Precedes
<1>7. ASSUME NEW k \in 1..n PROVE Place(rows, k) \in 1..n
  <2>1. PICK c : c = Cardinality(Before(k))
    OBVIOUS
  <2>2. Place(rows, k) = c
    BY <1>2, <2>1
  <2>3. c \in Nat /\ c <= n /\ c # 0
    BY <1>4, <2>1
  <2> QED
    BY <2>2, <2>3
<1>8. ASSUME NEW i \in 1..n, NEW k \in 1..n, Place(rows, i) = Place(rows, k) PROVE i = k
  <2>1. Place(rows, i) \in Int
    BY <1>7
  <2> QED
    BY <1>5, <1>6, <1>8, <2>1
<1> DEFINE place == [k \in 1..n |-> Place(rows, k)]
<1>9. place \in Injection(1..n, 1..n)
  <2>1. place \in [1..n -> 1..n]
    BY <1>7
  <2>2. \A i, k \in 1..n : place[i] = place[k] => i = k
    BY <1>8
  <2> QED
    BY <2>1, <2>2 DEF Injection, IsInjective
<1>10. ASSUME NEW p \in 1..n PROVE \E k \in 1..n : Place(rows, k) = p
  <2>1. place \in Surjection(1..n, 1..n)
    BY <1>3, <1>9, FS_Injection
  <2> QED
    BY <2>1 DEF Surjection
<1>11. ASSUME NEW k \in 1..n PROVE Ranked(rows)[Place(rows, k)] = rows[k]
  <2>1. PICK p \in 1..n : p = Place(rows, k)
    BY <1>7
  <2>2. (CHOOSE i \in 1..n : Place(rows, i) = p) = k
    BY <1>8, <2>1
  <2> QED
    BY <1>1, <2>1, <2>2 DEF Ranked
<1>12. ASSUME NEW i \in 1..n, NEW k \in 1..n, Place(rows, i) < Place(rows, k)
       PROVE  Turnover[rows[k]] <= Turnover[rows[i]]
  <2>1. Place(rows, i) \in Int /\ Place(rows, k) \in Int /\ i # k
    BY <1>7, <1>12
  <2>2. Precedes(rows, i, k)
    BY <1>5, <1>6, <1>12, <2>1
  <2> QED
    BY <1>1, <2>2 DEF Precedes
<1> QED
  BY <1>7, <1>10, <1>11, <1>12

\* Ranked and cut: what is left out has no greater turnover than what is shown.
LEMMA CutIsRanked ==
  ASSUME NEW rows \in ScanRows, NEW cut, cut = Shown(Ranked(rows))
  PROVE  \A s \in ToSet(rows) \ ToSet(cut) : \A t \in ToSet(cut) : Turnover[s] <= Turnover[t]
<1>1. PICK n \in Nat : n = Len(rows) /\ DOMAIN rows = 1..n
  BY DEF ScanRows
<1>2. PICK ranked : ranked = Ranked(rows)
  OBVIOUS
<1>3. /\ \A p \in 1..n : \E k \in 1..n : p = Place(rows, k) /\ ranked[p] = rows[k]
      /\ \A k \in 1..n : Place(rows, k) \in 1..n /\ ranked[Place(rows, k)] = rows[k]
      /\ \A i, k \in 1..n : Place(rows, i) < Place(rows, k) => Turnover[rows[k]] <= Turnover[rows[i]]
  BY <1>1, <1>2, PlacesRank
<1>4. ranked \in Seq(Symbols) /\ Len(ranked) = n
  <2>1. \A p \in 1..n : ranked[p] \in Symbols
    <3>1. \A k \in 1..n : rows[k] \in Symbols
      BY <1>1, LenProperties DEF ScanRows
    <3> QED
      BY <1>3, <3>1
  <2>2. ranked = [p \in 1..n |-> ranked[p]]
    BY <1>1, <1>2 DEF Ranked
  <2>3. ranked \in [1..n -> Symbols]
    BY <2>1, <2>2
  <2>4. ranked \in Seq(Symbols) /\ DOMAIN ranked = 1..n
    BY <2>3, SeqDef
  <2>5. Len(ranked) \in Nat /\ 1..Len(ranked) = 1..n
    BY <2>4
  <2>6. PICK l \in Nat : l = Len(ranked)
    BY <2>5
  <2>7. l = n
    BY <2>5, <2>6
  <2> QED
    BY <2>4, <2>6, <2>7
<1>5. \E m \in 0..n : Len(cut) = m /\ DOMAIN cut = 1..m /\ \A p \in 1..m : cut[p] = ranked[p]
  <2>1. CASE RowLimit = 0 \/ n <= RowLimit
    <3>1. cut = ranked
      BY <1>2, <1>4, <2>1 DEF Shown
    <3> QED
      BY <1>4, <3>1
  <2>2. CASE ~(RowLimit = 0 \/ n <= RowLimit)
    <3>1. RowLimit \in 1..n /\ cut = SubSeq(ranked, 1, RowLimit)
      BY <1>2, <1>4, <2>2, ScanConstants DEF Shown
    <3> QED
      BY <1>4, <3>1, SubSeqProperties
  <2> QED
    BY <2>1, <2>2
<1>6. PICK m \in 0..n : DOMAIN cut = 1..m /\ \A p \in 1..m : cut[p] = ranked[p]
  BY <1>5
<1>7. ASSUME NEW s \in ToSet(rows) \ ToSet(cut), NEW t \in ToSet(cut)
      PROVE  Turnover[s] <= Turnover[t]
  <2>1. PICK k \in 1..n : s = rows[k]
    BY <1>1 DEF ToSet
  <2>2. PICK p \in 1..m : t = ranked[p]
    BY <1>6 DEF ToSet
  <2>3. PICK i \in 1..n : p = Place(rows, i) /\ t = rows[i]
    BY <1>3, <2>2
  <2>4. Place(rows, k) \notin 1..m
    BY <1>3, <1>6, <2>1 DEF ToSet
  <2>5. Place(rows, k) \in 1..n
    BY <1>3
  <2>6. Place(rows, i) < Place(rows, k)
    BY <2>2, <2>3, <2>4, <2>5
  <2> QED
    BY <1>3, <2>1, <2>3, <2>6
<1> QED
  BY <1>7

LEMMA ScanStarts == ASSUME ScanInit PROVE ScanInv
  BY DEF ScanInit, ScanInv, ScanTypes, ScanFits, ScanRows

\* The steps of the threads of the pool.
LEMMA ThreadsKeep ==
  ASSUME ScanInv, NEW s \in Symbols, TakeUp(s) \/ QuoteSymbol(s)
  PROVE  ScanInv'
<1>1. /\ UNCHANGED <<scanAt, scanned, skipped, toRepeat, summary>>
      /\ \E how \in {"running", "quoted", "failed"} : quoting' = [quoting EXCEPT ![s] = how]
  BY DEF TakeUp, QuoteSymbol
<1>2. PICK how \in {"running", "quoted", "failed"} : quoting' = [quoting EXCEPT ![s] = how]
  BY <1>1
<1>3. /\ quoting' \in [Symbols -> {"off", "queued", "running", "quoted", "failed", "taken"}]
      /\ \A t \in Symbols : quoting'[t] = "taken" => quoting[t] = "taken"
  BY <1>2 DEF ScanInv, ScanTypes
<1> QED
  BY <1>1, <1>3 DEF ScanInv, ScanTypes, ScanFits, Accounted

LEMMA CollectKeeps == ASSUME ScanInv, NEW s \in Symbols, Collect(s) PROVE ScanInv'
<1>1. /\ scanAt = "pool" /\ UNCHANGED <<scanAt, toRepeat, summary>>
      /\ Take(s, quoting[s]) /\ quoting' = [quoting EXCEPT ![s] = "taken"]
  BY DEF Collect
<1>2. scanned' \in ScanRows /\ skipped' \in ScanRows /\ Accounted' = Accounted \cup {s}
  BY <1>1, TakeAccounts DEF ScanInv
<1>3. /\ quoting' \in [Symbols -> {"off", "queued", "running", "quoted", "failed", "taken"}]
      /\ \A t \in Symbols : quoting'[t] = "taken" => quoting[t] = "taken" \/ t = s
  BY <1>1 DEF ScanInv, ScanTypes
<1> QED
  BY <1>1, <1>2, <1>3 DEF ScanInv, ScanTypes, ScanFits

LEMMA RepeatKeeps == ASSUME ScanInv, Repeat PROVE ScanInv'
<1>1. /\ scanAt = "repeats" /\ toRepeat # <<>> /\ UNCHANGED <<scanAt, quoting, summary>>
      /\ toRepeat' = Tail(toRepeat)
  BY DEF Repeat
<1>2. PICK how : Take(Head(toRepeat), how)
  BY DEF Repeat
<1>3. PICK s : s = Head(toRepeat)
  OBVIOUS
<1>4. s \in Symbols /\ toRepeat' \in ScanRows /\ ToSet(toRepeat) = {s} \cup ToSet(toRepeat')
  BY <1>1, <1>3, HeadAndTail DEF ScanInv, ScanTypes, ScanRows
<1>5. scanned' \in ScanRows /\ skipped' \in ScanRows /\ Accounted' = Accounted \cup {s}
  BY <1>2, <1>3, <1>4, TakeAccounts DEF ScanInv
<1> QED
  BY <1>1, <1>4, <1>5 DEF ScanInv, ScanTypes, ScanFits

LEMMA AnswerKeeps == ASSUME ScanInv, AnswerScan PROVE ScanInv'
<1>1. /\ scanAt = "sorts" /\ scanAt' = "answered" /\ UNCHANGED <<quoting, scanned, skipped, toRepeat>>
  BY DEF AnswerScan
<1>2. PICK rows : rows = scanned
  OBVIOUS
<1>3. PICK cut : cut = Shown(Ranked(rows))
  OBVIOUS
<1>4. summary'.rows = cut
  BY <1>2, <1>3 DEF AnswerScan
<1>5. \A s \in ToSet(rows) \ ToSet(cut) : \A t \in ToSet(cut) : Turnover[s] <= Turnover[t]
  BY <1>2, <1>3, CutIsRanked DEF ScanInv, ScanTypes
<1> QED
  BY <1>1, <1>2, <1>4, <1>5 DEF ScanInv, ScanTypes, ScanFits, Accounted

LEMMA ScanKeeps == ASSUME ScanInv, [ScanNext]_scanVars PROVE ScanInv'
<1>1. CASE \E s \in Symbols : TakeUp(s) \/ QuoteSymbol(s) \/ Collect(s)
  BY <1>1, ThreadsKeep, CollectKeeps
<1>2. CASE BeginScan
  <2>1. /\ scanAt' = "pool" /\ scanned' = <<>> /\ skipped' = <<>> /\ toRepeat' = <<>>
        /\ quoting' = [s \in Symbols |-> "queued"]
    BY <1>2 DEF BeginScan
  <2> QED
    BY <2>1 DEF ScanInv, ScanTypes, ScanFits, ScanRows
<1>3. CASE AllCollected
  <2>1. /\ scanAt = "pool" /\ scanAt' = "sorts" /\ \A s \in Symbols : quoting[s] = "taken"
        /\ UNCHANGED <<quoting, scanned, skipped, toRepeat, summary>>
    BY <1>3 DEF AllCollected
  <2>2. Accounted \subseteq Symbols
    BY DEF ScanInv, ScanTypes, ScanRows, Accounted, ToSet
  <2> QED
    BY <2>1, <2>2 DEF ScanInv, ScanTypes, ScanFits, Accounted
<1>4. CASE RunOutOfTime
  BY <1>4 DEF RunOutOfTime, ScanInv, ScanTypes, ScanFits
<1>5. CASE LeavePool
  <2>1. /\ scanAt' = "repeats" /\ toRepeat' = Universe /\ UNCHANGED <<quoting, scanned, skipped, summary>>
    BY <1>5 DEF LeavePool
  <2>2. Accounted \subseteq Symbols
    BY DEF ScanInv, ScanTypes, ScanRows, Accounted, ToSet
  <2> QED
    BY <2>1, <2>2, ScanConstants DEF ScanInv, ScanTypes, ScanFits, Symbols, Accounted
<1>6. CASE Repeat
  BY <1>6, RepeatKeeps
<1>7. CASE AllRepeated
  <2>1. /\ scanAt = "repeats" /\ scanAt' = "sorts" /\ toRepeat = <<>>
        /\ UNCHANGED <<quoting, scanned, skipped, toRepeat, summary>>
    BY <1>7 DEF AllRepeated
  <2>2. ToSet(toRepeat) = {}
    BY <2>1 DEF ToSet
  <2> QED
    BY <2>1, <2>2 DEF ScanInv, ScanTypes, ScanFits, Accounted
<1>8. CASE AnswerScan
  BY <1>8, AnswerKeeps
<1>9. CASE ScanTick \/ UNCHANGED scanVars
  BY <1>9 DEF ScanTick, scanVars, ScanInv, ScanTypes, ScanFits, Accounted
<1> QED
  BY <1>1, <1>2, <1>3, <1>4, <1>5, <1>6, <1>7, <1>8, <1>9 DEF ScanNext

\* However the pool of a scan ends, every symbol of the market has a row or a reason,
\* and the cut leaves out none that had a greater turnover than one it keeps
\* (_scan_mic).
THEOREM NoSymbolIsForgotten == ScanSpec => []NoneForgotten
<1>1. ScanInv => NoneForgotten
  BY DEF ScanInv, ScanFits, Accounted, NoneForgotten
<1> QED
  BY <1>1, ScanStarts, ScanKeeps, PTL DEF ScanSpec

=============================================================================
