--------------------------- MODULE AIRouterProofs ---------------------------
(***************************************************************************)
(* What AIRouter guarantees for any number of questions and cache keys,    *)
(* any limit, any number of attempts and any rest of the circuit.          *)
(***************************************************************************)
EXTENDS AIRouter, FiniteSetTheorems, SequenceTheorems, TLAPS

-----------------------------------------------------------------------------
(* Types.                                                                  *)

Places == {"idle", "gate", "evidence", "waits", "told", "over", "lost"}

Opinions == [made : Int, stub : BOOLEAN]

Documents == {"none", "pending", "ended"}

Questions ==
  [at : Places, kind : Kinds, key : Keys \cup {NoOne}, opinion : Opinions]

Entries == [key : Keys, opinion : Opinions, expires : Int]

RouterTypeOK ==
  /\ now \in Nat
  /\ breaker \in [state : {"closed", "open", "half_open"}, failures : Nat, opened : Nat]
  /\ local \in Seq(Entries)
  /\ shared \in [Keys -> Opinions]
  /\ inflight \in [Keys -> Requests \cup {NoOne}]
  /\ call \in [Requests -> Int]
  /\ req \in [Requests -> Questions]
  /\ doc \in [Requests -> Documents]
  /\ streak \in [long : Nat, last : Nat]
  /\ \A r \in Requests : req[r].at \notin {"idle", "over", "lost"} => req[r].key \in Keys

\* A call is led by a question that waits for it and is entered in the table; who
\* waits, waits for the call of the question in the table; and who is entered
\* has not learnt of the end of its call.
CallsFit ==
  /\ \A r \in Requests : call[r] # Idle => Waiting(r) /\ inflight[req[r].key] = r
  /\ \A r \in Requests :
       Waiting(r) => /\ inflight[req[r].key] # NoOne
                     /\ call[inflight[req[r].key]] # Idle
  /\ \A k \in Keys :
       inflight[k] # NoOne => /\ req[inflight[k]].at \in {"waits", "told"}
                              /\ req[inflight[k]].key = k

-----------------------------------------------------------------------------
(* What the parts of a step keep.                                          *)

\* An entry taken out leaves entries.
LEMMA RemovedIsCache ==
  ASSUME NEW entries \in Seq(Entries), NEW i \in DOMAIN entries
  PROVE  /\ RemoveAt(entries, i) \in Seq(Entries)
         /\ \A j \in DOMAIN RemoveAt(entries, i) :
              \E k \in DOMAIN entries : RemoveAt(entries, i)[j] = entries[k]
<1> DEFINE before == SubSeq(entries, 1, i - 1)
           after == SubSeq(entries, i + 1, Len(entries))
<1>1. i \in 1..Len(entries) /\ Len(entries) \in Nat
  OBVIOUS
<1>2. /\ before \in Seq(Entries) /\ Len(before) = i - 1
      /\ \A j \in 1..(i - 1) : before[j] = entries[j]
  BY <1>1
<1>3. /\ after \in Seq(Entries) /\ Len(after) = Len(entries) - i
      /\ \A j \in 1..(Len(entries) - i) : after[j] = entries[i + j]
  BY <1>1
<1>4. RemoveAt(entries, i) = before \o after
  BY DEF RemoveAt
<1> HIDE DEF before, after
<1>5. before \o after \in Seq(Entries)
  BY <1>2, <1>3
<1>6. Len(before \o after) = Len(entries) - 1
  BY <1>1, <1>2, <1>3
<1>7. ASSUME NEW j \in 1..(Len(entries) - 1)
      PROVE  \E k \in DOMAIN entries : (before \o after)[j] = entries[k]
  <2>1. CASE j <= i - 1
    <3>1. (before \o after)[j] = entries[j] /\ j \in DOMAIN entries
      BY <1>1, <1>2, <1>3, <2>1
    <3>2. QED
      BY <3>1
  <2>2. CASE j > i - 1
    <3>1. PICK m \in 1..(Len(entries) - i) : j = m + (i - 1)
      <4>1. j - (i - 1) \in 1..(Len(entries) - i) /\ j = (j - (i - 1)) + (i - 1)
        BY <1>1, <2>2
      <4>2. QED
        BY <4>1
    <3>2. (before \o after)[j] = after[m]
      <4>1. j \in 1..Len(before) + Len(after) /\ ~ (j <= Len(before))
        BY <1>1, <1>2, <1>3, <2>2
      <4>2. (before \o after)[j] = after[j - Len(before)]
        <5>1. \A n \in 1..Len(before) + Len(after) :
                (before \o after)[n] = IF n <= Len(before) THEN before[n] ELSE after[n - Len(before)]
          BY <1>2, <1>3, ConcatProperties
        <5>2. QED
          BY <4>1, <5>1
      <4>3. j - Len(before) = m
        BY <1>1, <1>2, <3>1
      <4>4. QED
        BY <4>2, <4>3
    <3>3. i + m \in DOMAIN entries
      BY <1>1
    <3>4. QED
      BY <1>3, <3>2, <3>3
  <2>3. j <= i - 1 \/ j > i - 1
    BY <1>1
  <2>4. QED
    BY <2>1, <2>2, <2>3
<1>8. DOMAIN (before \o after) = 1..(Len(entries) - 1)
  BY <1>5, <1>6
<1>9. QED
  BY <1>4, <1>5, <1>7, <1>8

\* One question goes on, and the others stay where they are.
Turns(r, new) ==
  /\ req' = [req EXCEPT ![r] = new]
  /\ new \in Questions
  /\ new.at \notin {"idle", "over", "lost"} => new.key \in Keys

LEMMA TurnTyped ==
  ASSUME RouterTypeOK, NEW r \in Requests, NEW new, Turns(r, new)
  PROVE  /\ req' \in [Requests -> Questions]
         /\ \A s \in Requests : req'[s].at \notin {"idle", "over", "lost"} => req'[s].key \in Keys
         /\ req'[r] = new /\ \A s \in Requests \ {r} : req'[s] = req[s]
<1>1. /\ req' \in [Requests -> Questions]
      /\ req'[r] = new /\ \A s \in Requests \ {r} : req'[s] = req[s]
  BY DEF Turns, RouterTypeOK
<1>2. ASSUME NEW s \in Requests, req'[s].at \notin {"idle", "over", "lost"} PROVE req'[s].key \in Keys
  BY <1>1, <1>2 DEF Turns, RouterTypeOK
<1>3. QED
  BY <1>1, <1>2

\* A question ends.
LEMMA GoneTyped ==
  ASSUME NEW how \in Places
  PROVE  Gone(how) \in Questions /\ Gone(how).at = how /\ NewRequest \in Questions
<1>1. Nothing \in Opinions
  BY DEF Nothing, Opinions
<1>2. NewRequest \in Questions
  BY <1>1 DEF NewRequest, Questions, Places, Kinds
<1>3. Gone(how) \in Questions /\ Gone(how).at = how
  BY <1>2 DEF Gone, Questions
<1>4. QED
  BY <1>2, <1>3

LEMMA EndsTurns ==
  ASSUME RouterTypeOK, NEW r \in Requests, Ends(r)
  PROVE  /\ Turns(r, Gone("over")) /\ Gone("over").at = "over"
         /\ doc' \in [Requests -> Documents]
<1>1. Gone("over") \in Questions /\ Gone("over").at = "over"
  BY GoneTyped DEF Places
<1>2. req' = [req EXCEPT ![r] = Gone("over")]
  BY DEF Ends
<1>3. doc' \in [Requests -> Documents]
  BY DEF Ends, Save, docs, RouterTypeOK, Documents
<1>4. QED
  BY <1>1, <1>2, <1>3 DEF Turns

\* A question that is not told goes on to a place.
Moved(r, at) == [req[r] EXCEPT !.at = at]

LEMMA MoveTurns ==
  ASSUME RouterTypeOK, NEW r \in Requests, NEW at \in Places,
         req' = [req EXCEPT ![r].at = at], req[r].key \in Keys
  PROVE  Turns(r, Moved(r, at))
<1>1. req[r] \in Questions
  BY DEF RouterTypeOK
<1>2. Moved(r, at) \in Questions /\ Moved(r, at).key = req[r].key
  BY <1>1 DEF Moved, Questions
<1>3. req' = [req EXCEPT ![r] = Moved(r, at)]
  BY DEF Moved, RouterTypeOK
<1>4. QED
  BY <1>2, <1>3 DEF Turns

\* A question is asked, and refused or let in.
LEMMA RefuseTurns ==
  ASSUME RouterTypeOK, NEW r \in Requests, NEW kind \in Kinds, Refuse(r, kind)
  PROVE  Turns(r, Gone("over")) /\ Gone("over").at = "over"
<1>1. Gone("over") \in Questions /\ Gone("over").at = "over"
  BY GoneTyped DEF Places
<1>2. QED
  BY <1>1 DEF Refuse, Turns

LetIn(kind, k) ==
  IF Gate(kind) = "over" THEN Gone("over")
  ELSE [NewRequest EXCEPT !.at = Gate(kind), !.kind = kind, !.key = k]

LEMMA AcceptTurns ==
  ASSUME RouterTypeOK, NEW r \in Requests, NEW kind \in Kinds, NEW k \in Keys,
         Accept(r, kind, k)
  PROVE  /\ Turns(r, LetIn(kind, k))
         /\ LetIn(kind, k).at = Gate(kind)
         /\ LetIn(kind, k).at # "over" => LetIn(kind, k).kind = kind
         /\ Gate(kind) \in {"gate", "evidence", "over"}
         /\ kind = "job" => Gate(kind) = "gate"
<1>1. /\ Gate(kind) \in {"gate", "evidence", "over"}
      /\ kind = "job" => Gate(kind) = "gate"
  BY DEF Gate
<1>2. /\ Gone("over") \in Questions /\ Gone("over").at = "over"
      /\ NewRequest \in Questions
  BY GoneTyped DEF Places
<1>3. CASE Gate(kind) = "over"
  <2>1. LetIn(kind, k) = Gone("over")
    BY <1>3 DEF LetIn
  <2>2. req' = [req EXCEPT ![r] = LetIn(kind, k)]
    BY DEF Accept, LetIn
  <2>3. QED
    BY <1>1, <1>2, <1>3, <2>1, <2>2 DEF Turns
<1>4. CASE Gate(kind) # "over"
  <2>1. LetIn(kind, k) = [NewRequest EXCEPT !.at = Gate(kind), !.kind = kind, !.key = k]
    BY <1>4 DEF LetIn
  <2>2. Gate(kind) \in Places
    BY <1>1 DEF Places
  <2>3. /\ LetIn(kind, k) \in Questions /\ LetIn(kind, k).key = k
        /\ LetIn(kind, k).at = Gate(kind) /\ LetIn(kind, k).kind = kind
    BY <1>2, <2>1, <2>2 DEF Questions
  <2>4. req' = [req EXCEPT ![r] = LetIn(kind, k)]
    BY DEF Accept, LetIn
  <2>5. QED
    BY <1>1, <1>4, <2>3, <2>4 DEF Turns
<1>5. QED
  BY <1>3, <1>4

\* What is put into the caches.
LEMMA PutTyped ==
  ASSUME RouterTypeOK, NEW k \in Keys, NEW opinion \in Opinions, Put(k, opinion)
  PROVE  local' \in Seq(Entries) /\ shared' \in [Keys -> Opinions]
<1> DEFINE entry == [key |-> k, opinion |-> opinion, expires |-> now + Ttl]
<1>1. now + Ttl \in Int
  BY RouterAssumption DEF RouterTypeOK
<1>2. entry \in Entries
  BY <1>1 DEF Entries
<1> HIDE DEF entry
<1>3. local \in Seq(Entries) /\ CacheSize \in Nat \ {0}
  BY RouterAssumption DEF RouterTypeOK
<1>4. \/ local' = Trimmed(Append(local, entry))
      \/ local' = [i \in DOMAIN local |-> IF local[i].key = k THEN entry ELSE local[i]]
  BY DEF Put, entry
<1>5. Trimmed(Append(local, entry)) \in Seq(Entries)
  <2>1. Append(local, entry) \in Seq(Entries)
    BY <1>2, <1>3
  <2>2. ASSUME NEW s \in Seq(Entries), Len(s) > CacheSize
        PROVE  SubSeq(s, Len(s) - CacheSize + 1, Len(s)) \in Seq(Entries)
    BY <1>3, <2>2
  <2>3. QED
    BY <1>3, <2>1, <2>2 DEF Trimmed
<1>6. [i \in DOMAIN local |-> IF local[i].key = k THEN entry ELSE local[i]] \in Seq(Entries)
  <2>1. Len(local) \in Nat /\ DOMAIN local = 1..Len(local)
        /\ \A i \in 1..Len(local) : local[i] \in Entries
    BY <1>3
  <2>2. QED
    BY <1>2, <2>1, IsASeq
<1>7. shared' \in [Keys -> Opinions]
  BY DEF Put, RouterTypeOK
<1>8. QED
  BY <1>4, <1>5, <1>6, <1>7

\* Everyone who waits is told at once.
LEMMA AnswerTyped ==
  ASSUME RouterTypeOK, NEW r \in Requests, NEW opinion \in Opinions, Answer(r, opinion)
  PROVE  /\ req' \in [Requests -> Questions] /\ call' \in [Requests -> Int]
         /\ \A s \in Requests : /\ req'[s].key = req[s].key
                                /\ req[s].at \in {"idle", "over", "lost"} => req'[s].at = req[s].at
<1>1. call' \in [Requests -> Int]
  <2>1. Idle \in Int
    BY DEF Idle
  <2>2. QED
    BY <2>1 DEF Answer, RouterTypeOK
<1>2. ASSUME NEW s \in Requests
      PROVE  /\ req'[s] \in Questions /\ req'[s].key = req[s].key
             /\ req[s].at \in {"idle", "over", "lost"} => req'[s].at = req[s].at
  <2>1. req[s] \in Questions
    BY DEF RouterTypeOK
  <2>2. CASE s \in Crowd(r)
    <3>1. req'[s] = [req[s] EXCEPT !.at = "told", !.opinion = opinion]
      BY <2>2 DEF Answer
    <3>2. req[s].at = "waits"
      BY <2>2 DEF Crowd, Waiting, At
    <3>3. QED
      BY <2>1, <3>1, <3>2 DEF Questions, Places
  <2>3. CASE s \notin Crowd(r)
    BY <2>1, <2>3 DEF Answer
  <2>4. QED
    BY <2>2, <2>3
<1>3. req' \in [Requests -> Questions]
  BY <1>2 DEF Answer
<1>4. QED
  BY <1>1, <1>2, <1>3

\* What a look into the caches finds is an opinion, and leaves caches.
LEMMA LookTyped ==
  ASSUME RouterTypeOK, NEW k \in Keys, NEW look \in Lookups(k)
  PROVE  /\ look.opinion \in Opinions /\ look.local \in Seq(Entries)
         /\ look.shared \in [Keys -> Opinions]
<1>1. Nothing \in Opinions /\ local \in Seq(Entries) /\ shared \in [Keys -> Opinions]
  BY DEF RouterTypeOK, Nothing, Opinions
<1>2. \A i \in Entry(k) : i \in DOMAIN local /\ local[i] \in Entries
  BY <1>1 DEF Entry
<1>3. [shared EXCEPT ![k] = Nothing] \in [Keys -> Opinions]
  BY <1>1
<1>4. CASE Live(k) # {}
  <2>1. PICK i \in Live(k) :
          look = [opinion |-> local[i].opinion, local |-> Used(i), shared |-> shared]
    BY <1>4 DEF Lookups
  <2>2. i \in DOMAIN local /\ local[i] \in Entries
    BY <1>2 DEF Live
  <2>3. Used(i) \in Seq(Entries)
    BY <1>1, <2>2, RemovedIsCache DEF Used
  <2>4. QED
    BY <1>1, <2>1, <2>2, <2>3 DEF Entries
<1>5. CASE Live(k) = {} /\ Entry(k) # {}
  <2>1. PICK i \in Entry(k), s \in {shared, [shared EXCEPT ![k] = Nothing]} :
          look = [opinion |-> Nothing, local |-> RemoveAt(local, i), shared |-> s]
    BY <1>5 DEF Lookups
  <2>2. RemoveAt(local, i) \in Seq(Entries)
    BY <1>1, <1>2, RemovedIsCache
  <2>3. QED
    BY <1>1, <1>3, <2>1, <2>2
<1>6. CASE Live(k) = {} /\ Entry(k) = {}
  <2>1. PICK o \in {shared[k], Nothing} :
          look = [opinion |-> o, local |-> local, shared |-> shared]
    BY <1>6 DEF Lookups
  <2>2. QED
    BY <1>1, <2>1
<1>7. QED
  BY <1>4, <1>5, <1>6

\* A question has looked: it is told, or waits for a call, its own or another's.
LookedUp(r, look, new) ==
  /\ req[r].at = "evidence" /\ req[r].key \in Keys /\ Turns(r, new)
  /\ local' = look.local /\ shared' = look.shared
  /\ new.key = req[r].key /\ new.kind = req[r].kind
  /\ \/ /\ new.at = "told" /\ new.opinion = look.opinion /\ look.opinion # Nothing
        /\ UNCHANGED <<inflight, call>>
     \/ /\ new.at = "waits" /\ Running(req[r].key)
        /\ UNCHANGED <<inflight, call>>
     \/ /\ new.at = "waits" /\ ~Running(req[r].key)
        /\ inflight' = [inflight EXCEPT ![req[r].key] = r]
        /\ call' = [call EXCEPT ![r] = 0]

LEMMA LookUpTurns ==
  ASSUME RouterTypeOK, NEW r \in Requests, LookUp(r)
  PROVE  \E look \in Lookups(req[r].key), new \in Questions : LookedUp(r, look, new)
<1>1. req[r] \in Questions /\ req[r].at = "evidence" /\ req[r].key \in Keys
  BY DEF LookUp, At, RouterTypeOK
<1>2. PICK look \in Lookups(req[r].key) :
        /\ local' = look.local
        /\ shared' = look.shared
        /\ IF look.opinion # Nothing
           THEN /\ req' = [req EXCEPT ![r].at = "told", ![r].opinion = look.opinion]
                /\ UNCHANGED <<inflight, call>>
           ELSE /\ req' = [req EXCEPT ![r].at = "waits"]
                /\ IF Running(req[r].key) THEN UNCHANGED <<inflight, call>>
                   ELSE /\ inflight' = [inflight EXCEPT ![req[r].key] = r]
                        /\ call' = [call EXCEPT ![r] = 0]
  BY DEF LookUp
<1>3. look.opinion \in Opinions
  BY <1>1, <1>2, LookTyped
<1>4. CASE look.opinion # Nothing
  <2> DEFINE new == [req[r] EXCEPT !.at = "told", !.opinion = look.opinion]
  <2>1. /\ new \in Questions /\ new.key = req[r].key /\ new.kind = req[r].kind
        /\ new.at = "told" /\ new.opinion = look.opinion
    BY <1>1, <1>3 DEF Questions, Places
  <2>2. req' = [req EXCEPT ![r] = new]
    BY <1>2, <1>4 DEF RouterTypeOK
  <2>3. UNCHANGED <<inflight, call>>
    BY <1>2, <1>4
  <2> HIDE DEF new
  <2>4. LookedUp(r, look, new)
    BY <1>1, <1>2, <1>4, <2>1, <2>2, <2>3 DEF LookedUp, Turns
  <2>5. QED
    BY <2>1, <2>4
<1>5. CASE look.opinion = Nothing
  <2>1. Turns(r, Moved(r, "waits"))
    BY <1>1, <1>2, <1>5, MoveTurns DEF Places
  <2>2. /\ Moved(r, "waits").key = req[r].key /\ Moved(r, "waits").kind = req[r].kind
        /\ Moved(r, "waits").at = "waits" /\ Moved(r, "waits") \in Questions
    BY <1>1 DEF Moved, Questions, Places
  <2>3. LookedUp(r, look, Moved(r, "waits"))
    BY <1>1, <1>2, <1>5, <2>1, <2>2 DEF LookedUp
  <2>4. QED
    BY <2>2, <2>3
<1>6. QED
  BY <1>4, <1>5

-----------------------------------------------------------------------------
(* The type invariant.                                                     *)

LEMMA InitTyped == Init => RouterTypeOK
<1>1. SUFFICES ASSUME Init PROVE RouterTypeOK
  OBVIOUS
<1>2. Nothing \in Opinions /\ Idle \in Int /\ NewRequest \in Questions
  BY GoneTyped DEF Nothing, Opinions, Idle, Places
<1>3. <<>> \in Seq(Entries)
  OBVIOUS
<1>4. QED
  BY <1>1, <1>2, <1>3 DEF Init, RouterTypeOK, Closed, NoFailure, Documents, NewRequest

\* A failure in a row is counted.
LEMMA FailureTyped ==
  ASSUME RouterTypeOK, Failed
  PROVE  streak' \in [long : Nat, last : Nat]
<1>1. streak.long \in Nat /\ now \in Nat /\ Threshold \in Nat
  BY RouterAssumption DEF RouterTypeOK
<1>2. QED
  BY <1>1 DEF Failed

\* A call for a key ends in an opinion for everyone who waits.
LEMMA EndOfCallTyped ==
  ASSUME RouterTypeOK, NEW r \in Requests, NEW opinion \in Opinions, Answer(r, opinion)
  PROVE  \A s \in Requests : req'[s].at \notin {"idle", "over", "lost"} => req'[s].key \in Keys
  BY AnswerTyped DEF RouterTypeOK

\* A call that ends in what counts as a success.
LEMMA ConcludesCall ==
  ASSUME NEW r \in Requests, NEW stub \in BOOLEAN, Opine(r, stub) \/ Unkeyed(r)
  PROVE  /\ call[r] # Idle
         /\ \E said \in BOOLEAN : Conclude(r, [made |-> now, stub |-> said])
<1>1. CASE Opine(r, stub)
  BY <1>1 DEF Opine, Idle
<1>2. CASE Unkeyed(r)
  <2>1. call[r] \in Nat
    BY <1>2, RouterAssumption DEF Unkeyed
  <2>2. Conclude(r, [made |-> now, stub |-> TRUE])
    BY <1>2 DEF Unkeyed
  <2>3. call[r] # Idle
    BY <2>1 DEF Idle
  <2>4. QED
    BY <2>2, <2>3
<1>3. QED
  BY <1>1, <1>2

LEMMA StepTyped ==
  ASSUME RouterTypeOK, CallsFit, [Next]_vars
  PROVE  RouterTypeOK'
<1>1. CASE UNCHANGED vars
  BY <1>1 DEF vars, world, caches, RouterTypeOK, docs
<1>2. ASSUME NEW r \in Requests, NEW kind \in Kinds, Refuse(r, kind) PROVE RouterTypeOK'
  BY <1>2, RefuseTurns, TurnTyped DEF Refuse, RouterTypeOK, world, caches, docs
<1>3. ASSUME NEW r \in Requests, NEW kind \in Kinds, NEW k \in Keys, Accept(r, kind, k)
      PROVE  RouterTypeOK'
  <2>1. doc' \in [Requests -> Documents]
    BY <1>3 DEF Accept, RouterTypeOK, Documents
  <2>2. Turns(r, LetIn(kind, k))
    BY <1>3, AcceptTurns
  <2>3. UNCHANGED <<now, breaker, local, shared, inflight, call, streak>>
    BY <1>3 DEF Accept, world, caches
  <2>4. QED
    BY <2>1, <2>2, <2>3, TurnTyped DEF RouterTypeOK
<1>4. ASSUME NEW r \in Requests, NoKey(r) \/ NoEvidence(r) PROVE RouterTypeOK'
  <2>1. Ends(r)
    BY <1>4 DEF NoKey, NoEvidence
  <2>2. UNCHANGED <<now, breaker, local, shared, inflight, call, streak>>
    BY <1>4 DEF NoKey, NoEvidence, world, caches
  <2>3. QED
    BY <2>1, <2>2, EndsTurns, TurnTyped DEF RouterTypeOK
<1>5. ASSUME NEW r \in Requests, Gather(r) PROVE RouterTypeOK'
  <2>1. req[r].key \in Keys
    BY <1>5 DEF Gather, At, RouterTypeOK, docs
  <2>2. Turns(r, Moved(r, "evidence"))
    BY <1>5, <2>1, MoveTurns DEF Gather, Places, docs
  <2>3. QED
    BY <1>5, <2>2, TurnTyped DEF Gather, RouterTypeOK, world, caches, docs
<1>6. ASSUME NEW r \in Requests, LookUp(r) PROVE RouterTypeOK'
  <2>1. PICK look \in Lookups(req[r].key), new \in Questions : LookedUp(r, look, new)
    BY <1>6, LookUpTurns
  <2>2. /\ look.opinion \in Opinions /\ local' \in Seq(Entries)
        /\ shared' \in [Keys -> Opinions]
    BY <2>1, LookTyped DEF LookedUp
  <2>3. inflight' \in [Keys -> Requests \cup {NoOne}] /\ call' \in [Requests -> Int]
    <3>1. \/ UNCHANGED <<inflight, call>>
          \/ /\ inflight' = [inflight EXCEPT ![req[r].key] = r]
             /\ call' = [call EXCEPT ![r] = 0]
      BY <2>1 DEF LookedUp
    <3>2. /\ inflight \in [Keys -> Requests \cup {NoOne}] /\ call \in [Requests -> Int]
          /\ r \in Requests \cup {NoOne} /\ 0 \in Int
      BY DEF RouterTypeOK
    <3>3. [inflight EXCEPT ![req[r].key] = r] \in [Keys -> Requests \cup {NoOne}]
      BY <3>2
    <3>4. [call EXCEPT ![r] = 0] \in [Requests -> Int]
      BY <3>2
    <3>5. QED
      BY <3>1, <3>2, <3>3, <3>4
  <2>4. Turns(r, new)
    BY <2>1 DEF LookedUp
  <2>5. QED
    BY <1>6, <2>2, <2>3, <2>4, TurnTyped DEF LookUp, RouterTypeOK, world, docs
<1>7. ASSUME NEW r \in Requests, Raise(r) \/ RefuseStub(r) \/ Unblended(r) \/ Serve(r)
      PROVE  RouterTypeOK'
  <2>1. inflight' = Released(r)
    BY <1>7 DEF Raise, RefuseStub, Unblended, Serve
  <2>2. inflight' \in [Keys -> Requests \cup {NoOne}]
    BY <2>1 DEF Released, RouterTypeOK
  <2>3. Ends(r)
    BY <1>7 DEF Raise, RefuseStub, Unblended, Serve
  <2>4. UNCHANGED <<now, breaker, local, shared, call, streak>>
    BY <1>7 DEF Raise, RefuseStub, Unblended, Serve, world, caches
  <2>5. QED
    BY <2>2, <2>3, <2>4, EndsTurns, TurnTyped DEF RouterTypeOK
<1>8. \A r \in Requests : call[r] # Idle => req[r].key \in Keys
  BY DEF CallsFit, Waiting, At, RouterTypeOK
<1>9. ASSUME NEW r \in Requests, NEW opinion \in Opinions, call[r] # Idle,
             Answer(r, opinion), Put(req[r].key, opinion)
      PROVE  /\ req' \in [Requests -> Questions] /\ call' \in [Requests -> Int]
             /\ local' \in Seq(Entries) /\ shared' \in [Keys -> Opinions]
             /\ \A s \in Requests : req'[s].at \notin {"idle", "over", "lost"} => req'[s].key \in Keys
  BY <1>8, <1>9, AnswerTyped, PutTyped, EndOfCallTyped
<1>10. ASSUME NEW stub \in BOOLEAN PROVE [made |-> now, stub |-> stub] \in Opinions
  BY DEF Opinions, RouterTypeOK
<1>11. ASSUME NEW r \in Requests, NEW n \in Nat, call[r] = n PROVE call[r] # Idle
  BY <1>11 DEF Idle
<1>12. ASSUME NEW r \in Requests, ShortCircuit(r) PROVE RouterTypeOK'
  <2> DEFINE stub == [made |-> now, stub |-> TRUE]
  <2>1. /\ Answer(r, stub) /\ Put(req[r].key, stub) /\ call[r] = 0
        /\ UNCHANGED <<now, breaker, inflight, doc, streak>>
    BY <1>12 DEF ShortCircuit, world, docs
  <2>2. stub \in Opinions /\ call[r] # Idle
    BY <1>10, <1>11, <2>1
  <2> HIDE DEF stub
  <2>3. QED
    BY <1>9, <2>1, <2>2 DEF RouterTypeOK
<1>13. ASSUME NEW r \in Requests, GiveUp(r) PROVE RouterTypeOK'
  <2> DEFINE stub == [made |-> now, stub |-> TRUE]
  <2>1. /\ Answer(r, stub) /\ Put(req[r].key, stub) /\ Failed /\ call[r] = Attempts
        /\ UNCHANGED <<now, inflight, doc>>
    BY <1>13 DEF GiveUp, world, docs
  <2>2. stub \in Opinions /\ call[r] # Idle
    BY <1>10, <1>11, <2>1, RouterAssumption
  <2>3. streak' \in [long : Nat, last : Nat]
    BY <2>1, FailureTyped
  <2>4. breaker' \in [state : {"closed", "open", "half_open"}, failures : Nat, opened : Nat]
    <3>1. breaker.failures + 1 \in Nat /\ now \in Nat
      BY DEF RouterTypeOK
    <3>2. [state |-> "open", failures |-> breaker.failures + 1, opened |-> now]
            \in [state : {"closed", "open", "half_open"}, failures : Nat, opened : Nat]
      BY <3>1
    <3>3. [breaker EXCEPT !.failures = breaker.failures + 1]
            \in [state : {"closed", "open", "half_open"}, failures : Nat, opened : Nat]
      BY <3>1 DEF RouterTypeOK
    <3>4. \/ breaker' = [state |-> "open", failures |-> breaker.failures + 1, opened |-> now]
          \/ breaker' = [breaker EXCEPT !.failures = breaker.failures + 1]
      BY <2>1 DEF Failed
    <3>5. QED
      BY <3>2, <3>3, <3>4
  <2> HIDE DEF stub
  <2>5. QED
    BY <1>9, <2>1, <2>2, <2>3, <2>4 DEF RouterTypeOK
<1>14. ASSUME NEW r \in Requests, NEW stub \in BOOLEAN, Opine(r, stub) \/ Unkeyed(r)
       PROVE  RouterTypeOK'
  <2>1. PICK said \in BOOLEAN : Conclude(r, [made |-> now, stub |-> said])
    BY <1>14, ConcludesCall
  <2> DEFINE opinion == [made |-> now, stub |-> said]
  <2>2. opinion \in Opinions /\ call[r] # Idle
    BY <1>10, <1>14, ConcludesCall
  <2>3. /\ Answer(r, opinion) /\ Put(req[r].key, opinion) /\ Succeeded
        /\ UNCHANGED <<now, inflight, doc>>
    BY <2>1 DEF Conclude, world, docs
  <2>4. streak' \in [long : Nat, last : Nat]
    BY <2>3 DEF Succeeded, NoFailure
  <2>5. breaker' \in [state : {"closed", "open", "half_open"}, failures : Nat, opened : Nat]
    BY <2>3 DEF Succeeded, Closed
  <2> HIDE DEF opinion
  <2>6. QED
    BY <1>9, <2>2, <2>3, <2>4, <2>5 DEF RouterTypeOK
<1>15. ASSUME NEW r \in Requests, Break(r) PROVE RouterTypeOK'
  <2>1. Nothing \in Opinions
    BY DEF Nothing, Opinions
  <2>2. Answer(r, Nothing)
    BY <1>15 DEF Break, docs
  <2>3. QED
    BY <1>15, <2>1, <2>2, AnswerTyped, EndOfCallTyped DEF Break, RouterTypeOK, world, caches, docs
<1>16. ASSUME NEW r \in Requests, Dial(r) \/ Redial(r) PROVE RouterTypeOK'
  <2>1. call' \in [Requests -> Int]
    BY <1>16 DEF Dial, Redial, RouterTypeOK, docs
  <2>2. breaker' \in [state : {"closed", "open", "half_open"}, failures : Nat, opened : Nat]
    BY <1>16 DEF Dial, Redial, RouterTypeOK, docs
  <2>3. QED
    BY <1>16, <2>1, <2>2 DEF Dial, Redial, RouterTypeOK, world, caches, docs
<1>17. CASE Tick
  <2>1. shared' \in [Keys -> Opinions]
    BY <1>17 DEF Tick, RouterTypeOK, Nothing, Opinions, docs
  <2>2. QED
    BY <1>17, <2>1 DEF Tick, RouterTypeOK, docs
<1>18. CASE ChangeKey
  BY <1>18 DEF ChangeKey, RouterTypeOK, caches, docs
<1>19. CASE Restart
  <2>1. ASSUME NEW s \in Requests
        PROVE  req'[s] \in Questions /\ req'[s].at \in {"idle", "over", "lost"}
    <3>1. req[s] \in Questions
      BY DEF RouterTypeOK
    <3>2. CASE s \in UnderWay
      <4>1. req'[s] = Gone("lost")
        BY <1>19, <3>2 DEF Restart
      <4>2. QED
        BY <4>1, GoneTyped DEF Places
    <3>3. CASE s \notin UnderWay
      BY <1>19, <3>1, <3>3 DEF Restart, UnderWay
    <3>4. QED
      BY <3>2, <3>3
  <2>2. req' \in [Requests -> Questions]
    BY <1>19, <2>1 DEF Restart
  <2>3. Idle \in Int
    BY DEF Idle
  <2>4. UNCHANGED <<now, shared, doc>>
    BY <1>19 DEF Restart, docs
  <2>5. call' \in [Requests -> Int] /\ inflight' \in [Keys -> Requests \cup {NoOne}]
    BY <1>19, <2>3 DEF Restart
  <2>6. local' = <<>> /\ streak' = NoFailure /\ breaker' = Closed
    BY <1>19 DEF Restart
  <2>7. local' \in Seq(Entries) /\ streak' \in [long : Nat, last : Nat]
    BY <2>6 DEF NoFailure
  <2>8. breaker' \in [state : {"closed", "open", "half_open"}, failures : Nat, opened : Nat]
    BY <2>6 DEF Closed
  <2>9. QED
    BY <2>1, <2>2, <2>4, <2>5, <2>7, <2>8 DEF RouterTypeOK
<1>20. QED
  BY <1>1, <1>2, <1>3, <1>4, <1>5, <1>6, <1>7, <1>12, <1>13, <1>14, <1>15, <1>16, <1>17,
     <1>18, <1>19 DEF Next, Ask, Proceed, Work

-----------------------------------------------------------------------------
(* One call for a key.                                                     *)

LEMMA InitCallsFit == Init => CallsFit
  BY DEF Init, CallsFit, Waiting, At, NewRequest

\* A question that is neither asked for nor waits goes on, or one that was told
\* leaves the table.
LEMMA TurnKeepsCalls ==
  ASSUME RouterTypeOK, CallsFit, NEW r \in Requests, NEW new, Turns(r, new), UNCHANGED call,
         new.at # "waits", req[r].at # "waits",
         \/ /\ UNCHANGED inflight
            /\ \A k \in Keys : inflight[k] # r
         \/ inflight' = Released(r) /\ req[r].at = "told"
  PROVE  CallsFit'
<1>1. req'[r] = new /\ \A s \in Requests \ {r} : req'[s] = req[s]
  BY TurnTyped
<1>2. call[r] = Idle
  BY DEF CallsFit, Waiting, At
<1>3. \A k \in Keys : inflight'[k] # r /\ (inflight[k] # r => inflight'[k] = inflight[k])
  <2>1. CASE UNCHANGED inflight /\ \A k \in Keys : inflight[k] # r
    BY <2>1
  <2>2. CASE inflight' = Released(r) /\ req[r].at = "told"
    <3>1. ASSUME NEW k \in Keys, inflight[k] = r PROVE req[r].key = k
      BY <3>1, RouterAssumption DEF CallsFit
    <3>2. r # NoOne
      BY RouterAssumption
    <3>3. QED
      BY <2>2, <3>1, <3>2 DEF Released, RouterTypeOK
  <2>3. QED
    BY <2>1, <2>2
<1>4. ASSUME NEW s \in Requests, call'[s] # Idle
      PROVE  Waiting(s)' /\ inflight'[req'[s].key] = s
  <2>1. s # r /\ Waiting(s) /\ inflight[req[s].key] = s /\ req'[s] = req[s]
    BY <1>1, <1>2, <1>4 DEF CallsFit
  <2>2. req[s].key \in Keys
    BY <2>1 DEF RouterTypeOK, Waiting, At
  <2>3. QED
    BY <1>3, <2>1, <2>2 DEF Waiting, At
<1>5. ASSUME NEW s \in Requests, Waiting(s)'
      PROVE  inflight'[req'[s].key] # NoOne /\ call'[inflight'[req'[s].key]] # Idle
  <2>1. s # r /\ req'[s] = req[s] /\ Waiting(s)
    BY <1>1, <1>5 DEF Waiting, At
  <2>2. req[s].key \in Keys
    BY <2>1 DEF RouterTypeOK, Waiting, At
  <2>3. inflight[req[s].key] # NoOne /\ call[inflight[req[s].key]] # Idle
    BY <2>1 DEF CallsFit
  <2>4. inflight'[req[s].key] = inflight[req[s].key]
    BY <1>2, <1>3, <2>2, <2>3
  <2>5. QED
    BY <2>1, <2>3, <2>4
<1>6. ASSUME NEW k \in Keys, inflight'[k] # NoOne
      PROVE  req'[inflight'[k]].at \in {"waits", "told"} /\ req'[inflight'[k]].key = k
  <2>1. inflight'[k] = inflight[k] /\ inflight[k] # r
    <3>1. CASE inflight[k] = r
      <4>1. inflight'[k] \in {r, NoOne}
        BY <3>1 DEF Released, RouterTypeOK
      <4>2. QED
        BY <1>3, <1>6, <4>1
    <3>2. QED
      BY <1>3, <3>1
  <2>2. inflight[k] \in Requests
    BY <1>6, <2>1 DEF RouterTypeOK
  <2>3. QED
    BY <1>1, <1>6, <2>1, <2>2 DEF CallsFit
<1>7. QED
  BY <1>4, <1>5, <1>6 DEF CallsFit

\* The call that r leads ends: all who wait for the key are told.
LEMMA AnswerKeepsCalls ==
  ASSUME RouterTypeOK, CallsFit, NEW r \in Requests, NEW opinion, call[r] # Idle,
         Answer(r, opinion), UNCHANGED inflight
  PROVE  CallsFit'
<1> DEFINE k == req[r].key
<1>1. Waiting(r) /\ inflight[k] = r /\ k \in Keys
  BY DEF CallsFit, Waiting, At, RouterTypeOK
<1>2. \A s \in Requests :
        /\ s \in Crowd(r) => req'[s] = [req[s] EXCEPT !.at = "told", !.opinion = opinion]
        /\ s \notin Crowd(r) => req'[s] = req[s]
  BY DEF Answer
<1>3. \A s \in Requests :
        /\ req'[s].key = req[s].key
        /\ s \in Crowd(r) => req'[s].at = "told"
        /\ req[s].at \in {"waits", "told"} => req'[s].at \in {"waits", "told"}
  <2>1. ASSUME NEW s \in Requests
        PROVE  /\ req'[s].key = req[s].key
               /\ s \in Crowd(r) => req'[s].at = "told"
               /\ req[s].at \in {"waits", "told"} => req'[s].at \in {"waits", "told"}
    <3>1. req[s] \in Questions
      BY DEF RouterTypeOK
    <3>2. CASE s \in Crowd(r)
      BY <1>2, <3>1, <3>2 DEF Questions
    <3>3. CASE s \notin Crowd(r)
      BY <1>2, <3>3
    <3>4. QED
      BY <3>2, <3>3
  <2>2. QED
    BY <2>1
<1>4. call'[r] = Idle /\ \A s \in Requests \ {r} : call'[s] = call[s]
  BY DEF Answer, RouterTypeOK
<1>5. ASSUME NEW s \in Requests, call[s] # Idle, s # r PROVE s \notin Crowd(r)
  <2>1. inflight[req[s].key] = s
    BY <1>5 DEF CallsFit
  <2>2. QED
    BY <1>1, <1>5, <2>1 DEF Crowd
<1>6. ASSUME NEW s \in Requests, call'[s] # Idle
      PROVE  Waiting(s)' /\ inflight'[req'[s].key] = s
  <2>1. s # r /\ call[s] # Idle
    BY <1>4, <1>6
  <2>2. req'[s] = req[s]
    BY <1>2, <1>5, <2>1
  <2>3. QED
    BY <2>1, <2>2 DEF CallsFit, Waiting, At
<1>7. ASSUME NEW s \in Requests, Waiting(s)'
      PROVE  inflight'[req'[s].key] # NoOne /\ call'[inflight'[req'[s].key]] # Idle
  <2>1. s \notin Crowd(r)
    BY <1>3, <1>7 DEF Waiting, At
  <2>2. Waiting(s) /\ req'[s] = req[s]
    BY <1>2, <1>7, <2>1 DEF Waiting, At
  <2>3. req[s].key # k /\ req[s].key \in Keys
    BY <2>1, <2>2 DEF Crowd, Waiting, At, RouterTypeOK
  <2>4. inflight[req[s].key] # NoOne /\ call[inflight[req[s].key]] # Idle
    BY <2>2 DEF CallsFit
  <2>5. inflight[req[s].key] \in Requests /\ req[inflight[req[s].key]].key = req[s].key
    BY <2>3, <2>4 DEF CallsFit, RouterTypeOK
  <2>6. inflight[req[s].key] # r
    BY <2>3, <2>5
  <2>7. QED
    BY <1>4, <2>2, <2>4, <2>5, <2>6
<1>8. ASSUME NEW j \in Keys, inflight'[j] # NoOne
      PROVE  req'[inflight'[j]].at \in {"waits", "told"} /\ req'[inflight'[j]].key = j
  <2>1. inflight[j] \in Requests
    BY <1>8 DEF RouterTypeOK
  <2>2. QED
    BY <1>3, <1>8, <2>1 DEF CallsFit
<1>9. QED
  BY <1>6, <1>7, <1>8 DEF CallsFit

\* Whoever is neither in a call nor in the table may go on.
LEMMA OutOfTable ==
  ASSUME CallsFit, NEW r \in Requests, req[r].at \notin {"waits", "told"}
  PROVE  (\A k \in Keys : inflight[k] # r) /\ call[r] = Idle
<1>1. r # NoOne
  BY RouterAssumption
<1>2. QED
  BY <1>1 DEF CallsFit, Waiting, At

\* A look into the caches joins the call for the key, or starts the only one.
LEMMA LookKeepsCalls ==
  ASSUME RouterTypeOK, CallsFit, NEW r \in Requests, NEW look, NEW new,
         LookedUp(r, look, new)
  PROVE  CallsFit'
<1> DEFINE k == req[r].key
<1>1. /\ req[r].at = "evidence" /\ k \in Keys /\ new.key = k /\ Turns(r, new)
      /\ req'[r] = new /\ \A s \in Requests \ {r} : req'[s] = req[s]
  BY TurnTyped DEF LookedUp
<1>2. (\A j \in Keys : inflight[j] # r) /\ call[r] = Idle
  BY <1>1, OutOfTable
<1>3. CASE new.at = "told" /\ UNCHANGED <<inflight, call>>
  BY <1>1, <1>2, <1>3, TurnKeepsCalls
<1>4. CASE new.at = "waits" /\ Running(k) /\ UNCHANGED <<inflight, call>>
  <2>1. inflight[k] \in Requests \ {r} /\ Waiting(inflight[k]) /\ inflight[k] # NoOne
    BY <1>1, <1>2, <1>4 DEF Running, RouterTypeOK
  <2>2. call[inflight[k]] # Idle
    <3>1. req[inflight[k]].key = k
      BY <1>1, <2>1 DEF CallsFit
    <3>2. QED
      BY <2>1, <3>1 DEF CallsFit
  <2>3. ASSUME NEW s \in Requests, call'[s] # Idle
        PROVE  Waiting(s)' /\ inflight'[req'[s].key] = s
    <3>1. s # r /\ call[s] # Idle
      BY <1>2, <1>4, <2>3
    <3>2. QED
      BY <1>1, <1>4, <3>1 DEF CallsFit, Waiting, At
  <2>4. ASSUME NEW s \in Requests, Waiting(s)'
        PROVE  inflight'[req'[s].key] # NoOne /\ call'[inflight'[req'[s].key]] # Idle
    <3>1. CASE s = r
      BY <1>1, <1>4, <2>1, <2>2, <3>1
    <3>2. CASE s # r
      BY <1>1, <1>4, <2>4, <3>2 DEF CallsFit, Waiting, At
    <3>3. QED
      BY <3>1, <3>2
  <2>5. ASSUME NEW j \in Keys, inflight'[j] # NoOne
        PROVE  req'[inflight'[j]].at \in {"waits", "told"} /\ req'[inflight'[j]].key = j
    <3>1. inflight[j] \in Requests \ {r} /\ inflight[j] # NoOne
      BY <1>2, <1>4, <2>5 DEF RouterTypeOK
    <3>2. QED
      BY <1>1, <1>4, <3>1 DEF CallsFit
  <2>6. QED
    BY <2>3, <2>4, <2>5 DEF CallsFit
<1>5. CASE /\ new.at = "waits" /\ ~Running(k)
           /\ inflight' = [inflight EXCEPT ![k] = r]
           /\ call' = [call EXCEPT ![r] = 0]
  <2>1. /\ inflight'[k] = r /\ \A j \in Keys \ {k} : inflight'[j] = inflight[j]
        /\ call'[r] = 0 /\ \A s \in Requests \ {r} : call'[s] = call[s]
    BY <1>1, <1>5 DEF RouterTypeOK
  <2>2. r # NoOne /\ 0 # Idle
    BY RouterAssumption DEF Idle
  <2>3. ASSUME NEW s \in Requests, Waiting(s) PROVE req[s].key # k /\ req[s].key \in Keys
    <3>1. inflight[req[s].key] # NoOne /\ call[inflight[req[s].key]] # Idle
          /\ req[s].key \in Keys
      BY <2>3 DEF CallsFit, Waiting, At, RouterTypeOK
    <3>2. inflight[req[s].key] \in Requests
      BY <3>1 DEF RouterTypeOK
    <3>3. Running(req[s].key)
      BY <3>1, <3>2 DEF Running, CallsFit
    <3>4. QED
      BY <1>5, <3>1, <3>3
  <2>4. ASSUME NEW s \in Requests, call'[s] # Idle
        PROVE  Waiting(s)' /\ inflight'[req'[s].key] = s
    <3>1. CASE s = r
      BY <1>1, <1>5, <2>1, <3>1 DEF Waiting, At
    <3>2. CASE s # r
      <4>1. Waiting(s) /\ inflight[req[s].key] = s /\ req'[s] = req[s]
        BY <1>1, <2>1, <2>4, <3>2 DEF CallsFit
      <4>2. QED
        BY <2>1, <2>3, <4>1 DEF Waiting, At
    <3>3. QED
      BY <3>1, <3>2
  <2>5. ASSUME NEW s \in Requests, Waiting(s)'
        PROVE  inflight'[req'[s].key] # NoOne /\ call'[inflight'[req'[s].key]] # Idle
    <3>1. CASE s = r
      BY <1>1, <2>1, <2>2, <3>1
    <3>2. CASE s # r
      <4>1. Waiting(s) /\ req'[s] = req[s]
        BY <1>1, <2>5, <3>2 DEF Waiting, At
      <4>2. inflight[req[s].key] # NoOne /\ call[inflight[req[s].key]] # Idle
        BY <4>1 DEF CallsFit
      <4>3. inflight'[req[s].key] = inflight[req[s].key] /\ inflight[req[s].key] \in Requests \ {r}
        BY <1>2, <2>1, <2>3, <4>1, <4>2 DEF RouterTypeOK
      <4>4. QED
        BY <2>1, <4>1, <4>2, <4>3
    <3>3. QED
      BY <3>1, <3>2
  <2>6. ASSUME NEW j \in Keys, inflight'[j] # NoOne
        PROVE  req'[inflight'[j]].at \in {"waits", "told"} /\ req'[inflight'[j]].key = j
    <3>1. CASE j = k
      BY <1>1, <1>5, <2>1, <3>1
    <3>2. CASE j # k
      <4>1. inflight'[j] = inflight[j] /\ inflight[j] \in Requests \ {r}
        BY <1>2, <2>1, <2>6, <3>2 DEF RouterTypeOK
      <4>2. QED
        BY <1>1, <2>6, <4>1 DEF CallsFit
    <3>3. QED
      BY <3>1, <3>2
  <2>7. QED
    BY <2>4, <2>5, <2>6 DEF CallsFit
<1>6. QED
  BY <1>3, <1>4, <1>5 DEF LookedUp

LEMMA StepKeepsCalls ==
  ASSUME RouterTypeOK, CallsFit, [Next]_vars
  PROVE  CallsFit'
<1>1. CASE UNCHANGED <<inflight, call, req>>
  BY <1>1 DEF CallsFit, Waiting, At
<1>2. ASSUME NEW r \in Requests, NEW new, Turns(r, new), new.at # "waits",
             req[r].at \notin {"waits", "told"}, UNCHANGED <<inflight, call>>
      PROVE  CallsFit'
  BY <1>2, OutOfTable, TurnKeepsCalls
<1>3. ASSUME NEW r \in Requests, NEW kind \in Kinds, Refuse(r, kind) PROVE CallsFit'
  <2>1. Turns(r, Gone("over")) /\ Gone("over").at = "over"
    BY <1>3, RefuseTurns
  <2>2. QED
    BY <1>2, <1>3, <2>1 DEF Refuse, At
<1>4. ASSUME NEW r \in Requests, NEW kind \in Kinds, NEW k \in Keys, Accept(r, kind, k)
      PROVE  CallsFit'
  <2>1. Turns(r, LetIn(kind, k)) /\ LetIn(kind, k).at # "waits"
    BY <1>4, AcceptTurns
  <2>2. QED
    BY <1>2, <1>4, <2>1 DEF Accept, At
<1>5. ASSUME NEW r \in Requests, NoKey(r) \/ NoEvidence(r) PROVE CallsFit'
  <2>1. Ends(r)
    BY <1>5 DEF NoKey, NoEvidence
  <2>2. Turns(r, Gone("over"))
    BY <2>1, EndsTurns
  <2>3. Gone("over").at = "over"
    BY GoneTyped DEF Places
  <2>4. QED
    BY <1>2, <1>5, <2>2, <2>3 DEF NoKey, NoEvidence, At
<1>6. ASSUME NEW r \in Requests, Gather(r) PROVE CallsFit'
  <2>1. req[r].key \in Keys
    BY <1>6 DEF Gather, At, RouterTypeOK
  <2>2. Turns(r, Moved(r, "evidence"))
    BY <1>6, <2>1, MoveTurns DEF Gather, Places
  <2>3. Moved(r, "evidence").at = "evidence"
    BY DEF Moved, RouterTypeOK, Questions
  <2>4. QED
    BY <1>2, <1>6, <2>2, <2>3 DEF Gather, At
<1>7. ASSUME NEW r \in Requests, LookUp(r) PROVE CallsFit'
  BY <1>7, LookUpTurns, LookKeepsCalls
<1>8. ASSUME NEW r \in Requests, Raise(r) \/ RefuseStub(r) \/ Unblended(r) \/ Serve(r)
      PROVE  CallsFit'
  <2>1. Ends(r)
    BY <1>8 DEF Raise, RefuseStub, Unblended, Serve
  <2>2. Turns(r, Gone("over"))
    BY <2>1, EndsTurns
  <2>3. Gone("over").at = "over"
    BY GoneTyped DEF Places
  <2>4. inflight' = Released(r) /\ req[r].at = "told" /\ UNCHANGED call
    BY <1>8 DEF Raise, RefuseStub, Unblended, Serve, At
  <2>5. QED
    BY <2>2, <2>3, <2>4, TurnKeepsCalls
<1>9. ASSUME NEW r \in Requests, NEW opinion, call[r] # Idle, Answer(r, opinion),
             UNCHANGED inflight
      PROVE  CallsFit'
  BY <1>9, AnswerKeepsCalls
<1>10. ASSUME NEW r \in Requests, NEW stub \in BOOLEAN,
              ShortCircuit(r) \/ GiveUp(r) \/ Opine(r, stub) \/ Unkeyed(r) \/ Break(r)
       PROVE  CallsFit'
  <2>1. UNCHANGED inflight /\ \E opinion : Answer(r, opinion)
    BY <1>10 DEF ShortCircuit, GiveUp, Opine, Unkeyed, Conclude, Break
  <2>2. call[r] # Idle
    BY <1>10, RouterAssumption DEF ShortCircuit, GiveUp, Opine, Unkeyed, Conclude, Break, Idle
  <2>3. QED
    BY <1>9, <2>1, <2>2
<1>11. ASSUME NEW r \in Requests, Dial(r) \/ Redial(r) PROVE CallsFit'
  <2>1. /\ call'[r] # Idle /\ call[r] # Idle
        /\ \A s \in Requests \ {r} : call'[s] = call[s]
    BY <1>11, RouterAssumption DEF Dial, Redial, Idle, RouterTypeOK
  <2>2. UNCHANGED <<inflight, req>>
    BY <1>11 DEF Dial, Redial
  <2>3. \A s \in Requests : call'[s] # Idle <=> call[s] # Idle
    BY <2>1
  <2>4. ASSUME NEW s \in Requests, Waiting(s) PROVE inflight[req[s].key] \in Requests
    <3>1. req[s].key \in Keys
      BY <2>4 DEF Waiting, At, RouterTypeOK
    <3>2. inflight[req[s].key] # NoOne
      BY <2>4 DEF CallsFit
    <3>3. QED
      BY <3>1, <3>2 DEF RouterTypeOK
  <2>5. QED
    BY <2>2, <2>3, <2>4 DEF CallsFit, Waiting, At
<1>12. CASE Restart
  <2>1. ASSUME NEW s \in Requests PROVE ~Waiting(s)' /\ call'[s] = Idle
    <3>1. CASE s \in UnderWay
      <4>1. req'[s] = Gone("lost")
        BY <1>12, <3>1 DEF Restart
      <4>2. req'[s].at = "lost"
        BY <4>1, GoneTyped DEF Places
      <4>3. QED
        BY <1>12, <4>2 DEF Restart, Waiting, At
    <3>2. CASE s \notin UnderWay
      BY <1>12, <3>2 DEF Restart, Waiting, At, UnderWay
    <3>3. QED
      BY <3>1, <3>2
  <2>2. \A k \in Keys : inflight'[k] = NoOne
    BY <1>12 DEF Restart
  <2>3. QED
    BY <2>1, <2>2 DEF CallsFit
<1>13. UNCHANGED vars \/ Tick \/ ChangeKey => UNCHANGED <<inflight, call, req>>
  BY DEF vars, Tick, ChangeKey
<1>14. QED
  BY <1>1, <1>3, <1>4, <1>5, <1>6, <1>7, <1>8, <1>10, <1>11, <1>12, <1>13
     DEF Next, Ask, Proceed, Work

\* The questions, the table of calls and the caches are what the other proofs
\* take them for.
LEMMA RouterIsTyped == Spec => [](RouterTypeOK /\ CallsFit)
<1>1. Init => RouterTypeOK /\ CallsFit
  BY InitTyped, InitCallsFit
<1>2. (RouterTypeOK /\ CallsFit) /\ [Next]_vars => (RouterTypeOK /\ CallsFit)'
  BY StepTyped, StepKeepsCalls
<1>3. QED
  BY <1>1, <1>2, PTL DEF Spec

\* Identical questions share one call: no two calls for a key ever run at once
\* (router.py:599, AIRouter.get_insight).
THEOREM CallsAreShared == Spec => []SingleFlight
<1>1. CallsFit => SingleFlight
  BY DEF CallsFit, SingleFlight
<1>2. QED
  BY <1>1, RouterIsTyped, PTL

-----------------------------------------------------------------------------
(* Nobody waits in vain.                                                   *)

\* A document belongs to a question that was asked, and while that is under way to
\* a job; the last one of a job that is over was written, or not taken by the store.
DocumentsFit ==
  \A r \in Requests :
    /\ doc[r] # "none" =>
         req[r].at # "idle" /\ (req[r].kind = "job" \/ req[r].at \in {"over", "lost"})
    /\ doc[r] = "pending" => req[r].at # "over" \/ r \in unsaved

LEMMA InitDocumentsFit == Init => DocumentsFit
  BY DEF Init, DocumentsFit

\* A question that goes on keeps its document.
LEMMA GoingOnKeepsDocuments ==
  ASSUME RouterTypeOK, DocumentsFit, NEW r \in Requests, NEW new, Turns(r, new),
         new.kind = req[r].kind, req[r].at \notin {"over", "lost"},
         new.at \notin {"idle", "over", "lost"}, UNCHANGED docs
  PROVE  DocumentsFit'
  BY TurnTyped DEF DocumentsFit, docs

\* One that ends writes it.
LEMMA EndingKeepsDocuments ==
  ASSUME RouterTypeOK, DocumentsFit, NEW r \in UnderWay, Ends(r)
  PROVE  DocumentsFit'
<1>1. /\ req'[r] = Gone("over") /\ Gone("over").at = "over"
      /\ \A s \in Requests \ {r} : req'[s] = req[s]
  BY EndsTurns, TurnTyped DEF UnderWay
<1>2. unsaved \subseteq unsaved' /\ \A s \in Requests \ {r} : doc'[s] = doc[s]
  BY DEF Ends, Save, docs, RouterTypeOK
<1>3. CASE req[r].kind = "job"
  <2>1. doc'[r] = "ended" \/ r \in unsaved'
    BY <1>3 DEF Ends, Save, RouterTypeOK, UnderWay
  <2>2. QED
    BY <1>1, <1>2, <2>1 DEF DocumentsFit
<1>4. CASE req[r].kind # "job"
  <2>1. doc[r] = "none" /\ doc'[r] = doc[r]
    BY <1>4 DEF Ends, docs, DocumentsFit, UnderWay
  <2>2. QED
    BY <1>1, <1>2, <2>1 DEF DocumentsFit
<1>5. QED
  BY <1>3, <1>4

LEMMA StepKeepsDocuments ==
  ASSUME RouterTypeOK, CallsFit, DocumentsFit, [Next]_vars
  PROVE  DocumentsFit'
<1>1. CASE UNCHANGED <<req, docs>>
  BY <1>1 DEF DocumentsFit, docs
<1>2. ASSUME NEW r \in Requests, NEW kind \in Kinds, Refuse(r, kind) PROVE DocumentsFit'
  <2>1. req[r].at = "idle" /\ UNCHANGED <<doc, unsaved>>
    BY <1>2 DEF Refuse, At, docs
  <2>2. Turns(r, Gone("over"))
    BY <1>2, RefuseTurns
  <2>3. doc[r] = "none"
    BY <2>1 DEF DocumentsFit
  <2>4. QED
    BY <2>1, <2>2, <2>3, TurnTyped DEF DocumentsFit
<1>3. ASSUME NEW r \in Requests, NEW kind \in Kinds, NEW k \in Keys, Accept(r, kind, k)
      PROVE  DocumentsFit'
  <2>1. /\ Turns(r, LetIn(kind, k))
        /\ (kind = "job" => LetIn(kind, k).at = "gate" /\ LetIn(kind, k).kind = "job")
    BY <1>3, AcceptTurns
  <2>2. doc[r] = "none"
    BY <1>3 DEF Accept, At, DocumentsFit
  <2>3. /\ \A s \in Requests \ {r} : doc'[s] = doc[s]
        /\ (doc'[r] = "none" \/ (kind = "job" /\ doc'[r] = "pending"))
        /\ unsaved' = unsaved
    BY <1>3, <2>2 DEF Accept, RouterTypeOK
  <2>4. req'[r] = LetIn(kind, k) /\ \A s \in Requests \ {r} : req'[s] = req[s]
    BY <2>1, TurnTyped
  <2>5. QED
    BY <2>1, <2>3, <2>4 DEF DocumentsFit
<1>4. ASSUME NEW r \in Requests,
             \/ NoKey(r) \/ NoEvidence(r)
             \/ Raise(r) \/ RefuseStub(r) \/ Unblended(r) \/ Serve(r)
      PROVE  DocumentsFit'
  <2>1. Ends(r) /\ r \in UnderWay
    BY <1>4 DEF NoKey, NoEvidence, Raise, RefuseStub, Unblended, Serve, UnderWay, At
  <2>2. QED
    BY <2>1, EndingKeepsDocuments
<1>5. ASSUME NEW r \in Requests, Gather(r) PROVE DocumentsFit'
  <2>1. req[r].key \in Keys
    BY <1>5 DEF Gather, At, RouterTypeOK
  <2>2. Turns(r, Moved(r, "evidence"))
    BY <1>5, <2>1, MoveTurns DEF Gather, Places
  <2>3. /\ Moved(r, "evidence").at = "evidence"
        /\ Moved(r, "evidence").kind = req[r].kind
    BY DEF Moved, RouterTypeOK, Questions
  <2>4. QED
    BY <1>5, <2>2, <2>3, GoingOnKeepsDocuments DEF Gather, At
<1>6. ASSUME NEW r \in Requests, LookUp(r) PROVE DocumentsFit'
  <2>1. PICK look, new : LookedUp(r, look, new)
    BY <1>6, LookUpTurns
  <2>2. /\ Turns(r, new) /\ new.kind = req[r].kind /\ new.at \in {"told", "waits"}
        /\ req[r].at = "evidence"
    BY <2>1 DEF LookedUp
  <2>3. QED
    BY <1>6, <2>2, GoingOnKeepsDocuments DEF LookUp
<1>7. ASSUME NEW r \in Requests, NEW opinion, Answer(r, opinion), UNCHANGED docs
      PROVE  DocumentsFit'
  <2>1. ASSUME NEW s \in Requests
        PROVE  /\ req'[s].kind = req[s].kind
               /\ \/ req'[s].at = req[s].at
                  \/ (req'[s].at = "told" /\ req[s].at = "waits")
    <3>1. req[s] \in Questions
      BY DEF RouterTypeOK
    <3>2. CASE s \in Crowd(r)
      BY <1>7, <3>1, <3>2 DEF Answer, Questions, Crowd, Waiting, At
    <3>3. CASE s \notin Crowd(r)
      BY <1>7, <3>3 DEF Answer
    <3>4. QED
      BY <3>2, <3>3
  <2>2. UNCHANGED <<doc, unsaved>>
    BY <1>7 DEF docs
  <2>3. QED
    BY <2>1, <2>2 DEF DocumentsFit
<1>8. ASSUME NEW r \in Requests, NEW stub \in BOOLEAN,
             ShortCircuit(r) \/ GiveUp(r) \/ Opine(r, stub) \/ Unkeyed(r) \/ Break(r)
      PROVE  DocumentsFit'
  <2>1. UNCHANGED docs /\ \E opinion : Answer(r, opinion)
    BY <1>8 DEF ShortCircuit, GiveUp, Opine, Unkeyed, Conclude, Break
  <2>2. QED
    BY <1>7, <2>1
<1>9. ASSUME NEW r \in Requests, Dial(r) \/ Redial(r) PROVE DocumentsFit'
  BY <1>1, <1>9 DEF Dial, Redial
<1>10. CASE Restart
  <2>1. ASSUME NEW s \in Requests PROVE req'[s] = req[s] \/ req'[s].at = "lost"
    BY <1>10, GoneTyped DEF Restart, Places
  <2>2. UNCHANGED <<doc, unsaved>>
    BY <1>10 DEF Restart, docs
  <2>3. QED
    BY <2>1, <2>2 DEF DocumentsFit
<1>11. UNCHANGED vars \/ Tick \/ ChangeKey => UNCHANGED <<req, docs>>
  BY DEF vars, Tick, ChangeKey
<1>12. QED
  BY <1>1, <1>2, <1>3, <1>4, <1>5, <1>6, <1>8, <1>9, <1>10, <1>11
     DEF Next, Ask, Proceed, Work

\* Who waits for a call waits for one that is being made; and a job whose document
\* says pending is at work, unless it was lost with the process or the store did not
\* take its end (router.py:593, api/ai.py:748).
THEOREM WaitsForSomething == Spec => []NobodyWaitsInVain
<1>1. Init => RouterTypeOK /\ CallsFit /\ DocumentsFit
  BY InitTyped, InitCallsFit, InitDocumentsFit
<1>2. (RouterTypeOK /\ CallsFit /\ DocumentsFit) /\ [Next]_vars
        => (RouterTypeOK /\ CallsFit /\ DocumentsFit)'
  BY StepTyped, StepKeepsCalls, StepKeepsDocuments
<1>3. RouterTypeOK /\ CallsFit => WaitersHaveACall
  <2>1. SUFFICES ASSUME RouterTypeOK, CallsFit, NEW r \in Requests, Waiting(r)
                 PROVE  \E s \in Requests : call[s] # Idle /\ req[s].key = req[r].key
    BY DEF WaitersHaveACall
  <2>2. req[r].key \in Keys
    BY <2>1 DEF Waiting, At, RouterTypeOK
  <2>3. inflight[req[r].key] # NoOne /\ call[inflight[req[r].key]] # Idle
    BY <2>1 DEF CallsFit
  <2>4. inflight[req[r].key] \in Requests /\ req[inflight[req[r].key]].key = req[r].key
    BY <2>1, <2>2, <2>3 DEF RouterTypeOK, CallsFit
  <2>5. QED
    BY <2>3, <2>4
<1>4. DocumentsFit => PendingIsAtWork
  BY DEF DocumentsFit, PendingIsAtWork, UnderWay, At
<1>5. RouterTypeOK /\ CallsFit /\ DocumentsFit => NobodyWaitsInVain
  BY <1>3, <1>4 DEF NobodyWaitsInVain
<1>6. QED
  BY <1>1, <1>2, <1>5, PTL DEF Spec

-----------------------------------------------------------------------------
(* The quota.                                                              *)

\* Every question under the quota may still add a row; the last one that was let in
\* found the quota open.
QuotaFits ==
  /\ IsFiniteSet(Metered)
  /\ peak \in Nat
  /\ rows \in Nat
  /\ extra \in Nat
  /\ Limit > 0 => rows + Cardinality(Metered) <= Limit + peak - 1

LEMMA InitQuotaFits == Init => QuotaFits
<1>1. SUFFICES ASSUME Init PROVE QuotaFits
  OBVIOUS
<1>2. Metered = {}
  BY <1>1 DEF Init, Metered, UnderWay, NewRequest
<1>3. QED
  BY <1>1, <1>2, FS_EmptySet, RouterAssumption DEF Init, QuotaFits

\* A question that ends leaves no more under way.
LEMMA StopsUnderWay ==
  ASSUME RouterTypeOK, NEW r \in Requests, NEW new, Turns(r, new), new.at \in {"idle", "over", "lost"}
  PROVE  Metered' = Metered \ {r}
<1>1. req'[r] = new /\ \A s \in Requests \ {r} : req'[s] = req[s]
  BY TurnTyped
<1>2. QED
  BY <1>1 DEF Metered, UnderWay

\* One that goes on stays what it is.
LEMMA GoesOnUnderWay ==
  ASSUME RouterTypeOK, NEW r \in UnderWay, NEW new, Turns(r, new),
         new.at \notin {"idle", "over", "lost"}, new.kind = req[r].kind
  PROVE  Metered' = Metered
<1>1. req'[r] = new /\ \A s \in Requests \ {r} : req'[s] = req[s]
  BY TurnTyped DEF UnderWay
<1>2. QED
  BY <1>1 DEF Metered, UnderWay

\* Fewer under way and no more rows: the quota fits as before.
LEMMA FewerFit ==
  ASSUME QuotaFits, NEW gone, Metered' = Metered \ gone, UNCHANGED <<rows, peak>>,
         extra' \in Nat
  PROVE  QuotaFits'
<1>1. /\ IsFiniteSet(Metered')
      /\ Cardinality(Metered') <= Cardinality(Metered)
      /\ Cardinality(Metered') \in Nat /\ Cardinality(Metered) \in Nat
  BY FS_Subset, FS_CardinalityType DEF QuotaFits
<1>2. Limit \in Nat
  BY RouterAssumption
<1>3. QED
  BY <1>1, <1>2 DEF QuotaFits

\* An end under the quota, with or without a row.
LEMMA EndFits ==
  ASSUME RouterTypeOK, QuotaFits, NEW r \in Metered, Metered' = Metered \ {r},
         rows' \in {rows, rows + 1}, UNCHANGED <<extra, peak>>
  PROVE  QuotaFits'
<1>1. /\ IsFiniteSet(Metered')
      /\ Cardinality(Metered') = Cardinality(Metered) - 1
  BY FS_RemoveElement DEF QuotaFits
<1>2. Cardinality(Metered) \in Nat
  BY FS_CardinalityType DEF QuotaFits
<1>3. Limit \in Nat
  BY RouterAssumption
<1>4. rows' \in Nat /\ rows' <= rows + 1
  BY DEF QuotaFits
<1>5. QED
  BY <1>1, <1>2, <1>3, <1>4 DEF QuotaFits

\* Where there is room for a row there is room for one more under way, and a higher
\* peak leaves no less room.
LEMMA RoomForOne ==
  ASSUME NEW m \in Nat, NEW n \in Nat, NEW p \in Nat, m < Limit, p >= n + 1
  PROVE  m + (n + 1) <= Limit + p - 1
<1>1. Limit \in Nat
  BY RouterAssumption
<1>2. QED
  BY <1>1

LEMMA HigherPeak ==
  ASSUME NEW m \in Nat, NEW n \in Nat, NEW p \in Nat, NEW q \in Nat,
         m + n <= Limit + p - 1, q >= p
  PROVE  m + n <= Limit + q - 1
<1>1. Limit \in Nat
  BY RouterAssumption
<1>2. QED
  BY <1>1

LEMMA StepKeepsQuota ==
  ASSUME RouterTypeOK, CallsFit, QuotaFits, [Next]_vars
  PROVE  QuotaFits'
<1>1. CASE UNCHANGED <<req, ledger, peak>>
  BY <1>1 DEF QuotaFits, Metered, UnderWay, ledger
<1>2. ASSUME NEW r \in UnderWay, NEW new, Turns(r, new), new.kind = req[r].kind,
             new.at \notin {"idle", "over", "lost"}, UNCHANGED <<ledger, peak>>
      PROVE  QuotaFits'
  <2>1. Metered' = Metered
    BY <1>2, GoesOnUnderWay
  <2>2. QED
    BY <1>2, <2>1 DEF QuotaFits, ledger
<1>3. ASSUME NEW r \in Requests, NEW kind \in Kinds, Refuse(r, kind) PROVE QuotaFits'
  <2>1. UNCHANGED <<rows, extra, peak>>
    BY <1>3 DEF Refuse, ledger
  <2>2. Metered' = Metered \ {r}
    BY <1>3, RefuseTurns, StopsUnderWay
  <2>3. QED
    BY <2>1, <2>2, FewerFit DEF QuotaFits
<1>4. ASSUME NEW r \in Requests, NEW kind \in Kinds, NEW k \in Keys, Accept(r, kind, k)
      PROVE  QuotaFits'
  <2>1. PICK n \in Nat : n = Cardinality(Metered) /\ IsFiniteSet(Metered) /\ Limit \in Nat
    BY FS_CardinalityType, RouterAssumption DEF QuotaFits
  <2>2. rows' = rows /\ extra' = extra
    BY <1>4 DEF Accept, ledger
  <2>3. peak' = IF kind \in Gated /\ n >= peak THEN n + 1 ELSE peak
    BY <1>4, <2>1 DEF Accept
  <2>4. r \notin UnderWay /\ r \notin Metered
    BY <1>4 DEF Accept, Metered, UnderWay, At
  <2>5. Turns(r, LetIn(kind, k)) /\ (LetIn(kind, k).at # "over" => LetIn(kind, k).kind = kind)
        /\ LetIn(kind, k).at \in {"gate", "evidence", "over"}
    BY <1>4, AcceptTurns
  <2>6. req'[r] = LetIn(kind, k) /\ \A s \in Requests \ {r} : req'[s] = req[s]
    BY <2>5, TurnTyped
  <2>7. Metered' = Metered \/ (kind \in Gated /\ Metered' = Metered \cup {r})
    BY <2>4, <2>5, <2>6 DEF Metered, UnderWay
  <2>8. CASE Metered' = Metered
    <3>1. peak' \in Nat /\ peak' >= peak
      BY <2>1, <2>3 DEF QuotaFits
    <3>2. Cardinality(Metered') = n
      BY <2>1, <2>8
    <3>3. Limit > 0 => rows' + Cardinality(Metered') <= Limit + peak' - 1
      <4>1. Limit > 0 => rows + n <= Limit + peak - 1
        BY <2>1 DEF QuotaFits
      <4>2. rows \in Nat /\ peak \in Nat
        BY DEF QuotaFits
      <4>3. QED
        BY <2>2, <3>1, <3>2, <4>1, <4>2, HigherPeak
    <3>4. QED
      BY <2>1, <2>2, <2>8, <3>1, <3>3 DEF QuotaFits
  <2>9. CASE kind \in Gated /\ Metered' = Metered \cup {r}
    <3>1. peak' \in Nat /\ peak' >= n + 1
      BY <2>1, <2>3, <2>9 DEF QuotaFits
    <3>2. Limit > 0 => rows < Limit
      <4>1. ~OverQuota
        BY <1>4, <2>9 DEF Accept
      <4>2. rows \in Nat /\ extra \in Nat
        BY DEF QuotaFits
      <4>3. QED
        BY <2>1, <4>1, <4>2 DEF OverQuota
    <3>3. IsFiniteSet(Metered') /\ Cardinality(Metered') = n + 1
      BY <2>1, <2>4, <2>9, FS_AddElement
    <3>4. rows \in Nat /\ extra \in Nat /\ n \in Nat /\ Limit \in Nat
      BY <2>1 DEF QuotaFits
    <3>5. Limit > 0 => rows' + Cardinality(Metered') <= Limit + peak' - 1
      BY <2>2, <3>1, <3>2, <3>3, <3>4, RoomForOne
    <3>6. QED
      BY <2>2, <3>1, <3>3, <3>4, <3>5 DEF QuotaFits
  <2>10. QED
    BY <2>7, <2>8, <2>9
<1>5. ASSUME NEW r \in Requests,
             \/ NoKey(r) \/ NoEvidence(r)
             \/ Raise(r) \/ RefuseStub(r) \/ Unblended(r) \/ Serve(r)
      PROVE  QuotaFits'
  <2>1. Ends(r) /\ r \in UnderWay /\ UNCHANGED peak
    BY <1>5 DEF NoKey, NoEvidence, Raise, RefuseStub, Unblended, Serve, UnderWay, At
  <2>2. Metered' = Metered \ {r}
    BY <2>1, EndsTurns, StopsUnderWay DEF UnderWay
  <2>3. \/ UNCHANGED <<rows, extra>>
        \/ (req[r].kind \in Gated /\ rows' = rows + 1 /\ UNCHANGED extra)
        \/ (UNCHANGED rows /\ extra' = extra + 1)
    BY <1>5 DEF NoKey, NoEvidence, Raise, RefuseStub, Unblended, Serve, ledger
  <2>4. CASE req[r].kind \in Gated /\ rows' = rows + 1 /\ UNCHANGED extra
    BY <2>1, <2>2, <2>4, EndFits DEF Metered
  <2>5. CASE UNCHANGED rows /\ extra' \in {extra, extra + 1}
    <3>1. extra' \in Nat
      BY <2>5 DEF QuotaFits
    <3>2. QED
      BY <2>1, <2>2, <2>5, <3>1, FewerFit
  <2>6. QED
    BY <2>3, <2>4, <2>5
<1>6. ASSUME NEW r \in Requests, Gather(r) PROVE QuotaFits'
  <2>1. req[r].key \in Keys /\ r \in UnderWay
    BY <1>6 DEF Gather, At, UnderWay, RouterTypeOK
  <2>2. Turns(r, Moved(r, "evidence"))
    BY <1>6, <2>1, MoveTurns DEF Gather, Places
  <2>3. Moved(r, "evidence").at = "evidence" /\ Moved(r, "evidence").kind = req[r].kind
    BY DEF Moved, RouterTypeOK, Questions
  <2>4. QED
    BY <1>2, <1>6, <2>1, <2>2, <2>3 DEF Gather
<1>7. ASSUME NEW r \in Requests, LookUp(r) PROVE QuotaFits'
  <2>1. PICK look, new : LookedUp(r, look, new)
    BY <1>7, LookUpTurns
  <2>2. /\ Turns(r, new) /\ new.at \in {"told", "waits"} /\ new.kind = req[r].kind
        /\ r \in UnderWay
    BY <2>1 DEF LookedUp, UnderWay
  <2>3. QED
    BY <1>2, <1>7, <2>2 DEF LookUp
<1>8. ASSUME NEW r \in Requests, NEW opinion, Answer(r, opinion), UNCHANGED <<ledger, peak>>
      PROVE  QuotaFits'
  <2>1. ASSUME NEW s \in Requests
        PROVE  /\ req'[s].at \in {"idle", "over", "lost"} <=> req[s].at \in {"idle", "over", "lost"}
               /\ req'[s].kind = req[s].kind
    <3>1. req[s] \in Questions
      BY DEF RouterTypeOK
    <3>2. CASE s \in Crowd(r)
      BY <1>8, <3>1, <3>2 DEF Answer, Questions, Crowd, Waiting, At
    <3>3. CASE s \notin Crowd(r)
      BY <1>8, <3>3 DEF Answer
    <3>4. QED
      BY <3>2, <3>3
  <2>2. Metered' = Metered
    BY <2>1 DEF Metered, UnderWay
  <2>3. QED
    BY <1>8, <2>2 DEF QuotaFits, ledger
<1>9. ASSUME NEW r \in Requests, NEW stub \in BOOLEAN,
             ShortCircuit(r) \/ GiveUp(r) \/ Opine(r, stub) \/ Unkeyed(r) \/ Break(r)
      PROVE  QuotaFits'
  <2>1. UNCHANGED <<ledger, peak>> /\ \E opinion : Answer(r, opinion)
    BY <1>9 DEF ShortCircuit, GiveUp, Opine, Unkeyed, Conclude, Break
  <2>2. QED
    BY <1>8, <2>1
<1>10. CASE Restart
  <2>1. ASSUME NEW s \in Requests PROVE s \notin Metered'
    <3>1. CASE s \in UnderWay
      <4>1. req'[s].at = "lost"
        BY <1>10, <3>1, GoneTyped DEF Restart, Places
      <4>2. QED
        BY <4>1 DEF Metered, UnderWay
    <3>2. CASE s \notin UnderWay
      <4>1. req'[s] = req[s]
        BY <1>10, <3>2 DEF Restart
      <4>2. QED
        BY <3>2, <4>1 DEF Metered, UnderWay
    <3>3. QED
      BY <3>1, <3>2
  <2>2. Metered' = Metered \ Metered
    BY <2>1 DEF Metered, UnderWay
  <2>3. UNCHANGED <<rows, extra, peak>>
    BY <1>10 DEF Restart, ledger
  <2>4. QED
    BY <2>2, <2>3, FewerFit DEF QuotaFits
<1>11. UNCHANGED vars \/ Tick \/ ChangeKey \/ (\E r \in Requests : Dial(r) \/ Redial(r))
         => UNCHANGED <<req, ledger, peak>>
  BY DEF vars, Tick, ChangeKey, Dial, Redial
<1>12. QED
  BY <1>1, <1>3, <1>4, <1>5, <1>6, <1>7, <1>9, <1>10, <1>11 DEF Next, Ask, Proceed, Work

\* The daily quota, asked before a call and written after it, is overrun by the
\* questions that ask it by no more than those that were under way at once, less one
\* (quota.py:51); opinions for a forecast only take from it.
THEOREM QuotaOverrunIsBounded == Spec => []QuotaOverrun
<1>1. Init => RouterTypeOK /\ CallsFit /\ QuotaFits
  BY InitTyped, InitCallsFit, InitQuotaFits
<1>2. (RouterTypeOK /\ CallsFit /\ QuotaFits) /\ [Next]_vars
        => (RouterTypeOK /\ CallsFit /\ QuotaFits)'
  BY StepTyped, StepKeepsCalls, StepKeepsQuota
<1>3. QuotaFits => QuotaOverrun
  <2>1. SUFFICES ASSUME QuotaFits, Limit > 0 PROVE rows <= Limit + peak - 1
    BY DEF QuotaOverrun
  <2>2. Cardinality(Metered) \in Nat /\ Limit \in Nat
    BY <2>1, FS_CardinalityType, RouterAssumption DEF QuotaFits
  <2>3. QED
    BY <2>1, <2>2 DEF QuotaFits
<1>4. QED
  BY <1>1, <1>2, <1>3, PTL DEF Spec

-----------------------------------------------------------------------------
(* The caches.                                                             *)

\* An entry expires one life after its opinion was made, and the shared cache has
\* dropped what is older.
CachesFit ==
  /\ \A i \in DOMAIN local : local[i].expires = local[i].opinion.made + Ttl
  /\ \A k \in Keys : shared[k] # Nothing => shared[k].made + Ttl > now

LEMMA InitCachesFit == Init => CachesFit
  BY DEF Init, CachesFit

LEMMA TrimmedKeeps ==
  ASSUME NEW entries \in Seq(Entries)
  PROVE  \A j \in DOMAIN Trimmed(entries) :
           \E i \in DOMAIN entries : Trimmed(entries)[j] = entries[i]
<1>1. CacheSize \in Nat \ {0} /\ Len(entries) \in Nat
  BY RouterAssumption
<1>2. CASE Len(entries) <= CacheSize
  BY <1>2 DEF Trimmed
<1>3. CASE ~(Len(entries) <= CacheSize)
  <2> DEFINE from == Len(entries) - CacheSize + 1
  <2>1. Trimmed(entries) = SubSeq(entries, from, Len(entries))
    BY <1>3 DEF Trimmed
  <2>2. from \in 1..Len(entries)
    BY <1>1, <1>3
  <2> HIDE DEF from
  <2>3. /\ Len(SubSeq(entries, from, Len(entries))) = Len(entries) - from + 1
        /\ \A j \in 1..(Len(entries) - from + 1) :
             SubSeq(entries, from, Len(entries))[j] = entries[from + j - 1]
    BY <1>1, <2>2
  <2>4. DOMAIN SubSeq(entries, from, Len(entries)) = 1..(Len(entries) - from + 1)
    BY <1>1, <2>2, <2>3
  <2>5. \A j \in 1..(Len(entries) - from + 1) : from + j - 1 \in DOMAIN entries
    BY <1>1, <2>2
  <2>6. QED
    BY <2>1, <2>3, <2>4, <2>5
<1>4. QED
  BY <1>2, <1>3

\* What was made just now is put into the caches.
LEMMA PutKeepsCaches ==
  ASSUME RouterTypeOK, CachesFit, NEW k \in Keys, NEW opinion \in Opinions,
         opinion.made = now, Put(k, opinion), UNCHANGED now
  PROVE  CachesFit'
<1> DEFINE entry == [key |-> k, opinion |-> opinion, expires |-> now + Ttl]
<1>1. /\ local \in Seq(Entries) /\ entry \in Entries
      /\ entry.expires = entry.opinion.made + Ttl
  <2>1. now + Ttl \in Int
    BY RouterAssumption DEF RouterTypeOK
  <2>2. QED
    BY <2>1 DEF RouterTypeOK, Entries
<1>2. local' = IF Entry(k) = {} THEN Trimmed(Append(local, entry))
               ELSE [i \in DOMAIN local |-> IF local[i].key = k THEN entry ELSE local[i]]
  BY DEF Put
<1> HIDE DEF entry
<1>3. ASSUME NEW j \in DOMAIN local' PROVE local'[j].expires = local'[j].opinion.made + Ttl
  <2>1. local'[j] = entry \/ \E i \in DOMAIN local : local'[j] = local[i]
    <3>1. CASE Entry(k) = {}
      <4>1. /\ Append(local, entry) \in Seq(Entries)
            /\ Len(Append(local, entry)) = Len(local) + 1
        BY <1>1
      <4>2. PICK i \in DOMAIN Append(local, entry) : local'[j] = Append(local, entry)[i]
        BY <1>2, <3>1, <4>1, TrimmedKeeps
      <4>3. i \in 1..(Len(local) + 1) /\ Len(local) \in Nat
        BY <1>1, <4>1
      <4>4. i = Len(local) + 1 \/ i \in 1..Len(local)
        BY <4>3
      <4>5. Append(local, entry)[i] = entry \/ (i \in DOMAIN local /\ Append(local, entry)[i] = local[i])
        BY <1>1, <4>4
      <4>6. QED
        BY <4>2, <4>5
    <3>2. CASE Entry(k) # {}
      BY <1>2, <3>2
    <3>3. QED
      BY <3>1, <3>2
  <2>2. QED
    BY <1>1, <2>1 DEF CachesFit
<1>4. ASSUME NEW j \in Keys, shared'[j] # Nothing PROVE shared'[j].made + Ttl > now
  <2>1. shared'[j] = shared[j] \/ shared'[j] = opinion
    BY DEF Put, RouterTypeOK
  <2>2. opinion.made + Ttl > now
    BY RouterAssumption DEF RouterTypeOK
  <2>3. QED
    BY <1>4, <2>1, <2>2 DEF CachesFit
<1>5. QED
  BY <1>3, <1>4 DEF CachesFit

\* A look keeps the caches, and finds nothing that has outlived its life.
LEMMA LookKeepsCaches ==
  ASSUME RouterTypeOK, CachesFit, NEW k \in Keys, NEW look \in Lookups(k),
         local' = look.local, shared' = look.shared, UNCHANGED now
  PROVE  CachesFit' /\ (look.opinion # Nothing => look.opinion.made + Ttl >= now)
<1>1. local \in Seq(Entries) /\ shared \in [Keys -> Opinions] /\ now \in Nat /\ Ttl \in Nat
  BY RouterAssumption DEF RouterTypeOK
<1>2. ASSUME NEW i \in DOMAIN local
      PROVE  /\ RemoveAt(local, i) \in Seq(Entries)
             /\ \A j \in DOMAIN RemoveAt(local, i) :
                  RemoveAt(local, i)[j].expires = RemoveAt(local, i)[j].opinion.made + Ttl
  <2>1. RemoveAt(local, i) \in Seq(Entries)
    BY <1>1, RemovedIsCache
  <2>2. ASSUME NEW j \in DOMAIN RemoveAt(local, i)
        PROVE  RemoveAt(local, i)[j].expires = RemoveAt(local, i)[j].opinion.made + Ttl
    <3>1. PICK m \in DOMAIN local : RemoveAt(local, i)[j] = local[m]
      BY <1>1, RemovedIsCache
    <3>2. QED
      BY <3>1 DEF CachesFit
  <2>3. QED
    BY <2>1, <2>2
<1>3. CASE Live(k) # {}
  <2>1. PICK i \in Live(k) :
          look = [opinion |-> local[i].opinion, local |-> Used(i), shared |-> shared]
    BY <1>3 DEF Lookups
  <2>2. /\ i \in DOMAIN local /\ local[i] \in Entries
        /\ local[i].expires = local[i].opinion.made + Ttl /\ ~(local[i].expires < now)
    BY <1>1, <2>1 DEF Live, Entry, Expired, CachesFit
  <2>3. local[i].opinion.made + Ttl >= now
    <3>1. local[i].opinion.made \in Int
      BY <2>2 DEF Entries, Opinions
    <3>2. QED
      BY <1>1, <2>2, <3>1
  <2>4. ASSUME NEW j \in DOMAIN local' PROVE local'[j].expires = local'[j].opinion.made + Ttl
    <3> DEFINE rest == RemoveAt(local, i)
    <3>1. rest \in Seq(Entries)
          /\ \A m \in DOMAIN rest : rest[m].expires = rest[m].opinion.made + Ttl
      BY <1>2, <2>2
    <3>2. local' = Append(rest, local[i])
      BY <2>1 DEF Used
    <3> HIDE DEF rest
    <3>3. j \in 1..(Len(rest) + 1) /\ Len(rest) \in Nat
      BY <2>2, <3>1, <3>2
    <3>4. j = Len(rest) + 1 \/ j \in 1..Len(rest)
      BY <3>3
    <3>5. local'[j] = local[i] \/ (j \in DOMAIN rest /\ local'[j] = rest[j])
      BY <2>2, <3>1, <3>2, <3>4
    <3>6. QED
      BY <2>2, <3>1, <3>5
  <2>5. shared' = shared /\ look.opinion = local[i].opinion
    BY <2>1
  <2>6. QED
    BY <2>3, <2>4, <2>5 DEF CachesFit
<1>4. CASE Live(k) = {} /\ Entry(k) # {}
  <2>1. PICK i \in Entry(k), s \in {shared, [shared EXCEPT ![k] = Nothing]} :
          look = [opinion |-> Nothing, local |-> RemoveAt(local, i), shared |-> s]
    BY <1>4 DEF Lookups
  <2>2. i \in DOMAIN local /\ local' = RemoveAt(local, i) /\ look.opinion = Nothing
    BY <2>1 DEF Entry
  <2>3. \A j \in Keys : shared'[j] = Nothing \/ shared'[j] = shared[j]
    BY <1>1, <2>1
  <2>4. QED
    BY <1>2, <2>2, <2>3 DEF CachesFit
<1>5. CASE Live(k) = {} /\ Entry(k) = {}
  <2>1. PICK o \in {shared[k], Nothing} :
          look = [opinion |-> o, local |-> local, shared |-> shared]
    BY <1>5 DEF Lookups
  <2>2. look.opinion # Nothing => look.opinion = shared[k]
    BY <2>1
  <2>3. shared[k] # Nothing => shared[k].made + Ttl > now /\ shared[k].made \in Int
    BY <1>1 DEF CachesFit, Opinions
  <2>4. look.opinion # Nothing => look.opinion.made + Ttl >= now
    BY <1>1, <2>2, <2>3
  <2>5. QED
    BY <2>1, <2>4 DEF CachesFit
<1>6. QED
  BY <1>3, <1>4, <1>5

LEMMA StepKeepsCaches ==
  ASSUME RouterTypeOK, CallsFit, CachesFit, [Next]_vars
  PROVE  CachesFit'
<1>1. CASE UNCHANGED <<now, caches>>
  BY <1>1 DEF CachesFit, caches
<1>2. ASSUME NEW r \in Requests, LookUp(r) PROVE CachesFit'
  <2>1. PICK look \in Lookups(req[r].key), new \in Questions : LookedUp(r, look, new)
    BY <1>2, LookUpTurns
  <2>2. QED
    BY <1>2, <2>1, LookKeepsCaches DEF LookedUp, LookUp, world
<1>3. ASSUME NEW r \in Requests, NEW stub \in BOOLEAN, call[r] # Idle, UNCHANGED now,
             Put(req[r].key, [made |-> now, stub |-> stub])
      PROVE  CachesFit'
  <2>1. [made |-> now, stub |-> stub] \in Opinions
    BY DEF Opinions, RouterTypeOK
  <2>2. req[r].key \in Keys
    BY <1>3 DEF CallsFit, Waiting, At, RouterTypeOK
  <2>3. QED
    BY <1>3, <2>1, <2>2, PutKeepsCaches
<1>4. ASSUME NEW r \in Requests, NEW stub \in BOOLEAN,
             ShortCircuit(r) \/ GiveUp(r) \/ Opine(r, stub) \/ Unkeyed(r)
      PROVE  CachesFit'
  <2>1. \E s \in BOOLEAN : Put(req[r].key, [made |-> now, stub |-> s])
    BY <1>4 DEF ShortCircuit, GiveUp, Opine, Unkeyed, Conclude
  <2>2. call[r] # Idle
    BY <1>4, ConcludesCall, RouterAssumption DEF ShortCircuit, GiveUp, Idle
  <2>3. UNCHANGED now
    BY <1>4 DEF ShortCircuit, GiveUp, Opine, Unkeyed, Conclude, world
  <2>4. QED
    BY <1>3, <2>1, <2>2, <2>3
<1>5. CASE Tick
  <2>1. local' = local /\ now' = now + 1 /\ now \in Nat /\ Ttl \in Nat
    BY <1>5, RouterAssumption DEF Tick, RouterTypeOK
  <2>2. ASSUME NEW k \in Keys, shared'[k] # Nothing PROVE shared'[k].made + Ttl > now'
    <3>1. shared'[k] = shared[k] /\ ~Lapsed(k, now + 1) /\ shared[k] # Nothing
      BY <1>5, <2>2 DEF Tick
    <3>2. shared[k].made \in Int
      BY DEF RouterTypeOK, Opinions
    <3>3. QED
      BY <2>1, <3>1, <3>2 DEF Lapsed
  <2>3. QED
    BY <2>1, <2>2 DEF CachesFit
<1>6. CASE Restart
  <2>1. local' = <<>> /\ UNCHANGED <<shared, now>>
    BY <1>6 DEF Restart
  <2>2. QED
    BY <2>1 DEF CachesFit
<1>7. ASSUME NEW r \in Requests,
             \/ Ask(r) \/ NoKey(r) \/ Gather(r) \/ NoEvidence(r)
             \/ Raise(r) \/ RefuseStub(r) \/ Unblended(r) \/ Serve(r)
             \/ Dial(r) \/ Redial(r) \/ Break(r)
      PROVE  UNCHANGED <<now, caches>>
  BY <1>7 DEF Ask, Refuse, Accept, NoKey, Gather, NoEvidence, Raise, RefuseStub, Unblended,
     Serve, Dial, Redial, Break, world
<1>8. UNCHANGED vars \/ ChangeKey => UNCHANGED <<now, caches>>
  BY DEF vars, world, ChangeKey
<1>9. QED
  BY <1>1, <1>2, <1>4, <1>5, <1>6, <1>7, <1>8 DEF Next, Proceed, Work

\* Only a look into the caches tells a question that has its evidence anything.
LEMMA ToldByALook ==
  ASSUME RouterTypeOK, [Next]_vars, NEW r \in Requests, At(r, "evidence"),
         req'[r].at = "told"
  PROVE  LookUp(r)
<1>1. req'[r] # req[r]
  BY DEF At
<1>2. ASSUME NEW s \in Requests, NEW new, Turns(s, new), new.at # "told" PROVE FALSE
  <2>1. req'[s] = new /\ \A t \in Requests \ {s} : req'[t] = req[t]
    BY <1>2, TurnTyped
  <2>2. QED
    BY <1>1, <1>2, <2>1
<1>3. ASSUME NEW s \in Requests, NEW kind \in Kinds, Refuse(s, kind) PROVE FALSE
  <2>1. Gone("over").at # "told"
    BY GoneTyped DEF Places
  <2>2. QED
    BY <1>2, <1>3, <2>1, RefuseTurns
<1>4. ASSUME NEW s \in Requests, NEW kind \in Kinds, NEW k \in Keys, Accept(s, kind, k)
      PROVE  FALSE
  <2>1. LetIn(kind, k).at # "told" /\ Turns(s, LetIn(kind, k))
    BY <1>4, AcceptTurns
  <2>2. QED
    BY <1>2, <2>1
<1>5. ASSUME NEW s \in Requests,
             \/ NoKey(s) \/ NoEvidence(s)
             \/ Raise(s) \/ RefuseStub(s) \/ Unblended(s) \/ Serve(s)
      PROVE  FALSE
  <2>1. Ends(s)
    BY <1>5 DEF NoKey, NoEvidence, Raise, RefuseStub, Unblended, Serve
  <2>2. Gone("over").at # "told"
    BY GoneTyped DEF Places
  <2>3. QED
    BY <1>2, <2>1, <2>2, EndsTurns
<1>6. ASSUME NEW s \in Requests, Gather(s) PROVE FALSE
  <2>1. req[s].key \in Keys
    BY <1>6 DEF Gather, At, RouterTypeOK
  <2>2. Turns(s, Moved(s, "evidence"))
    BY <1>6, <2>1, MoveTurns DEF Gather, Places
  <2>3. Moved(s, "evidence").at = "evidence"
    BY DEF Moved, RouterTypeOK, Questions
  <2>4. QED
    BY <1>2, <2>2, <2>3
<1>7. ASSUME NEW s \in Requests, LookUp(s) PROVE s = r
  <2>1. PICK look, new : LookedUp(s, look, new)
    BY <1>7, LookUpTurns
  <2>2. QED
    BY <1>1, <2>1, TurnTyped DEF LookedUp
<1>8. ASSUME NEW s \in Requests, NEW opinion, Answer(s, opinion) PROVE FALSE
  <2>1. r \notin Crowd(s)
    BY DEF Crowd, Waiting, At
  <2>2. QED
    BY <1>1, <1>8, <2>1 DEF Answer
<1>9. ASSUME NEW s \in Requests, NEW stub \in BOOLEAN,
             ShortCircuit(s) \/ GiveUp(s) \/ Opine(s, stub) \/ Unkeyed(s) \/ Break(s)
      PROVE  FALSE
  <2>1. \E opinion : Answer(s, opinion)
    BY <1>9 DEF ShortCircuit, GiveUp, Opine, Unkeyed, Conclude, Break
  <2>2. QED
    BY <1>8, <2>1
<1>10. CASE Restart
  <2>1. req'[r] = Gone("lost")
    BY <1>1, <1>10 DEF Restart
  <2>2. QED
    BY <2>1, GoneTyped DEF Places
<1>11. UNCHANGED vars \/ Tick \/ ChangeKey \/ (\E s \in Requests : Dial(s) \/ Redial(s))
         => UNCHANGED req
  BY DEF vars, Tick, ChangeKey, Dial, Redial
<1>12. QED
  BY <1>1, <1>3, <1>4, <1>5, <1>6, <1>7, <1>9, <1>10, <1>11 DEF Next, Ask, Proceed, Work

\* What a question finds kept, in either cache, was made no longer ago than an entry
\* lives (router.py:467).
THEOREM KeptIsFresh == Spec => NothingStale
<1>1. Init => RouterTypeOK /\ CallsFit /\ CachesFit
  BY InitTyped, InitCallsFit, InitCachesFit
<1>2. (RouterTypeOK /\ CallsFit /\ CachesFit) /\ [Next]_vars
        => (RouterTypeOK /\ CallsFit /\ CachesFit)'
  BY StepTyped, StepKeepsCalls, StepKeepsCaches
<1>3. (RouterTypeOK /\ CallsFit /\ CachesFit) /\ [Next]_vars
        => [\A r \in Requests :
              At(r, "evidence") /\ req'[r].at = "told" =>
                req'[r].opinion.made + Ttl >= now]_vars
  <2>1. SUFFICES ASSUME RouterTypeOK, CallsFit, CachesFit, [Next]_vars, NEW r \in Requests,
                        At(r, "evidence"), req'[r].at = "told"
                 PROVE  req'[r].opinion.made + Ttl >= now
    OBVIOUS
  <2>2. LookUp(r)
    BY <2>1, ToldByALook
  <2>3. PICK look \in Lookups(req[r].key), new \in Questions : LookedUp(r, look, new)
    BY <2>1, <2>2, LookUpTurns
  <2>4. req'[r] = new
    BY <2>1, <2>3, TurnTyped DEF LookedUp
  <2>5. look.opinion # Nothing /\ new.opinion = look.opinion
    BY <2>1, <2>3, <2>4 DEF LookedUp
  <2>6. look.opinion.made + Ttl >= now
    BY <2>1, <2>2, <2>3, <2>5, LookKeepsCaches DEF LookedUp, LookUp, world
  <2>7. QED
    BY <2>4, <2>5, <2>6
<1>4. QED
  BY <1>1, <1>2, <1>3, PTL DEF Spec, NothingStale

-----------------------------------------------------------------------------
(* The circuit breaker.                                                    *)

\* A closed circuit has counted every failure in a row; an open one opened at the last
\* failure, and a half open one has rested since.
BreakerFits ==
  /\ breaker.state = "closed" =>
       breaker.failures < Threshold /\ streak.long <= breaker.failures
  /\ breaker.state # "closed" => breaker.failures >= Threshold
  /\ breaker.state = "open" => breaker.opened = streak.last
  /\ breaker.state = "half_open" => now - streak.last >= Reset

LEMMA InitBreakerFits == Init => BreakerFits
  BY RouterAssumption DEF Init, BreakerFits, Closed, NoFailure

LEMMA SuccessKeepsBreaker ==
  ASSUME Succeeded
  PROVE  BreakerFits'
  BY RouterAssumption DEF Succeeded, BreakerFits, Closed, NoFailure

LEMMA FailureKeepsBreaker ==
  ASSUME RouterTypeOK, BreakerFits, Failed, UNCHANGED now
  PROVE  BreakerFits'
<1> DEFINE n == breaker.failures + 1
<1>1. /\ breaker.failures \in Nat /\ Threshold \in Nat \ {0} /\ now \in Nat
      /\ breaker.state \in {"closed", "open", "half_open"} /\ streak.long \in Nat
  BY RouterAssumption DEF RouterTypeOK
<1>2. streak'.last = now /\ streak'.long <= streak.long + 1 /\ streak'.long \in Nat
  BY <1>1 DEF Failed
<1>3. CASE breaker.state = "half_open" \/ n >= Threshold
  <2>1. breaker' = [state |-> "open", failures |-> n, opened |-> now]
    BY <1>3 DEF Failed
  <2>2. n >= Threshold
    BY <1>1, <1>3 DEF BreakerFits
  <2>3. QED
    BY <1>2, <2>1, <2>2 DEF BreakerFits
<1>4. CASE breaker.state # "half_open" /\ ~(n >= Threshold)
  <2>1. breaker.state = "closed" /\ streak.long <= breaker.failures
    BY <1>1, <1>4 DEF BreakerFits
  <2>2. breaker' = [breaker EXCEPT !.failures = n]
    BY <1>4 DEF Failed
  <2>3. breaker'.state = "closed" /\ breaker'.failures = n /\ n < Threshold
    BY <1>1, <1>4, <2>1, <2>2 DEF RouterTypeOK
  <2>4. streak'.long <= n
    BY <1>1, <1>2, <2>1
  <2>5. QED
    BY <2>3, <2>4 DEF BreakerFits
<1>5. QED
  BY <1>3, <1>4

LEMMA StepKeepsBreaker ==
  ASSUME RouterTypeOK, BreakerFits, [Next]_vars
  PROVE  BreakerFits'
<1>1. CASE UNCHANGED <<now, breaker, streak>>
  BY <1>1 DEF BreakerFits
<1>2. ASSUME NEW r \in Requests, Dial(r) PROVE BreakerFits'
  <2>1. UNCHANGED <<now, streak>>
    BY <1>2 DEF Dial, world
  <2>2. CASE breaker.state = "open"
    <3>1. breaker' = [breaker EXCEPT !.state = "half_open"]
      BY <1>2, <2>2 DEF Dial
    <3>2. breaker'.state = "half_open" /\ breaker'.failures = breaker.failures
      BY <3>1 DEF RouterTypeOK
    <3>3. now - streak.last >= Reset
      BY <1>2, <2>2 DEF Dial, MayCall, BreakerFits
    <3>4. QED
      BY <2>1, <2>2, <3>2, <3>3 DEF BreakerFits
  <2>3. CASE breaker.state # "open"
    BY <1>1, <1>2, <2>1, <2>3 DEF Dial
  <2>4. QED
    BY <2>2, <2>3
<1>3. ASSUME NEW r \in Requests, GiveUp(r) PROVE BreakerFits'
  BY <1>3, FailureKeepsBreaker DEF GiveUp, world
<1>4. ASSUME NEW r \in Requests, NEW stub \in BOOLEAN, Opine(r, stub) \/ Unkeyed(r)
      PROVE  BreakerFits'
  BY <1>4, SuccessKeepsBreaker DEF Opine, Unkeyed, Conclude
<1>5. CASE Tick
  <2>1. now' = now + 1 /\ UNCHANGED <<breaker, streak>> /\ now \in Nat /\ Reset \in Nat
        /\ streak.last \in Nat
    BY <1>5, RouterAssumption DEF Tick, RouterTypeOK
  <2>2. now - streak.last >= Reset => now' - streak.last >= Reset
    BY <2>1
  <2>3. QED
    BY <2>1, <2>2 DEF BreakerFits
<1>6. CASE Restart
  BY <1>6, RouterAssumption DEF Restart, BreakerFits, Closed, NoFailure
<1>7. ASSUME NEW r \in Requests,
             Ask(r) \/ Proceed(r) \/ ShortCircuit(r) \/ Redial(r) \/ Break(r)
      PROVE  UNCHANGED <<now, breaker, streak>>
  BY <1>7 DEF Ask, Proceed, Refuse, Accept, NoKey, Gather, NoEvidence, LookUp, Raise,
     RefuseStub, Unblended, Serve, ShortCircuit, Redial, Break, world
<1>8. UNCHANGED vars \/ ChangeKey => UNCHANGED <<now, breaker, streak>>
  BY DEF vars, world, ChangeKey
<1>9. QED
  BY <1>1, <1>2, <1>3, <1>4, <1>5, <1>6, <1>7, <1>8 DEF Next, Work

\* Only the first attempt dials, and the circuit is asked before it.
LEMMA DialledByDial ==
  ASSUME RouterTypeOK, [Next]_vars, NEW r \in Requests, call[r] = 0, call'[r] = 1
  PROVE  Dial(r)
<1>1. call'[r] # call[r] /\ call'[r] # Idle
  BY DEF Idle
<1>2. ASSUME NEW s \in Requests, LookUp(s) PROVE FALSE
  <2>1. PICK look, new : LookedUp(s, look, new)
    BY <1>2, LookUpTurns
  <2>2. UNCHANGED call \/ call' = [call EXCEPT ![s] = 0]
    BY <2>1 DEF LookedUp
  <2>3. QED
    BY <1>1, <2>2 DEF RouterTypeOK
<1>3. ASSUME NEW s \in Requests, NEW stub \in BOOLEAN,
             ShortCircuit(s) \/ GiveUp(s) \/ Opine(s, stub) \/ Unkeyed(s) \/ Break(s)
      PROVE  FALSE
  <2>1. call' = [call EXCEPT ![s] = Idle]
    BY <1>3 DEF ShortCircuit, GiveUp, Opine, Unkeyed, Conclude, Break, Answer
  <2>2. QED
    BY <1>1, <2>1 DEF RouterTypeOK
<1>4. ASSUME NEW s \in Requests, Dial(s) PROVE s = r
  BY <1>1, <1>4 DEF Dial, RouterTypeOK
<1>5. ASSUME NEW s \in Requests, Redial(s) PROVE FALSE
  <2>1. call[s] # 0 /\ \A t \in Requests \ {s} : call'[t] = call[t]
    BY <1>5, RouterAssumption DEF Redial, RouterTypeOK
  <2>2. QED
    BY <1>1, <2>1
<1>6. ASSUME Restart PROVE FALSE
  BY <1>1, <1>6 DEF Restart
<1>7. ASSUME NEW s \in Requests,
             \/ Ask(s) \/ NoKey(s) \/ Gather(s) \/ NoEvidence(s)
             \/ Raise(s) \/ RefuseStub(s) \/ Unblended(s) \/ Serve(s)
      PROVE  UNCHANGED call
  BY <1>7 DEF Ask, Refuse, Accept, NoKey, Gather, NoEvidence, Raise, RefuseStub, Unblended, Serve
<1>8. UNCHANGED vars \/ Tick \/ ChangeKey => UNCHANGED call
  BY DEF vars, Tick, ChangeKey
<1>9. QED
  BY <1>1, <1>2, <1>3, <1>4, <1>5, <1>6, <1>7, <1>8 DEF Next, Proceed, Work

\* After as many failures in a row as trip the circuit, nobody calls the provider
\* before it has had its rest since the last of them (router.py:155).
THEOREM TrippedProviderRests == Spec => ProviderRests
<1>1. Init => RouterTypeOK /\ CallsFit /\ BreakerFits
  BY InitTyped, InitCallsFit, InitBreakerFits
<1>2. (RouterTypeOK /\ CallsFit /\ BreakerFits) /\ [Next]_vars
        => (RouterTypeOK /\ CallsFit /\ BreakerFits)'
  BY StepTyped, StepKeepsCalls, StepKeepsBreaker
<1>3. (RouterTypeOK /\ CallsFit /\ BreakerFits) /\ [Next]_vars
        => [\A r \in Requests :
              call[r] = 0 /\ call'[r] = 1 =>
                ~Tripped \/ now - streak.last >= Reset]_vars
  <2>1. SUFFICES ASSUME RouterTypeOK, BreakerFits, [Next]_vars, NEW r \in Requests,
                        call[r] = 0, call'[r] = 1, Tripped
                 PROVE  now - streak.last >= Reset
    OBVIOUS
  <2>2. MayCall
    BY <2>1, DialledByDial DEF Dial
  <2>3. breaker.state # "closed"
    <3>1. breaker.failures \in Nat /\ Threshold \in Nat /\ streak.long \in Nat
      BY <2>1, RouterAssumption DEF RouterTypeOK
    <3>2. QED
      BY <2>1, <3>1 DEF BreakerFits, Tripped
  <2>4. breaker.state \in {"open", "half_open"}
    BY <2>1, <2>3 DEF RouterTypeOK
  <2>5. QED
    BY <2>1, <2>2, <2>4 DEF MayCall, BreakerFits
<1>4. QED
  BY <1>1, <1>2, <1>3, PTL DEF Spec, ProviderRests

=============================================================================
