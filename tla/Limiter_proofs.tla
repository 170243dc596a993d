--------------------------- MODULE Limiter_proofs ---------------------------
(***************************************************************************)
(* The safety properties of the limiter for any set of requests and any    *)
(* configuration values.  The inductive invariant is the conjunction of    *)
(* the type invariant and three of the checked invariants: `pending` stays *)
(* a natural number only because it counts the unused nexts, and the list  *)
(* can be started from only because it holds the waiting requests.  With   *)
(* it, every step of the limiter is a step of AdmissionControl or leaves   *)
(* it alone: the refinement.  And the list moves, in its order.            *)
(***************************************************************************)
EXTENDS Limiter, FunctionTheorems, SequenceTheorems, FiniteSetTheorems, TLAPS

Elements(js) == {js[i] : i \in 1..Len(js)}
Distinct(js) == \A i, j \in 1..Len(js) : js[i] = js[j] => i = j
Trues(f) == {r \in Requests : f[r]}
WaitingIn(f) == {r \in Requests : f[r] = "waiting"}

IInv == TypeOK /\ SlotsCounted /\ QueueIsWaiting /\ OneVerdict

-----------------------------------------------------------------------------
(* Facts about the queue package's loop                                    *)

\* The loop takes no more jobs than there are, and stops at the concurrency.
LEMMA StartableBounds ==
    ASSUME NEW js \in Seq(Requests), NEW p \in Int, concurrency \in Int
    PROVE  /\ Startable(js, p) \in 0..Len(js)
           /\ Startable(js, p) > 0 => p + Startable(js, p) <= concurrency
BY DEF Startable

\* The first k of a list of distinct jobs are k requests.
LEMMA PrefixCardinality ==
    ASSUME NEW js \in Seq(Requests), Distinct(js), NEW k \in 0..Len(js)
    PROVE  /\ IsFiniteSet({js[i] : i \in 1..k})
           /\ Cardinality({js[i] : i \in 1..k}) = k
<1> DEFINE T == {js[i] : i \in 1..k}
           f == [i \in 1..k |-> js[i]]
<1>1. f \in Bijection(1..k, T)
  <2>1. f \in [1..k -> T]
    OBVIOUS
  <2>2. \A a, b \in 1..k : f[a] = f[b] => a = b
    BY DEF Distinct
  <2>3. \A t \in T : \E i \in 1..k : f[i] = t
    OBVIOUS
  <2> QED BY <2>1, <2>2, <2>3 DEF Bijection, Injection, Surjection, IsInjective
<1>2. IsFiniteSet(1..k) /\ Cardinality(1..k) = k
  BY FS_Interval
<1> QED BY <1>1, <1>2, FS_Bijection DEF ExistsBijection

\* Queue._start: from a list that holds the waiting requests and a count of
\* the unused nexts, to such a list and such a count; the started jobs, which
\* were waiting, run with their next unused, and nothing else changes.
LEMMA StartFacts ==
    ASSUME IsFiniteSet(Requests), concurrency \in Int,
           NEW js \in Seq(Requests), NEW p \in Nat,
           NEW settled \in [Requests -> Phases], NEW used \in [Requests -> BOOLEAN],
           Distinct(js),
           Elements(js) = WaitingIn(settled),
           \A r \in Requests : used[r] => settled[r] # "waiting",
           p = Cardinality(Trues(used)),
           Start(js, p, settled, used)
    PROVE  /\ jobs' \in Seq(Requests) /\ pending' \in Nat
           /\ phase' \in [Requests -> Phases] /\ open' \in [Requests -> BOOLEAN]
           /\ Distinct(jobs')
           /\ Elements(jobs') = WaitingIn(phase')
           /\ pending' = Cardinality(Trues(open'))
           /\ \A r \in Requests :
                \/ settled[r] = "waiting" /\ phase'[r] = "running" /\ open'[r]
                \/ phase'[r] = settled[r] /\ open'[r] = used[r]
<1> DEFINE k == Startable(js, p)
           S == {js[i] : i \in 1..k}
           U == {r \in Requests : used[r]}
<1>1. k \in 0..Len(js)
  BY StartableBounds
<1> HIDE DEF k
<1>2. S \subseteq Elements(js) /\ S \subseteq Requests
      /\ \A r \in S : settled[r] = "waiting"
  BY <1>1 DEF Elements, WaitingIn
<1>3. /\ jobs' = SubSeq(js, k + 1, Len(js))
      /\ pending' = p + k
      /\ phase' = [r \in Requests |-> IF r \in S THEN "running" ELSE settled[r]]
      /\ open' = [r \in Requests |-> r \in S \/ used[r]]
  BY DEF Start, Started, k
<1>4. jobs' \in Seq(Requests) /\ Len(jobs') = Len(js) - k
      /\ \A i \in 1..Len(jobs') : jobs'[i] = js[k + i]
  <2>1. k + 1 \in Int /\ Len(js) \in Int /\ \A i \in (k + 1)..Len(js) : js[i] \in Requests
    BY <1>1
  <2>2. /\ SubSeq(js, k + 1, Len(js)) \in Seq(Requests)
        /\ Len(SubSeq(js, k + 1, Len(js))) =
             IF k + 1 <= Len(js) THEN Len(js) - (k + 1) + 1 ELSE 0
        /\ \A i \in 1..(Len(js) - (k + 1) + 1) :
             SubSeq(js, k + 1, Len(js))[i] = js[(k + 1) + i - 1]
    BY <2>1, SubSeqProperties
  <2>3. \A i \in Int : (k + 1) + i - 1 = k + i
    BY <1>1
  <2>4. Len(js) - (k + 1) + 1 = Len(js) - k
    BY <1>1
  <2>5. (IF k + 1 <= Len(js) THEN Len(js) - k ELSE 0) = Len(js) - k
    BY <1>1
  <2>6. jobs' \in Seq(Requests) /\ Len(jobs') = Len(js) - k
    BY <1>3, <2>2, <2>4, <2>5
  <2>7. ASSUME NEW i \in 1..Len(jobs')
        PROVE  jobs'[i] = js[k + i]
    <3>1. i \in 1..(Len(js) - (k + 1) + 1)
      BY <2>4, <2>6
    <3>2. SubSeq(js, k + 1, Len(js))[i] = js[(k + 1) + i - 1]
      BY <2>2, <3>1
    <3>3. (k + 1) + i - 1 = k + i
      BY <2>3
    <3> QED BY <1>3, <3>2, <3>3
  <2> QED BY <2>6, <2>7
<1>5. Distinct(jobs')
  BY <1>1, <1>4 DEF Distinct
<1>6. Elements(jobs') = Elements(js) \ S
  <2>1. ASSUME NEW i \in 1..Len(jobs')
        PROVE  jobs'[i] \in Elements(js) \ S
    <3>1. k + i \in 1..Len(js) /\ jobs'[i] = js[k + i]
      BY <1>1, <1>4
    <3>2. \A j \in 1..k : js[j] # js[k + i]
      BY <1>1, <3>1 DEF Distinct
    <3> QED BY <3>1, <3>2 DEF Elements
  <2>2. ASSUME NEW i \in 1..Len(js), js[i] \notin S
        PROVE  js[i] \in Elements(jobs')
    <3>1. i - k \in 1..Len(jobs')
      BY <1>1, <1>4, <2>2
    <3>2. jobs'[i - k] = js[i]
      BY <1>1, <1>4, <3>1
    <3> QED BY <3>1, <3>2 DEF Elements
  <2>3. Elements(jobs') \subseteq Elements(js) \ S
    BY <2>1 DEF Elements
  <2>4. ASSUME NEW x \in Elements(js) \ S
        PROVE  x \in Elements(jobs')
    <3>1. PICK i \in 1..Len(js) : x = js[i]
      BY DEF Elements
    <3> QED BY <2>2, <3>1
  <2> QED BY <2>3, <2>4
<1>7. Elements(jobs') = WaitingIn(phase')
  BY <1>2, <1>3, <1>6 DEF WaitingIn
<1>8. pending' = Cardinality(Trues(open'))
  <2>1. Trues(open') = U \cup S
    BY <1>2, <1>3 DEF Trues
  <2>2. U \cap S = {}
    BY <1>2
  <2>3. IsFiniteSet(U) /\ Cardinality(U) \in Nat
    BY FS_Subset, FS_CardinalityType
  <2>4. IsFiniteSet(S) /\ Cardinality(S) = k
    BY <1>1, PrefixCardinality
  <2>5. Cardinality(U \cup S) = p + k
    <3>1. Cardinality(U) = p
      BY DEF Trues
    <3>2. Cardinality(U \cap S) = 0
      BY <2>2, FS_EmptySet
    <3> HIDE DEF U, S
    <3>3. Cardinality(U \cup S) = Cardinality(U) + Cardinality(S) - Cardinality(U \cap S)
      BY <2>3, <2>4, FS_Union
    <3> QED BY <1>1, <2>4, <3>1, <3>2, <3>3
  <2> QED BY <1>3, <2>1, <2>5
<1>9. /\ phase' \in [Requests -> Phases] /\ open' \in [Requests -> BOOLEAN]
      /\ pending' \in Nat
  BY <1>1, <1>3 DEF Phases
<1>10. \A r \in Requests :
         \/ settled[r] = "waiting" /\ phase'[r] = "running" /\ open'[r]
         \/ phase'[r] = settled[r] /\ open'[r] = used[r]
  BY <1>2, <1>3
<1> QED BY <1>4, <1>5, <1>7, <1>8, <1>9, <1>10

-----------------------------------------------------------------------------
(* The effect of the two callers of _start                                 *)

\* What Enqueue and next1 re-establish besides the verdicts.
QueueInv ==
    /\ jobs \in Seq(Requests) /\ pending \in Nat
    /\ phase \in [Requests -> Phases] /\ open \in [Requests -> BOOLEAN]
    /\ SlotsCounted /\ QueueIsWaiting

\* In the invariant an unused next belongs to a running job.
LEMMA OpenRuns ==
    ASSUME IInv, NEW r \in Requests
    PROVE  open[r] => phase[r] = "running"
BY DEF IInv, TypeOK, OneVerdict, VerdictOK, Phases

\* The push of enqueueJob: r is full, waiting or running, and no request but
\* r and the waiting ones, which may start, is touched.
LEMMA EnqueueFacts ==
    ASSUME LimiterAssumption, IInv, NEW r \in Requests,
           phase[r] \in {"idle", "checking"}, Enqueue(r)
    PROVE  /\ QueueInv'
           /\ \/ phase'[r] \in {"full", "waiting"} /\ ~open'[r]
              \/ phase'[r] = "running" /\ open'[r]
           /\ \A x \in Requests \ {r} :
                \/ phase[x] = "waiting" /\ phase'[x] = "running" /\ open'[x]
                \/ phase'[x] = phase[x] /\ open'[x] = open[x]
<1>1. TypeOK /\ SlotsCounted /\ QueueIsWaiting
  BY DEF IInv
<1>2. \A x \in Requests : open[x] => phase[x] = "running"
  BY OpenRuns
<1>3. CASE hasCapacity
  <2> DEFINE js == Append(jobs, r)
             settled == [phase EXCEPT ![r] = "waiting"]
  <2>1. Start(js, pending, settled, open)
    BY <1>3 DEF Enqueue
  <2>2. js \in Seq(Requests) /\ Len(js) = Len(jobs) + 1 /\ js[Len(jobs) + 1] = r
        /\ \A i \in 1..Len(jobs) : js[i] = jobs[i]
    BY <1>1 DEF TypeOK
  <2>3. \A i \in 1..Len(jobs) : jobs[i] \in Requests /\ phase[jobs[i]] = "waiting"
    BY <1>1 DEF QueueIsWaiting, Waiting
  <2>4. Distinct(js)
    BY <1>1, <2>2, <2>3 DEF Distinct, QueueIsWaiting, TypeOK
  <2>5. Elements(js) = Elements(jobs) \cup {r}
    <3>1. Elements(js) \subseteq Elements(jobs) \cup {r}
      BY <1>1, <2>2 DEF Elements, TypeOK
    <3>2. Elements(jobs) \cup {r} \subseteq Elements(js)
      BY <1>1, <2>2 DEF Elements, TypeOK
    <3> QED BY <3>1, <3>2
  <2>6. Elements(js) = WaitingIn(settled)
    <3>1. Elements(jobs) = WaitingIn(phase)
      BY <1>1 DEF Elements, QueueIsWaiting, Waiting, WaitingIn
    <3>2. WaitingIn(settled) = WaitingIn(phase) \cup {r}
      BY <1>1 DEF WaitingIn, TypeOK
    <3> QED BY <2>5, <3>1, <3>2
  <2>7. settled \in [Requests -> Phases]
    BY <1>1 DEF TypeOK, Phases
  <2>8. \A x \in Requests : open[x] => settled[x] # "waiting"
    BY <1>1, <1>2 DEF TypeOK
  <2>9. IsFiniteSet(Requests) /\ concurrency \in Int /\ pending \in Nat
        /\ open \in [Requests -> BOOLEAN] /\ pending = Cardinality(Trues(open))
    BY <1>1 DEF LimiterAssumption, TypeOK, SlotsCounted, Holding, Trues
  <2> HIDE DEF js, settled
  <2>10. /\ jobs' \in Seq(Requests) /\ pending' \in Nat
         /\ phase' \in [Requests -> Phases] /\ open' \in [Requests -> BOOLEAN]
         /\ Distinct(jobs')
         /\ Elements(jobs') = WaitingIn(phase')
         /\ pending' = Cardinality(Trues(open'))
         /\ \A x \in Requests :
              \/ settled[x] = "waiting" /\ phase'[x] = "running" /\ open'[x]
              \/ phase'[x] = settled[x] /\ open'[x] = open[x]
    BY <2>1, <2>2, <2>4, <2>6, <2>7, <2>8, <2>9, StartFacts
  <2>11. QueueInv'
    BY <2>10 DEF QueueInv, SlotsCounted, Holding, QueueIsWaiting, Waiting, Elements, Distinct,
              Trues, WaitingIn
  <2>12. \A x \in Requests \ {r} : settled[x] = phase[x]
    BY <1>1 DEF settled, TypeOK
  <2>13. settled[r] = "waiting" /\ ~open[r]
    BY <1>1, <1>2 DEF settled, TypeOK
  <2> QED BY <2>10, <2>11, <2>12, <2>13
<1>4. CASE ~hasCapacity
  <2>1. phase' = [phase EXCEPT ![r] = "full"] /\ UNCHANGED <<jobs, pending, open>>
    BY <1>4 DEF Enqueue
  <2>2. QueueInv'
    BY <1>1, <2>1 DEF QueueInv, SlotsCounted, Holding, QueueIsWaiting, Waiting, TypeOK, Phases
  <2> QED BY <1>1, <1>2, <2>1, <2>2 DEF TypeOK
<1> QED BY <1>3, <1>4

\* The use of a running job's next: its slot is freed if it still has one,
\* and no request but r and the waiting ones, which may start, is touched.
LEMMA NextFacts ==
    ASSUME LimiterAssumption, IInv, NEW r \in Requests, phase[r] = "running",
           NEW status \in Statuses, NEW settled \in [Requests -> Phases],
           settled[r] # "waiting", \A x \in Requests \ {r} : settled[x] = phase[x],
           Next1(r, status, settled)
    PROVE  /\ QueueInv'
           /\ after' = IF open[r] THEN [after EXCEPT ![r] = Append(@, status)] ELSE after
           /\ phase'[r] = settled[r] /\ ~open'[r]
           /\ \A x \in Requests \ {r} :
                \/ phase[x] = "waiting" /\ phase'[x] = "running" /\ open'[x]
                \/ phase'[x] = phase[x] /\ open'[x] = open[x]
<1>1. TypeOK /\ SlotsCounted /\ QueueIsWaiting
  BY DEF IInv
<1>2. \A x \in Requests : open[x] => phase[x] = "running"
  BY OpenRuns
<1>3. CASE open[r]
  <2> DEFINE used == [open EXCEPT ![r] = FALSE]
  <2>1. Start(jobs, pending - 1, settled, used)
        /\ after' = [after EXCEPT ![r] = Append(@, status)]
    BY <1>3 DEF Next1
  <2>2. pending - 1 \in Nat /\ pending - 1 = Cardinality(Trues(used))
    <3>1. Trues(used) = Holding \ {r}
      BY <1>1 DEF Holding, TypeOK, Trues
    <3>2. IsFiniteSet(Holding) /\ r \in Holding
      BY <1>3, FS_Subset DEF LimiterAssumption, Holding
    <3>3. Cardinality(Holding \ {r}) = Cardinality(Holding) - 1 /\ IsFiniteSet(Holding \ {r})
      BY <3>2, FS_RemoveElement
    <3>4. Cardinality(Holding \ {r}) \in Nat
      BY <3>3, FS_CardinalityType
    <3> QED BY <1>1, <3>1, <3>3, <3>4 DEF SlotsCounted
  <2>3. Distinct(jobs) /\ Elements(jobs) = WaitingIn(settled)
    <3>1. Elements(jobs) = WaitingIn(phase) /\ Distinct(jobs)
      BY <1>1 DEF Distinct, Elements, QueueIsWaiting, Waiting, WaitingIn
    <3>2. WaitingIn(settled) = WaitingIn(phase)
      BY DEF WaitingIn
    <3> QED BY <3>1, <3>2
  <2>4. used \in [Requests -> BOOLEAN] /\ ~used[r] /\ \A x \in Requests \ {r} : used[x] = open[x]
    BY <1>1 DEF TypeOK
  <2>5. \A x \in Requests : used[x] => settled[x] # "waiting"
    BY <1>2, <2>4
  <2>6. IsFiniteSet(Requests) /\ concurrency \in Int /\ jobs \in Seq(Requests)
    BY <1>1 DEF LimiterAssumption, TypeOK
  <2> HIDE DEF used
  <2>7. /\ jobs' \in Seq(Requests) /\ pending' \in Nat
        /\ phase' \in [Requests -> Phases] /\ open' \in [Requests -> BOOLEAN]
        /\ Distinct(jobs')
        /\ Elements(jobs') = WaitingIn(phase')
        /\ pending' = Cardinality(Trues(open'))
        /\ \A x \in Requests :
             \/ settled[x] = "waiting" /\ phase'[x] = "running" /\ open'[x]
             \/ phase'[x] = settled[x] /\ open'[x] = used[x]
    BY <2>1, <2>2, <2>3, <2>4, <2>5, <2>6, StartFacts
  <2>8. QueueInv'
    BY <2>7 DEF QueueInv, SlotsCounted, Holding, QueueIsWaiting, Waiting, Elements, Distinct,
              Trues, WaitingIn
  <2> QED BY <1>3, <2>1, <2>4, <2>7, <2>8
<1>4. CASE ~open[r]
  <2>1. phase' = settled /\ UNCHANGED <<jobs, pending, open, after>>
    BY <1>4 DEF Next1
  <2>2. Waiting' = Waiting
    BY <2>1 DEF Waiting
  <2>3. QueueIsWaiting'
    BY <1>1, <2>1, <2>2 DEF QueueIsWaiting
  <2>4. QueueInv'
    BY <1>1, <2>1, <2>3 DEF QueueInv, SlotsCounted, Holding, TypeOK
  <2> QED BY <1>4, <2>1, <2>4
<1> QED BY <1>3, <1>4

-----------------------------------------------------------------------------
(* The inductive invariant                                                 *)

LEMMA InitIInv ==
    ASSUME LimiterAssumption, Init
    PROVE  IInv
<1>1. TypeOK
  BY DEF Init, TypeOK, Phases
<1>2. Holding = {} /\ Waiting = {}
  BY DEF Init, Holding, Waiting
<1>3. SlotsCounted
  BY <1>2, FS_EmptySet DEF Init, SlotsCounted
<1>4. QueueIsWaiting
  BY <1>2 DEF Init, QueueIsWaiting
<1>5. OneVerdict
  BY DEF Init, OneVerdict, VerdictOK
<1> QED BY <1>1, <1>3, <1>4, <1>5 DEF IInv

\* A request keeps its verdict when it stays as it is, and has none to keep
\* when it starts.
LEMMA VerdictKept ==
    ASSUME IInv, NEW x \in Requests,
           \/ phase[x] = "waiting" /\ phase'[x] = "running" /\ open'[x]
           \/ phase'[x] = phase[x] /\ open'[x] = open[x],
           after'[x] = after[x]
    PROVE  VerdictOK(x)'
BY DEF IInv, OneVerdict, VerdictOK

\* The step of a request that is pushed or found no capacity.
LEMMA EnqueueIInv ==
    ASSUME LimiterAssumption, IInv, NEW r \in Requests,
           phase[r] \in {"idle", "checking"}, Enqueue(r),
           armed' \in [Requests -> BOOLEAN], \A x \in Requests \ {r} : armed'[x] = armed[x],
           UNCHANGED <<concurrency, queued, timeout, after>>
    PROVE  IInv'
<1>1. QueueInv'
  BY EnqueueFacts
<1>2. TypeOK'
  BY <1>1 DEF IInv, TypeOK, QueueInv
<1>3. after[r] = <<>>
  BY DEF IInv, OneVerdict, VerdictOK
<1>4. VerdictOK(r)'
  <2>1. \/ phase'[r] \in {"full", "waiting"} /\ ~open'[r]
        \/ phase'[r] = "running" /\ open'[r]
    BY EnqueueFacts
  <2> QED BY <1>3, <2>1 DEF VerdictOK
<1>5. \A x \in Requests \ {r} : VerdictOK(x)'
  BY EnqueueFacts, VerdictKept
<1>6. OneVerdict'
  BY <1>3, <1>4, <1>5 DEF IInv, OneVerdict
<1> QED BY <1>1, <1>2, <1>6 DEF IInv, QueueInv

\* The step of a running job that ends or whose timer fires.
LEMMA NextIInv ==
    ASSUME LimiterAssumption, IInv, NEW r \in Requests, phase[r] = "running",
           NEW status \in Statuses, NEW settled \in [Requests -> Phases],
           \A x \in Requests \ {r} : settled[x] = phase[x],
           \/ settled[r] = "resolved" /\ status = "successful"
           \/ settled[r] = "rejected" /\ status = "error"
           \/ settled[r] = "running" /\ status = "timedout" /\ open[r] /\ armed[r],
           Next1(r, status, settled),
           UNCHANGED <<concurrency, queued, timeout, armed>>
    PROVE  IInv'
<1>1. /\ QueueInv'
      /\ after' = IF open[r] THEN [after EXCEPT ![r] = Append(@, status)] ELSE after
      /\ phase'[r] = settled[r] /\ ~open'[r]
      /\ \A x \in Requests \ {r} :
           \/ phase[x] = "waiting" /\ phase'[x] = "running" /\ open'[x]
           \/ phase'[x] = phase[x] /\ open'[x] = open[x]
  BY NextFacts
<1>2. after \in [Requests -> Seq(Statuses)] /\ after[r] \in Seq(Statuses)
  BY DEF IInv, TypeOK
<1>3. after' \in [Requests -> Seq(Statuses)]
  BY <1>1, <1>2
<1>4. TypeOK'
  BY <1>1, <1>3 DEF IInv, TypeOK, QueueInv
<1>5. after[r] = (IF open[r] THEN <<>> ELSE <<"timedout">>)
      /\ (after[r] = <<"timedout">> => armed[r])
  BY DEF IInv, OneVerdict, VerdictOK
<1>6. after'[r] = IF open[r] THEN <<status>> ELSE <<"timedout">>
  <2>1. CASE open[r]
    <3>1. after[r] = <<>> /\ after'[r] = Append(after[r], status)
      BY <1>1, <1>2, <1>5, <2>1
    <3>2. Append(<<>>, status) = <<status>>
      OBVIOUS
    <3> QED BY <2>1, <3>1, <3>2
  <2>2. CASE ~open[r]
    BY <1>1, <1>5, <2>2
  <2> QED BY <2>1, <2>2
<1>7. VerdictOK(r)' /\ (after'[r] = <<"timedout">> => armed'[r])
  BY <1>1, <1>5, <1>6 DEF VerdictOK
<1>8. ASSUME NEW x \in Requests \ {r}
      PROVE  VerdictOK(x)' /\ (after'[x] = <<"timedout">> => armed'[x])
  <2>1. after'[x] = after[x]
    BY <1>1, <1>2
  <2>2. VerdictOK(x)'
    BY <1>1, <2>1, VerdictKept
  <2> QED BY <2>1, <2>2 DEF IInv, OneVerdict
<1>9. OneVerdict'
  BY <1>7, <1>8 DEF OneVerdict
<1> QED BY <1>1, <1>4, <1>9 DEF IInv, QueueInv

\* Every step of the limiter preserves the invariant.
LEMMA StepIInv ==
    ASSUME LimiterAssumption, IInv, [Next]_vars
    PROVE  IInv'
<1>1. CASE UNCHANGED vars
  BY <1>1 DEF vars, IInv, TypeOK, SlotsCounted, Holding, QueueIsWaiting, Waiting,
              OneVerdict, VerdictOK
<1>2. CASE Configure
  <2>1. UNCHANGED <<jobs, pending, phase, armed, open, after>>
    BY <1>2 DEF Configure, SetConcurrent, SetQueued, SetTimeout
  <2>2. TypeOK'
    BY <1>2, <2>1 DEF IInv, TypeOK, Configure, SetConcurrent, SetQueued, SetTimeout
  <2> QED BY <2>1, <2>2 DEF IInv, SlotsCounted, Holding, QueueIsWaiting, Waiting,
                            OneVerdict, VerdictOK
<1>3. ASSUME NEW r \in Requests, Request(r)
      PROVE  IInv'
  <2>1. TypeOK /\ phase[r] \in Phases
    BY DEF IInv, TypeOK
  <2>2. ASSUME NEW o \in Overrides, NEW h \in HealthChecks, Limit(r, o, h)
        PROVE  IInv'
    <3>1. phase[r] = "idle" /\ UNCHANGED <<concurrency, queued, timeout, after>>
          /\ armed' = [armed EXCEPT ![r] = IF o = "none" THEN timeout ELSE o = "timer"]
      BY <2>2 DEF Limit
    <3>2. armed' \in [Requests -> BOOLEAN] /\ \A x \in Requests \ {r} : armed'[x] = armed[x]
      BY <2>1, <3>1 DEF TypeOK
    <3>3. CASE h
      <4>1. phase' = [phase EXCEPT ![r] = "checking"] /\ UNCHANGED <<jobs, pending, open>>
        BY <2>2, <3>3 DEF Limit
      <4>2. TypeOK'
        BY <2>1, <3>1, <3>2, <4>1 DEF TypeOK, Phases
      <4>3. Waiting' = Waiting /\ Holding' = Holding
        BY <2>1, <3>1, <4>1 DEF TypeOK, Waiting, Holding
      <4>4. SlotsCounted' /\ QueueIsWaiting'
        BY <4>1, <4>3 DEF IInv, SlotsCounted, QueueIsWaiting
      <4>5. after[r] = <<>> /\ ~open[r]
        BY <3>1 DEF IInv, OneVerdict, VerdictOK
      <4>6. VerdictOK(r)' /\ after'[r] # <<"timedout">>
        BY <2>1, <3>1, <4>1, <4>5 DEF TypeOK, VerdictOK
      <4>7. ASSUME NEW x \in Requests \ {r}
            PROVE  VerdictOK(x)' /\ (after'[x] = <<"timedout">> => armed'[x])
        <5>1. after'[x] = after[x] /\ phase'[x] = phase[x] /\ open'[x] = open[x]
              /\ armed'[x] = armed[x]
          BY <2>1, <3>1, <3>2, <4>1 DEF TypeOK
        <5> QED BY <5>1 DEF IInv, OneVerdict, VerdictOK
      <4>8. OneVerdict'
        BY <4>6, <4>7 DEF OneVerdict
      <4> QED BY <4>2, <4>4, <4>8 DEF IInv
    <3>4. CASE ~h
      BY <2>2, <3>1, <3>2, <3>4, EnqueueIInv DEF Limit
    <3> QED BY <3>3, <3>4
  <2>3. ASSUME NEW b \in BOOLEAN, HealthChecked(r, b)
        PROVE  IInv'
    <3>1. phase[r] = "checking" /\ UNCHANGED <<concurrency, queued, timeout, armed, after>>
      BY <2>3 DEF HealthChecked
    <3>2. CASE b
      <4>1. phase' = [phase EXCEPT ![r] = "unhealthy"] /\ UNCHANGED <<jobs, pending, open>>
        BY <2>3, <3>2 DEF HealthChecked
      <4>2. TypeOK'
        BY <2>1, <3>1, <4>1 DEF TypeOK, Phases
      <4>3. Waiting' = Waiting /\ Holding' = Holding
        BY <2>1, <3>1, <4>1 DEF TypeOK, Waiting, Holding
      <4>4. SlotsCounted' /\ QueueIsWaiting'
        BY <4>1, <4>3 DEF IInv, SlotsCounted, QueueIsWaiting
      <4>5. OneVerdict'
        BY <2>1, <3>1, <4>1 DEF TypeOK, IInv, OneVerdict, VerdictOK
      <4> QED BY <4>2, <4>4, <4>5 DEF IInv
    <3>3. CASE ~b
      BY <2>1, <2>3, <3>1, <3>3, EnqueueIInv DEF HealthChecked, TypeOK
    <3> QED BY <3>2, <3>3
  <2>4. CASE LimitFnResolves(r)
    <3> DEFINE settled == [phase EXCEPT ![r] = "resolved"]
    <3>1. settled \in [Requests -> Phases] /\ settled[r] = "resolved"
          /\ \A x \in Requests \ {r} : settled[x] = phase[x]
      BY <2>1 DEF TypeOK, Phases
    <3>2. phase[r] = "running" /\ Next1(r, "successful", settled)
          /\ UNCHANGED <<concurrency, queued, timeout, armed>>
      BY <2>4 DEF LimitFnResolves
    <3> HIDE DEF settled
    <3> QED BY <3>1, <3>2, NextIInv DEF Statuses
  <2>5. CASE LimitFnRejects(r)
    <3> DEFINE settled == [phase EXCEPT ![r] = "rejected"]
    <3>1. settled \in [Requests -> Phases] /\ settled[r] = "rejected"
          /\ \A x \in Requests \ {r} : settled[x] = phase[x]
      BY <2>1 DEF TypeOK, Phases
    <3>2. phase[r] = "running" /\ Next1(r, "error", settled)
          /\ UNCHANGED <<concurrency, queued, timeout, armed>>
      BY <2>5 DEF LimitFnRejects
    <3> HIDE DEF settled
    <3> QED BY <3>1, <3>2, NextIInv DEF Statuses
  <2>6. CASE JobTimeout(r)
    <3>1. phase[r] = "running" /\ open[r] /\ armed[r] /\ Next1(r, "timedout", phase)
          /\ UNCHANGED <<concurrency, queued, timeout, armed>>
      BY <2>6 DEF JobTimeout
    <3>2. phase \in [Requests -> Phases]
      BY <2>1 DEF TypeOK
    <3> QED BY <3>1, <3>2, NextIInv DEF Statuses
  <2> QED BY <1>3, <2>2, <2>3, <2>4, <2>5, <2>6 DEF Request
<1> QED BY <1>1, <1>2, <1>3 DEF Next

\* The queue's slot counter, its list and the verdicts reported to the hooks
\* stay right in every behaviour, for any requests and any configuration.
THEOREM Safety == Spec => [](TypeOK /\ SlotsCounted /\ QueueIsWaiting /\ OneVerdict)
<1>1. Init => IInv
  BY InitIInv, LimiterAssumption
<1>2. IInv /\ [Next]_vars => IInv'
  BY StepIInv, LimiterAssumption
<1>3. Spec => []IInv
  BY <1>1, <1>2, PTL DEF Spec
<1>4. IInv <=> TypeOK /\ SlotsCounted /\ QueueIsWaiting /\ OneVerdict
  BY DEF IInv
<1> QED BY <1>3, <1>4, PTL

-----------------------------------------------------------------------------
(* What a step may not do                                                  *)

\* Queue._start moves jobs from the list to the slots and loses none, and it
\* fills slots up to the concurrency only, from the head of the list.
LEMMA StartCounts ==
    ASSUME concurrency \in Int, NEW js \in Seq(Requests), NEW p \in Int,
           NEW settled, NEW used, Start(js, p, settled, used)
    PROVE  /\ pending' \in Int /\ Len(jobs') \in Nat
           /\ pending' + Len(jobs') = p + Len(js)
           /\ pending' # p => pending' <= concurrency
<1>1. Startable(js, p) \in 0..Len(js)
      /\ (Startable(js, p) > 0 => p + Startable(js, p) <= concurrency)
  BY StartableBounds
<1> DEFINE k == Startable(js, p)
<1> HIDE DEF k
<1>2. jobs' = SubSeq(js, k + 1, Len(js)) /\ pending' = p + k
  BY DEF Start, k
<1>3. k \in 0..Len(js) /\ (k > 0 => p + k <= concurrency)
  BY <1>1 DEF k
<1>4. Len(SubSeq(js, k + 1, Len(js))) = IF k + 1 <= Len(js) THEN Len(js) - (k + 1) + 1 ELSE 0
  <2>1. k + 1 \in Int /\ Len(js) \in Int /\ \A i \in (k + 1)..Len(js) : js[i] \in Requests
    BY <1>3
  <2> QED BY <2>1, SubSeqProperties
<1>5. Len(jobs') = Len(js) - k
  BY <1>2, <1>3, <1>4
<1>6. k \in Nat /\ Len(js) \in Nat
  BY <1>3
<1>7. pending' + Len(jobs') = p + Len(js) /\ Len(jobs') \in Nat /\ pending' \in Int
  <2>1. pending' = p + k
    BY <1>2
  <2> QED BY <2>1, <1>3, <1>5, <1>6
<1>8. pending' # p => k > 0
  BY <1>2, <1>6
<1> QED BY <1>2, <1>3, <1>7, <1>8

\* The two bounds on a step, from any state of the right type.
LEMMA StepBounds ==
    ASSUME LimiterAssumption, TypeOK, [Next]_vars
    PROVE  /\ length' > length => length' <= concurrency + queued
           /\ pending' > pending => pending' <= concurrency
<1>0. /\ concurrency \in Int /\ queued \in Int /\ jobs \in Seq(Requests) /\ pending \in Nat
      /\ Len(jobs) \in Nat
  BY DEF LimiterAssumption, TypeOK
<1>1. CASE UNCHANGED <<jobs, pending>>
  BY <1>0, <1>1 DEF length
<1>2. ASSUME NEW r \in Requests, Enqueue(r)
      PROVE  /\ length' > length => length' <= concurrency + queued
             /\ pending' > pending => pending' <= concurrency
  <2>1. CASE hasCapacity
    <3> DEFINE settled == [phase EXCEPT ![r] = "waiting"]
    <3> DEFINE js == Append(jobs, r)
    <3>1. Start(js, pending, settled, open)
      BY <1>2, <2>1 DEF Enqueue
    <3>2. js \in Seq(Requests) /\ Len(js) = Len(jobs) + 1
      BY <1>0
    <3> HIDE DEF settled, js
    <3>3. /\ pending' \in Int /\ Len(jobs') \in Nat
          /\ pending' + Len(jobs') = pending + Len(js)
          /\ pending' # pending => pending' <= concurrency
      BY <1>0, <3>1, <3>2, StartCounts
    <3> QED BY <1>0, <2>1, <3>2, <3>3 DEF length, hasCapacity
  <2>2. CASE ~hasCapacity
    BY <1>1, <1>2, <2>2 DEF Enqueue
  <2> QED BY <2>1, <2>2
<1>3. ASSUME NEW r \in Requests, NEW status, NEW settled, Next1(r, status, settled)
      PROVE  /\ length' > length => length' <= concurrency + queued
             /\ pending' > pending => pending' <= concurrency
  <2>1. CASE open[r]
    <3>1. Start(jobs, pending - 1, settled, [open EXCEPT ![r] = FALSE])
      BY <1>3, <2>1 DEF Next1
    <3>2. /\ pending' \in Int /\ Len(jobs') \in Nat
          /\ pending' + Len(jobs') = (pending - 1) + Len(jobs)
          /\ pending' # pending - 1 => pending' <= concurrency
      BY <1>0, <3>1, StartCounts
    <3> QED BY <1>0, <3>2 DEF length
  <2>2. CASE ~open[r]
    BY <1>1, <1>3, <2>2 DEF Next1
  <2> QED BY <2>1, <2>2
<1>4. CASE Configure
  BY <1>1, <1>4 DEF Configure, SetConcurrent, SetQueued, SetTimeout
<1>5. ASSUME NEW r \in Requests, Request(r)
      PROVE  \/ UNCHANGED <<jobs, pending>>
             \/ Enqueue(r)
             \/ \E status, settled : Next1(r, status, settled)
  BY <1>5 DEF Request, Limit, HealthChecked, LimitFnResolves, LimitFnRejects, JobTimeout
<1> QED BY <1>1, <1>2, <1>3, <1>4, <1>5 DEF Next, vars

\* No push exceeds the capacity and no start the concurrency in force when it happens,
\* whatever they were before the wait for the health check.
THEOREM Limits == Spec => WithinLimits
<1>1. TypeOK /\ SlotsCounted /\ SlotsCounted' /\ [Next]_vars =>
          [/\ length' > length => length' <= concurrency + queued
           /\ Cardinality(Holding') > Cardinality(Holding) => Cardinality(Holding') <= concurrency]_vars
  <2> SUFFICES ASSUME TypeOK, SlotsCounted, SlotsCounted', [Next]_vars
               PROVE  /\ length' > length => length' <= concurrency + queued
                      /\ Cardinality(Holding') > Cardinality(Holding) =>
                             Cardinality(Holding') <= concurrency
    OBVIOUS
  <2>1. length' > length => length' <= concurrency + queued
    BY StepBounds, LimiterAssumption
  <2>2. Cardinality(Holding') > Cardinality(Holding) => Cardinality(Holding') <= concurrency
    BY StepBounds, LimiterAssumption DEF SlotsCounted
  <2> QED BY <2>1, <2>2
<1>2. Spec => [](TypeOK /\ SlotsCounted)
  <2>1. TypeOK /\ SlotsCounted /\ QueueIsWaiting /\ OneVerdict => TypeOK /\ SlotsCounted
    OBVIOUS
  <2> QED BY <2>1, Safety, PTL
<1> QED BY <1>1, <1>2, PTL DEF Spec, WithinLimits
-----------------------------------------------------------------------------
(* The order of the starts, and that something is left to cause them       *)

\* The loop leaves no job on the list while all slots are free, and what it starts is a
\* prefix of the list.
LEMMA StartMoves ==
    ASSUME concurrency \in Int, NEW js \in Seq(Requests), NEW p \in Nat,
           NEW settled, NEW used, Start(js, p, settled, used)
    PROVE  /\ concurrency >= 1 /\ jobs' # <<>> => pending' # 0
           /\ Distinct(js) =>
                \A i, j \in 1..Len(js) :
                    i < j /\ ~used[js[j]] /\ open'[js[j]] => open'[js[i]]
<1> DEFINE k == Startable(js, p)
<1>1. /\ jobs' = SubSeq(js, k + 1, Len(js)) /\ pending' = p + k
      /\ open' = [r \in Requests |-> r \in {js[i] : i \in 1..k} \/ used[r]]
  BY DEF Start, Started
<1>2. k \in 0..Len(js)
  BY StartableBounds
<1>3. concurrency >= 1 /\ p + k = 0 => k = Len(js)
  BY DEF Startable
<1> HIDE DEF k
<1>4. k = Len(js) => jobs' = <<>>
  BY <1>1, SubSeqEmpty
<1>5. ASSUME Distinct(js), NEW i \in 1..Len(js), NEW j \in 1..Len(js),
             i < j, ~used[js[j]], open'[js[j]]
      PROVE  open'[js[i]]
  <2>1. js[i] \in Requests /\ js[j] \in Requests
    OBVIOUS
  <2>2. PICK m \in 1..k : js[j] = js[m]
    BY <1>1, <1>5, <2>1
  <2>3. m = j
    BY <1>2, <1>5, <2>2 DEF Distinct
  <2>4. i \in 1..k
    BY <1>2, <1>5, <2>2, <2>3
  <2> QED BY <1>1, <2>1, <2>4
<1> QED BY <1>1, <1>3, <1>4, <1>5

\* What a step does to the list: nothing, or it is started from, perhaps with one more job at
\* its end and one slot less in use.
LEMMA StepStarts ==
    ASSUME LimiterAssumption, IInv, [Next]_vars
    PROVE  \/ UNCHANGED <<jobs, pending, open>>
           \/ \E js \in Seq(Requests), p \in Nat : \E settled, used :
                /\ Start(js, p, settled, used)
                /\ Distinct(js)
                /\ Len(jobs) <= Len(js)
                /\ \A i \in 1..Len(jobs) : js[i] = jobs[i] /\ ~used[jobs[i]]
<1>1. /\ jobs \in Seq(Requests) /\ pending \in Nat /\ open \in [Requests -> BOOLEAN]
      /\ Distinct(jobs)
      /\ \A i \in 1..Len(jobs) : jobs[i] \in Requests /\ phase[jobs[i]] = "waiting"
                                 /\ ~open[jobs[i]]
  BY OpenRuns DEF IInv, TypeOK, QueueIsWaiting, Waiting, Distinct
<1> DEFINE Starts ==
      \E js \in Seq(Requests), p \in Nat : \E settled, used :
          /\ Start(js, p, settled, used)
          /\ Distinct(js)
          /\ Len(jobs) <= Len(js)
          /\ \A i \in 1..Len(jobs) : js[i] = jobs[i] /\ ~used[jobs[i]]
<1>2. ASSUME NEW r \in Requests, Enqueue(r), phase[r] # "waiting"
      PROVE  UNCHANGED <<jobs, pending, open>> \/ Starts
  <2>1. CASE hasCapacity
    <3> DEFINE js == Append(jobs, r)
               settled == [phase EXCEPT ![r] = "waiting"]
    <3>1. Start(js, pending, settled, open)
      BY <1>2, <2>1 DEF Enqueue
    <3>2. /\ js \in Seq(Requests) /\ Len(js) = Len(jobs) + 1 /\ js[Len(jobs) + 1] = r
          /\ \A i \in 1..Len(jobs) : js[i] = jobs[i]
      BY <1>1
    <3>3. Distinct(js)
      BY <1>1, <1>2, <3>2 DEF Distinct
    <3> HIDE DEF js, settled
    <3> QED BY <1>1, <3>1, <3>2, <3>3
  <2>2. CASE ~hasCapacity
    BY <1>2, <2>2 DEF Enqueue
  <2> QED BY <2>1, <2>2
<1>3. ASSUME NEW r \in Requests, NEW status, NEW settled, Next1(r, status, settled)
      PROVE  UNCHANGED <<jobs, pending, open>> \/ Starts
  <2>1. CASE open[r]
    <3> DEFINE used == [open EXCEPT ![r] = FALSE]
    <3>1. Start(jobs, pending - 1, settled, used)
      BY <1>3, <2>1 DEF Next1
    <3>2. \A i \in 1..Len(jobs) : ~used[jobs[i]]
      BY <1>1
    <3>3. pending - 1 \in Nat
      <4>1. IsFiniteSet(Holding) /\ r \in Holding
        BY <2>1, FS_Subset DEF Holding, LimiterAssumption
      <4>2. Cardinality(Holding) # 0 /\ pending = Cardinality(Holding)
        BY <4>1, FS_EmptySet DEF IInv, SlotsCounted
      <4> QED BY <1>1, <4>2
    <3> HIDE DEF used
    <3> QED BY <1>1, <3>1, <3>2, <3>3
  <2>2. CASE ~open[r]
    BY <1>3, <2>2 DEF Next1
  <2> QED BY <2>1, <2>2
<1>4. CASE Configure
  BY <1>4 DEF Configure, SetConcurrent, SetQueued, SetTimeout
<1>5. ASSUME NEW r \in Requests, Request(r)
      PROVE  \/ UNCHANGED <<jobs, pending, open>>
             \/ Enqueue(r) /\ phase[r] # "waiting"
             \/ \E status, settled : Next1(r, status, settled)
  BY <1>5 DEF Request, Limit, HealthChecked, LimitFnResolves, LimitFnRejects, JobTimeout
<1>6. CASE UNCHANGED vars
  BY <1>6 DEF vars
<1> QED BY <1>2, <1>3, <1>4, <1>5, <1>6 DEF Next

\* As long as no setting is below 1, a job on the list has another one ahead of it in a slot:
\* the list cannot be forgotten, although raising a setting starts nothing.
THEOREM Moves == Spec => []NoneStranded
<1> DEFINE Kept == (\A c \in ConcurrencyValues : c >= 1) => (jobs # <<>> => pending # 0)
<1>1. Init => Kept
  BY DEF Init
<1>2. LimiterAssumption /\ IInv /\ Kept /\ [Next]_vars => Kept'
  <2> SUFFICES ASSUME LimiterAssumption, IInv, Kept, [Next]_vars,
                      \A c \in ConcurrencyValues : c >= 1, jobs' # <<>>
               PROVE  pending' # 0
    OBVIOUS
  <2>1. concurrency \in Int /\ concurrency >= 1
    BY DEF IInv, TypeOK, LimiterAssumption
  <2> QED BY <2>1, StepStarts, StartMoves
<1>3. Spec => []IInv
  <2>1. TypeOK /\ SlotsCounted /\ QueueIsWaiting /\ OneVerdict => IInv
    BY DEF IInv
  <2> QED BY <2>1, Safety, PTL
<1>4. LimiterAssumption /\ IInv /\ Kept => NoneStranded
  <2> SUFFICES ASSUME LimiterAssumption, IInv, Kept, \A c \in ConcurrencyValues : c >= 1,
                      Waiting # {}, Holding = {}
               PROVE  FALSE
    BY DEF NoneStranded
  <2>1. jobs # <<>>
    BY DEF IInv, QueueIsWaiting
  <2>2. pending = 0
    BY FS_EmptySet DEF IInv, SlotsCounted
  <2> QED BY <2>1, <2>2
<1> HIDE DEF Kept
<1> QED BY <1>1, <1>2, <1>3, <1>4, LimiterAssumption, PTL DEF Spec

\* No waiting job overtakes another one, for any settings and however the starts come about.
THEOREM InOrder == Spec => FirstComeFirstServed
<1> DEFINE Ordered == \A i, j \in 1..Len(jobs) : i < j /\ open'[jobs[j]] => open'[jobs[i]]
<1>1. LimiterAssumption /\ IInv /\ [Next]_vars => [Ordered]_vars
  <2> SUFFICES ASSUME LimiterAssumption, IInv, [Next]_vars,
                      NEW i \in 1..Len(jobs), NEW j \in 1..Len(jobs), i < j, open'[jobs[j]]
               PROVE  open'[jobs[i]]
    OBVIOUS
  <2>1. /\ jobs \in Seq(Requests) /\ concurrency \in Int
        /\ jobs[j] \in Requests /\ ~open[jobs[j]]
    <3>1. jobs[j] \in Waiting
      BY DEF IInv, QueueIsWaiting
    <3>2. jobs[j] \in Requests /\ phase[jobs[j]] = "waiting"
      BY <3>1 DEF Waiting
    <3> QED BY <3>2, OpenRuns DEF IInv, TypeOK, LimiterAssumption
  <2>2. PICK js \in Seq(Requests), p \in Nat :
              \E settled, used :
                  /\ Start(js, p, settled, used)
                  /\ Distinct(js)
                  /\ Len(jobs) <= Len(js)
                  /\ \A m \in 1..Len(jobs) : js[m] = jobs[m] /\ ~used[jobs[m]]
    BY <2>1, StepStarts
  <2>3. i \in 1..Len(js) /\ j \in 1..Len(js)
    BY <2>1, <2>2
  <2> QED BY <2>1, <2>2, <2>3, StartMoves
<1>2. Spec => []IInv
  <2>1. TypeOK /\ SlotsCounted /\ QueueIsWaiting /\ OneVerdict => IInv
    BY DEF IInv
  <2> QED BY <2>1, Safety, PTL
<1> QED BY <1>1, <1>2, LimiterAssumption, PTL DEF Spec, FirstComeFirstServed
-----------------------------------------------------------------------------
(* The limiter implements AdmissionControl: each of its steps is, for the  *)
(* places of the requests, a step of the abstract specification or none.   *)

\* The jobs that _start has taken fit the concurrency, together with those that held a slot.
LEMMA StartFits ==
    ASSUME IsFiniteSet(Requests), concurrency \in Int,
           NEW js \in Seq(Requests), NEW p \in Nat,
           NEW settled \in [Requests -> Phases], NEW used \in [Requests -> BOOLEAN],
           Start(js, p, settled, used), pending' = Cardinality(Trues(open')),
           NEW x \in Requests, open'[x], ~used[x]
    PROVE  Cardinality(Trues(open')) <= concurrency
<1>1. x \in Started(js, p)
  BY DEF Start
<1>2. Startable(js, p) \in 0..Len(js) /\ (Startable(js, p) > 0 => p + Startable(js, p) <= concurrency)
  BY StartableBounds
<1>3. Startable(js, p) > 0
  BY <1>1, <1>2 DEF Started
<1> QED BY <1>2, <1>3 DEF Start

\* The same of a step of the limiter: a request that gets a slot when r is pushed or gives
\* its own back.
LEMMA EnqueueFits ==
    ASSUME LimiterAssumption, IInv, IInv', NEW r \in Requests, Enqueue(r),
           NEW x \in Requests, open'[x], ~open[x]
    PROVE  Cardinality(Holding') <= concurrency
<1>1. /\ phase \in [Requests -> Phases] /\ open \in [Requests -> BOOLEAN] /\ jobs \in Seq(Requests)
      /\ pending \in Nat /\ concurrency \in Int /\ IsFiniteSet(Requests)
      /\ pending' = Cardinality(Trues(open'))
  BY DEF IInv, TypeOK, SlotsCounted, Holding, Trues, LimiterAssumption
<1>2. hasCapacity
  BY DEF Enqueue
<1> DEFINE js == Append(jobs, r)
           settled == [phase EXCEPT ![r] = "waiting"]
<1>3. Start(js, pending, settled, open) /\ js \in Seq(Requests) /\ settled \in [Requests -> Phases]
  BY <1>1, <1>2 DEF Enqueue, Phases
<1> HIDE DEF js, settled
<1>4. Cardinality(Trues(open')) <= concurrency
  BY <1>1, <1>3, StartFits
<1> QED BY <1>4 DEF Holding, Trues

LEMMA NextFits ==
    ASSUME LimiterAssumption, IInv, IInv', NEW r \in Requests, open[r],
           NEW status, NEW settled \in [Requests -> Phases], Next1(r, status, settled),
           NEW x \in Requests, open'[x], x = r \/ ~open[x]
    PROVE  Cardinality(Holding') <= concurrency
<1>1. /\ open \in [Requests -> BOOLEAN] /\ jobs \in Seq(Requests)
      /\ pending \in Nat /\ concurrency \in Int /\ IsFiniteSet(Requests)
      /\ pending' = Cardinality(Trues(open'))
  BY DEF IInv, TypeOK, SlotsCounted, Holding, Trues, LimiterAssumption
<1>2. pending - 1 \in Nat
  <2>1. IsFiniteSet(Holding) /\ r \in Holding
    BY <1>1, FS_Subset DEF Holding
  <2>2. Cardinality(Holding) # 0 /\ pending = Cardinality(Holding)
    BY <2>1, FS_EmptySet DEF IInv, SlotsCounted
  <2> QED BY <1>1, <2>2
<1> DEFINE used == [open EXCEPT ![r] = FALSE]
<1>3. Start(jobs, pending - 1, settled, used) /\ used \in [Requests -> BOOLEAN] /\ ~used[x]
  BY <1>1 DEF Next1
<1> HIDE DEF used
<1>4. Cardinality(Trues(open')) <= concurrency
  BY <1>1, <1>2, <1>3, StartFits
<1> QED BY <1>4 DEF Holding, Trues

\* The refinement mapping: a request is waiting when it is on the list, holds a slot when its
\* next is unused, and has one of the five places.
PlaceRight ==
    /\ place \in [Requests -> Admission!Places]
    /\ \A x \in Requests :
         /\ place[x] = "outside" <=> phase[x] \in {"idle", "checking"}
         /\ place[x] = "refused" <=> phase[x] \in {"unhealthy", "full"}
         /\ place[x] = "waiting" <=> phase[x] = "waiting"
         /\ place[x] = "holding" <=> open[x]

LEMMA PlaceFacts == IInv => PlaceRight
<1> SUFFICES ASSUME IInv PROVE PlaceRight
  OBVIOUS
<1>1. /\ phase \in [Requests -> Phases] /\ open \in [Requests -> BOOLEAN]
      /\ \A x \in Requests : open[x] => phase[x] = "running"
  BY OpenRuns DEF IInv, TypeOK
<1>2. place \in [Requests -> Admission!Places]
  BY DEF place, Admission!Places
<1>3. ASSUME NEW x \in Requests
      PROVE  /\ place[x] = "outside" <=> phase[x] \in {"idle", "checking"}
             /\ place[x] = "refused" <=> phase[x] \in {"unhealthy", "full"}
             /\ place[x] = "waiting" <=> phase[x] = "waiting"
             /\ place[x] = "holding" <=> open[x]
  BY <1>1 DEF place, Phases
<1> QED BY <1>2, <1>3 DEF PlaceRight

LEMMA PlaceFactsNext == IInv' => PlaceRight'
BY PlaceFacts, PTL

\* A request whose phase and next stay as they are stays at its place, and one that starts
\* goes from waiting to holding.
LEMMA OthersPlaces ==
    ASSUME IInv, IInv', NEW x \in Requests,
           \/ phase[x] = "waiting" /\ phase'[x] = "running" /\ open'[x]
           \/ phase'[x] = phase[x] /\ open'[x] = open[x]
    PROVE  \/ place[x] = "waiting" /\ place'[x] = "holding"
           \/ place'[x] = place[x]
<1>1. CASE phase[x] = "waiting" /\ open'[x]
  BY <1>1, PlaceFacts, PlaceFactsNext DEF PlaceRight
<1>2. CASE phase'[x] = phase[x] /\ open'[x] = open[x]
  BY <1>2 DEF place
<1> QED BY <1>1, <1>2

\* The instance has its own name for the cardinality of its sets.
LEMMA SameCardinality == ASSUME NEW S PROVE Admission!Cardinality(S) = Cardinality(S)
BY DEF Admission!Cardinality, Cardinality

\* r goes to a new place and some waiting requests, r perhaps among them, take slots that fit.
LEMMA OccupyStep ==
    ASSUME NEW r \in Requests, NEW to \in {"waiting", "released"},
           place \in [Requests -> Admission!Places], place' \in [Requests -> Admission!Places],
           \/ place'[r] = to
           \/ to = "waiting" /\ place'[r] = "holding",
           \A x \in Requests \ {r} : \/ place[x] = "waiting" /\ place'[x] = "holding"
                                     \/ place'[x] = place[x],
           (\E x \in Requests : /\ place'[x] = "holding"
                                /\ x = r \/ place[x] # "holding")
             => Cardinality({x \in Requests : place'[x] = "holding"}) <= concurrency,
           UNCHANGED <<concurrency, queued>>
    PROVE  \E S \in SUBSET (Admission!At("waiting") \cup (IF to = "waiting" THEN {r} ELSE {})) :
               Admission!Occupy(S, [place EXCEPT ![r] = to])
<1> DEFINE now == [place EXCEPT ![r] = to]
           S == {x \in Requests : place'[x] = "holding" /\ now[x] = "waiting"}
<1>1. now[r] = to /\ \A x \in Requests \ {r} : now[x] = place[x]
  OBVIOUS
<1>2. S \subseteq Admission!At("waiting") \cup (IF to = "waiting" THEN {r} ELSE {})
  BY <1>1 DEF Admission!At
<1>3. {x \in Requests : now[x] = "holding"} \cup S = {x \in Requests : place'[x] = "holding"}
  <2>1. ASSUME NEW x \in Requests
        PROVE  now[x] = "holding" \/ x \in S <=> place'[x] = "holding"
    <3>1. CASE x = r
      BY <1>1, <3>1
    <3>2. CASE x # r
      BY <1>1, <3>2
    <3> QED BY <3>1, <3>2
  <2> QED BY <2>1
<1>4. S # {} => Cardinality({x \in Requests : now[x] = "holding"} \cup S) <= concurrency
  <2> SUFFICES ASSUME NEW x \in S PROVE Cardinality({y \in Requests : place'[y] = "holding"}) <= concurrency
    BY <1>3
  <2>1. place'[x] = "holding" /\ (x = r \/ place[x] # "holding")
    BY <1>1
  <2> QED BY <2>1
<1>5. place' = [x \in Requests |-> IF x \in S THEN "holding" ELSE now[x]]
  <2>1. ASSUME NEW x \in Requests
        PROVE  place'[x] = IF x \in S THEN "holding" ELSE now[x]
    <3>1. CASE x = r
      BY <1>1, <3>1
    <3>2. CASE x # r
      BY <1>1, <3>2
    <3> QED BY <3>1, <3>2
  <2> QED BY <2>1
<1>6. Admission!Occupy(S, now)
  <2> DEFINE T == {x \in Requests : now[x] = "holding"} \cup S
  <2>1. S # {} => Admission!Cardinality(T) <= concurrency
    BY <1>4, SameCardinality
  <2> QED BY <1>5, <2>1 DEF Admission!Occupy
<1> QED BY <1>2, <1>6

\* The list and the slots together are the admitted requests of AdmissionControl.
LEMMA AdmittedCounted ==
    ASSUME LimiterAssumption, IInv
    PROVE  Cardinality(Admission!Admitted) = length
<1>1. /\ jobs \in Seq(Requests) /\ Distinct(jobs) /\ Elements(jobs) = Waiting
      /\ IsFiniteSet(Requests) /\ pending = Cardinality(Holding)
  BY DEF IInv, TypeOK, SlotsCounted, QueueIsWaiting, Distinct, Elements, LimiterAssumption
<1>2. IsFiniteSet(Waiting) /\ Cardinality(Waiting) = Len(jobs)
  <2> DEFINE k == Len(jobs)
  <2>1. k \in 0..Len(jobs) /\ {jobs[i] : i \in 1..k} = Waiting
    BY <1>1 DEF Elements
  <2>2. IsFiniteSet({jobs[i] : i \in 1..k}) /\ Cardinality({jobs[i] : i \in 1..k}) = k
    BY <1>1, <2>1, PrefixCardinality
  <2> QED BY <2>1, <2>2
<1>3. IsFiniteSet(Holding) /\ Cardinality(Holding) \in Nat
  BY <1>1, FS_Subset, FS_CardinalityType DEF Holding
<1>4. Waiting \cap Holding = {}
  BY OpenRuns DEF Waiting, Holding
<1>5. Admission!At("waiting") = Waiting /\ Admission!At("holding") = Holding
  BY PlaceFacts DEF PlaceRight, Admission!At, Waiting, Holding
<1>6. Cardinality(Waiting \cap Holding) = 0
  BY <1>4, FS_EmptySet
<1>7. Cardinality(Waiting \cup Holding) = Len(jobs) + pending
  <2>1. Cardinality(Waiting \cup Holding)
          = Cardinality(Waiting) + Cardinality(Holding) - Cardinality(Waiting \cap Holding)
    BY <1>2, <1>3, FS_Union
  <2>2. Len(jobs) \in Nat
    BY <1>1
  <2> QED BY <1>1, <1>2, <1>3, <1>6, <2>1, <2>2
<1>8. Len(jobs) + pending = pending + Len(jobs)
  BY <1>1, <1>3
<1> QED BY <1>5, <1>7, <1>8 DEF Admission!Admitted, length
\* A push: the request is refused, or admitted where there was room for it.
LEMMA EnqueueImplements ==
    ASSUME LimiterAssumption, IInv, IInv', NEW r \in Requests,
           phase[r] \in {"idle", "checking"}, Enqueue(r), UNCHANGED <<concurrency, queued>>
    PROVE  Admission!Refuse(r) \/ Admission!Admit(r)
<1>1. /\ place \in [Requests -> Admission!Places] /\ place' \in [Requests -> Admission!Places]
      /\ place[r] = "outside" /\ ~open[r]
  BY PlaceFacts, PlaceFactsNext, OpenRuns DEF PlaceRight
<1>2. \A x \in Requests \ {r} : \/ place[x] = "waiting" /\ place'[x] = "holding"
                                \/ place'[x] = place[x]
  BY EnqueueFacts, OthersPlaces
<1>3. CASE hasCapacity
  <2>1. \/ place'[r] = "waiting"
        \/ "waiting" = "waiting" /\ place'[r] = "holding"
    <3>1. phase'[r] # "full"
      BY <1>3 DEF Enqueue, Start, IInv, TypeOK
    <3>2. phase'[r] = "waiting" \/ open'[r]
      BY <3>1, EnqueueFacts
    <3> QED BY <3>2, PlaceFactsNext DEF PlaceRight
  <2>2. ASSUME NEW x \in Requests, place'[x] = "holding", x = r \/ place[x] # "holding"
        PROVE  Cardinality({y \in Requests : place'[y] = "holding"}) <= concurrency
    <3>1. open'[x] /\ ~open[x]
      BY <1>1, <2>2, PlaceFacts, PlaceFactsNext DEF PlaceRight
    <3>2. Cardinality(Holding') <= concurrency
      BY <3>1, EnqueueFits
    <3>3. {y \in Requests : place'[y] = "holding"} = Holding'
      BY PlaceFactsNext DEF PlaceRight, Holding
    <3> QED BY <3>2, <3>3
  <2>3. \E S \in SUBSET (Admission!At("waiting") \cup (IF "waiting" = "waiting" THEN {r} ELSE {})) :
            Admission!Occupy(S, [place EXCEPT ![r] = "waiting"])
    BY <1>1, <1>2, <2>1, <2>2, OccupyStep
  <2>4. Admission!Cardinality(Admission!Admitted) < concurrency + queued
    BY <1>3, AdmittedCounted, SameCardinality DEF hasCapacity
  <2> QED BY <1>1, <2>3, <2>4 DEF Admission!Admit
<1>4. CASE ~hasCapacity
  <2>1. phase' = [phase EXCEPT ![r] = "full"] /\ open' = open
    BY <1>4 DEF Enqueue
  <2>2. place' = [place EXCEPT ![r] = "refused"]
    <3>1. phase'[r] = "full" /\ \A x \in Requests \ {r} : phase'[x] = phase[x]
      BY <2>1 DEF IInv, TypeOK
    <3>2. place'[r] = "refused"
      BY <3>1, PlaceFactsNext DEF PlaceRight
    <3>3. \A x \in Requests \ {r} : place'[x] = place[x]
      BY <2>1, <3>1 DEF place
    <3> QED BY <1>1, <3>2, <3>3
  <2> QED BY <1>1, <2>2 DEF Admission!Refuse
<1> QED BY <1>3, <1>4

\* The use of a job's next: its slot is released, or it had none and no place changes.
LEMMA NextImplements ==
    ASSUME LimiterAssumption, IInv, IInv', NEW r \in Requests, phase[r] = "running",
           NEW status \in Statuses, NEW settled \in [Requests -> Phases],
           settled[r] \in {"running", "resolved", "rejected"},
           \A x \in Requests \ {r} : settled[x] = phase[x],
           Next1(r, status, settled), UNCHANGED <<concurrency, queued>>
    PROVE  Admission!Release(r) \/ place' = place
<1>1. place \in [Requests -> Admission!Places] /\ place' \in [Requests -> Admission!Places]
  BY PlaceFacts, PlaceFactsNext DEF PlaceRight
<1>2. /\ phase'[r] = settled[r] /\ ~open'[r]
      /\ \A x \in Requests \ {r} :
           \/ phase[x] = "waiting" /\ phase'[x] = "running" /\ open'[x]
           \/ phase'[x] = phase[x] /\ open'[x] = open[x]
  BY NextFacts
<1>3. \A x \in Requests \ {r} : \/ place[x] = "waiting" /\ place'[x] = "holding"
                                \/ place'[x] = place[x]
  BY <1>2, OthersPlaces
<1>4. place'[r] = "released"
  BY <1>1, <1>2, PlaceFactsNext DEF PlaceRight, Admission!Places
<1>5. CASE open[r]
  <2>1. place[r] = "holding"
    BY <1>5, PlaceFacts DEF PlaceRight
  <2>2. ASSUME NEW x \in Requests, place'[x] = "holding", x = r \/ place[x] # "holding"
        PROVE  Cardinality({y \in Requests : place'[y] = "holding"}) <= concurrency
    <3>1. open'[x] /\ (x = r \/ ~open[x])
      BY <2>2, PlaceFacts, PlaceFactsNext DEF PlaceRight
    <3>2. Cardinality(Holding') <= concurrency
      BY <1>5, <3>1, NextFits
    <3>3. {y \in Requests : place'[y] = "holding"} = Holding'
      BY PlaceFactsNext DEF PlaceRight, Holding
    <3> QED BY <3>2, <3>3
  <2>3. \E S \in SUBSET (Admission!At("waiting") \cup (IF "released" = "waiting" THEN {r} ELSE {})) :
            Admission!Occupy(S, [place EXCEPT ![r] = "released"])
    BY <1>1, <1>3, <1>4, <2>2, OccupyStep
  <2>4. Admission!At("waiting") \cup (IF "released" = "waiting" THEN {r} ELSE {}) = Admission!At("waiting")
    OBVIOUS
  <2> QED BY <2>1, <2>3, <2>4 DEF Admission!Release
<1>6. CASE ~open[r]
  <2>1. place[r] = "released"
    BY <1>1, <1>6, PlaceFacts DEF PlaceRight, Admission!Places
  <2>2. UNCHANGED open /\ \A x \in Requests \ {r} : phase'[x] = phase[x]
    BY <1>6 DEF Next1
  <2>3. \A x \in Requests \ {r} : place'[x] = place[x]
    BY <2>2 DEF place
  <2> QED BY <1>1, <1>4, <2>1, <2>3
<1> QED BY <1>5, <1>6

\* Every step of the limiter, once more, now for the places.
LEMMA StepImplements ==
    ASSUME LimiterAssumption, IInv, IInv', [Next]_vars
    PROVE  [Admission!Next]_<<concurrency, queued, place>>
<1>1. CASE UNCHANGED vars
  BY <1>1 DEF vars, place
<1>2. CASE Configure
  <2>1. place' = place
    BY <1>2 DEF Configure, SetConcurrent, SetQueued, SetTimeout, place
  <2>2. concurrency' \in ConcurrencyValues /\ queued' \in QueuedValues
    BY DEF IInv, TypeOK
  <2> QED BY <2>1, <2>2 DEF Admission!Next, Admission!Reconfigure
<1>3. ASSUME NEW r \in Requests, Request(r)
      PROVE  [Admission!Next]_<<concurrency, queued, place>>
  <2>1. phase \in [Requests -> Phases] /\ UNCHANGED <<concurrency, queued>>
    BY <1>3 DEF IInv, TypeOK, Request, Limit, HealthChecked, LimitFnResolves, LimitFnRejects,
                JobTimeout
  <2>2. CASE phase[r] \in {"idle", "checking"} /\ Enqueue(r)
    BY <2>1, <2>2, EnqueueImplements DEF Admission!Next
  <2>3. CASE phase[r] = "idle" /\ phase' = [phase EXCEPT ![r] = "checking"] /\ open' = open
    <3>1. \A x \in Requests : place'[x] = place[x]
      BY <2>1, <2>3 DEF place
    <3>2. place' = place
      BY <3>1, PlaceFacts, PlaceFactsNext DEF PlaceRight
    <3> QED BY <2>1, <3>2
  <2>4. CASE phase[r] = "checking" /\ phase' = [phase EXCEPT ![r] = "unhealthy"] /\ open' = open
    <3>1. place[r] = "outside" /\ place'[r] = "refused"
      BY <2>1, <2>4, PlaceFacts, PlaceFactsNext DEF PlaceRight
    <3>2. \A x \in Requests \ {r} : place'[x] = place[x]
      BY <2>1, <2>4 DEF place
    <3>3. place' = [place EXCEPT ![r] = "refused"]
      BY <3>1, <3>2, PlaceFacts, PlaceFactsNext DEF PlaceRight
    <3> QED BY <2>1, <3>1, <3>3 DEF Admission!Next, Admission!Refuse
  <2>5. CASE phase[r] = "running" /\
             \E status \in Statuses, to \in {"running", "resolved", "rejected"} :
                 Next1(r, status, [phase EXCEPT ![r] = to])
    <3>1. PICK status \in Statuses, to \in {"running", "resolved", "rejected"} :
              Next1(r, status, [phase EXCEPT ![r] = to])
      BY <2>5
    <3> DEFINE settled == [phase EXCEPT ![r] = to]
    <3>2. /\ settled \in [Requests -> Phases] /\ settled[r] \in {"running", "resolved", "rejected"}
          /\ \A x \in Requests \ {r} : settled[x] = phase[x]
      BY <2>1 DEF Phases
    <3>3. Next1(r, status, settled)
      BY <3>1
    <3> HIDE DEF settled
    <3>4. Admission!Release(r) \/ place' = place
      BY <2>1, <2>5, <3>2, <3>3, NextImplements
    <3> QED BY <2>1, <3>4 DEF Admission!Next
  <2>6. \/ phase[r] \in {"idle", "checking"} /\ Enqueue(r)
        \/ phase[r] = "idle" /\ phase' = [phase EXCEPT ![r] = "checking"] /\ open' = open
        \/ phase[r] = "checking" /\ phase' = [phase EXCEPT ![r] = "unhealthy"] /\ open' = open
        \/ /\ phase[r] = "running"
           /\ \E status \in Statuses, to \in {"running", "resolved", "rejected"} :
                 Next1(r, status, [phase EXCEPT ![r] = to])
    <3>1. CASE \E o \in Overrides, h \in HealthChecks : Limit(r, o, h)
      BY <3>1 DEF Limit
    <3>2. CASE \E b \in BOOLEAN : HealthChecked(r, b)
      BY <3>2 DEF HealthChecked
    <3>3. CASE LimitFnResolves(r)
      BY <3>3 DEF LimitFnResolves, Statuses
    <3>4. CASE LimitFnRejects(r)
      BY <3>4 DEF LimitFnRejects, Statuses
    <3>5. CASE JobTimeout(r)
      <4>1. phase = [phase EXCEPT ![r] = "running"]
        BY <2>1, <3>5 DEF JobTimeout
      <4>2. phase[r] = "running" /\ Next1(r, "timedout", [phase EXCEPT ![r] = "running"])
        BY <3>5, <4>1 DEF JobTimeout
      <4> QED BY <4>2 DEF Statuses
    <3> QED BY <1>3, <3>1, <3>2, <3>3, <3>4, <3>5 DEF Request
  <2> QED BY <2>2, <2>3, <2>4, <2>5, <2>6
<1> QED BY <1>1, <1>2, <1>3 DEF Next

\* The limiter implements AdmissionControl: whatever the queue, the timers and the late answers
\* do, its callers see requests refused or admitted within the limits of that moment, slots
\* that fit, and each slot given back once.
THEOREM Implementation == Spec => ImplementsAdmission
<1>1. Init => Admission!Init
  <2> SUFFICES ASSUME Init PROVE Admission!Init
    OBVIOUS
  <2>1. place = [x \in Requests |-> "outside"]
    BY DEF Init, place
  <2> QED BY <2>1 DEF Init, Admission!Init
<1>2. IInv /\ IInv' /\ [Next]_vars => [Admission!Next]_(Admission!vars)
  BY StepImplements, LimiterAssumption DEF Admission!vars
<1>3. Spec => []IInv
  <2>1. TypeOK /\ SlotsCounted /\ QueueIsWaiting /\ OneVerdict => IInv
    BY DEF IInv
  <2> QED BY <2>1, Safety, PTL
<1> QED BY <1>1, <1>2, <1>3, PTL DEF Spec, ImplementsAdmission, Admission!Spec
=============================================================================
