------------------------------ MODULE IoProofs ------------------------------
(***************************************************************************)
(* Theorems about what the transaction layers rest on: the queue before    *)
(* the I/O drivers, and the files.                                         *)
(*                                                                         *)
(* IoQueue, for every set of jobs, every finite set of consumers and all   *)
(* positive limits.                                                        *)
(*                                                                         *)
(* FileTransfer, for every set of uploads, every content, chunk and block  *)
(* size, and any number of requests and faults: a file is published once,  *)
(* and the row describes what was published.                               *)
(***************************************************************************)
EXTENDS IoQueue, FileTransfer, FiniteSetTheorems, TLAPS

\* Leaves that are not marked SMTT are for Zenon.
USE ZenonT(90)

\* How the owner's progress, admission and the consumers go together: what the
\* other invariants need to be inductive.
Lifecycle ==
    /\ accepting <=> owner = "running"
    /\ ~accepting => pending = << >> /\ InState("waiting") = {}
    /\ owner \in {"new", "stopped"} => InState("absent") = Consumers
    /\ owner = "running" => InState("absent") = {} /\ InState("exited") = {}

Inductive ==
    TypeOK /\ OneKeeper /\ QuotaIsPending /\ NoLostWakeup /\ Lifecycle

Elements(s) == {s[i] : i \in DOMAIN s}
Distinct(s) == \A i, k \in DOMAIN s : s[i] = s[k] => i = k
-----------------------------------------------------------------------------
\* What push and pop do to the contents of the queue.
LEMMA AppendElements ==
    ASSUME NEW S, NEW s \in Seq(S), NEW x \in S
    PROVE  /\ Append(s, x) \in Seq(S)
           /\ Len(Append(s, x)) = Len(s) + 1
           /\ Elements(Append(s, x)) = Elements(s) \cup {x}
           /\ Distinct(s) /\ x \notin Elements(s) => Distinct(Append(s, x))
<1> DEFINE t == Append(s, x)
<1>1. t \in Seq(S) /\ Len(t) = Len(s) + 1 /\ Len(s) \in Nat
  BY SMTT(30)
<1>2. DOMAIN s = 1..Len(s) /\ DOMAIN t = 1..(Len(s) + 1)
  BY SMTT(30), <1>1
<1>3. \A i \in 1..Len(s) : t[i] = s[i]
  BY SMTT(30)
<1>4. t[Len(s) + 1] = x
  BY SMTT(30)
<1>5. Elements(t) = Elements(s) \cup {x}
  <2>1. ASSUME NEW y \in Elements(t) PROVE y \in Elements(s) \cup {x}
    <3>1. PICK i \in 1..(Len(s) + 1) : y = t[i]
      BY <1>2 DEF Elements
    <3>2. CASE i = Len(s) + 1
      BY <3>1, <3>2, <1>4
    <3>3. CASE i \in 1..Len(s)
      BY <3>1, <3>3, <1>2, <1>3 DEF Elements
    <3> QED BY SMTT(30), <3>1, <3>2, <3>3, <1>1
  <2>2. ASSUME NEW y \in Elements(s) PROVE y \in Elements(t)
    <3>1. PICK i \in 1..Len(s) : y = s[i]
      BY <1>2 DEF Elements
    <3>2. i \in DOMAIN t /\ t[i] = y
      BY SMTT(30), <3>1, <1>1, <1>2, <1>3
    <3> QED BY <3>2 DEF Elements
  <2>3. x \in Elements(t)
    <3>1. Len(s) + 1 \in DOMAIN t
      BY SMTT(30), <1>1, <1>2
    <3> QED BY <3>1, <1>4 DEF Elements
  <2> QED BY <2>1, <2>2, <2>3
<1>6. ASSUME Distinct(s), x \notin Elements(s) PROVE Distinct(t)
  <2>1. \A i \in 1..Len(s) : t[i] # x
    BY <1>2, <1>3, <1>6 DEF Elements
  <2> QED BY SMTT(30), <1>1, <1>2, <1>3, <1>4, <1>6, <2>1 DEF Distinct
<1> QED BY <1>1, <1>5, <1>6

\* pop() removes the first job and keeps the others in the queue.
LEMMA TailElements ==
    ASSUME NEW S, NEW s \in Seq(S), s # << >>
    PROVE  /\ Head(s) \in S /\ Tail(s) \in Seq(S)
           /\ Len(Tail(s)) = Len(s) - 1 /\ Len(s) > 0
           /\ Head(s) \in Elements(s)
           /\ Distinct(s) => /\ Elements(Tail(s)) = Elements(s) \ {Head(s)}
                             /\ Distinct(Tail(s))
<1> DEFINE t == Tail(s)
<1>1. Len(s) \in Nat /\ Len(s) > 0 /\ t \in Seq(S) /\ Len(t) = Len(s) - 1
  BY SMTT(30)
<1>2. DOMAIN s = 1..Len(s) /\ DOMAIN t = 1..(Len(s) - 1)
  BY SMTT(30), <1>1
<1>3. Head(s) = s[1] /\ \A i \in 1..(Len(s) - 1) : t[i] = s[i + 1]
  BY SMTT(30)
<1>4. Head(s) \in S /\ Head(s) \in Elements(s)
  BY SMTT(30), <1>1, <1>2, <1>3 DEF Elements
<1>5. ASSUME Distinct(s) PROVE Elements(t) = Elements(s) \ {Head(s)}
  <2>1. ASSUME NEW y \in Elements(t) PROVE y \in Elements(s) \ {Head(s)}
    <3>1. PICK i \in 1..(Len(s) - 1) : y = t[i]
      BY <1>2 DEF Elements
    <3>2. i + 1 \in DOMAIN s /\ y = s[i + 1] /\ 1 \in DOMAIN s /\ i + 1 # 1
      BY SMTT(30), <3>1, <1>1, <1>2, <1>3
    <3> QED BY <3>2, <1>3, <1>5 DEF Elements, Distinct
  <2>2. ASSUME NEW y \in Elements(s), y # Head(s) PROVE y \in Elements(t)
    <3>1. PICK i \in 1..Len(s) : y = s[i]
      BY <1>2 DEF Elements
    <3>2. i - 1 \in 1..(Len(s) - 1) /\ (i - 1) + 1 = i
      BY SMTT(30), <3>1, <2>2, <1>1, <1>3
    <3>3. t[i - 1] = y
      BY <3>1, <3>2, <1>3
    <3> QED BY <3>2, <3>3, <1>2 DEF Elements
  <2> QED BY <2>1, <2>2
<1>6. ASSUME Distinct(s) PROVE Distinct(t)
  <2>1. \A i, k \in 1..(Len(s) - 1) : s[i + 1] = s[k + 1] => i = k
    BY SMTT(30), <1>1, <1>2, <1>6 DEF Distinct
  <2> QED BY <1>2, <1>3, <2>1 DEF Distinct
<1> QED BY <1>1, <1>4, <1>5, <1>6

\* A consumer that changes its state moves between the sets InState.
LEMMA FiniteStates ==
    \A s : IsFiniteSet(InState(s)) /\ Cardinality(InState(s)) \in Nat
<1> TAKE s
<1>1. InState(s) \in SUBSET Consumers
  BY DEF InState
<1> QED BY <1>1, LimitsPositive, FS_Subset, FS_CardinalityType

\* The constructor leaves an empty queue without consumers.
LEMMA InitInductive == Init => Inductive
<1> SUFFICES ASSUME Init PROVE Inductive
  OBVIOUS
<1>1. TypeOK
  <2>1. << >> \in Seq(Jobs)
    BY SMTT(30)
  <2> QED BY <2>1, LimitsPositive DEF Init, TypeOK, OwnerStates, ConsumerStates, Outcomes
<1>2. pending = << >> /\ DOMAIN pending = {} /\ Queued = {}
  BY SMTT(30) DEF Init, Queued
<1>3. InState("waiting") = {} /\ InState("absent") = Consumers
  BY DEF Init, InState
<1>4. OneKeeper
  BY <1>2, LimitsPositive DEF Init, OneKeeper
<1>5. QuotaIsPending /\ NoLostWakeup /\ Lifecycle
  BY <1>2, <1>3 DEF Init, QuotaIsPending, NoLostWakeup, Lifecycle
<1> QED BY <1>1, <1>4, <1>5 DEF Inductive

\* begin_stop() in any state: nothing waits, nothing is queued, nothing else
\* changes.
LEMMA FlushKeeps ==
    ASSUME Inductive, CloseAndFlush, owner' \in {"closed", "joining"}
    PROVE  Inductive'
<1> USE DEF Inductive
<1>1. pending' = << >> /\ DOMAIN pending' = {} /\ Queued' = {} /\ charged' = {}
  BY SMTT(30) DEF CloseAndFlush, Queued, QuotaIsPending
<1>2. TypeOK'
  <2>1. pending' \in Seq(Jobs) /\ owner' \in OwnerStates
    BY SMTT(30), <1>1 DEF OwnerStates
  <2>2. accepting' \in BOOLEAN /\ charged' \subseteq Jobs
    BY <1>1 DEF CloseAndFlush
  <2>3. consumer' \in [Consumers -> ConsumerStates] /\ holding' \in [Consumers -> Jobs \cup {NoJob}]
    BY DEF TypeOK, CloseAndFlush, ConsumerStates
  <2>4. outcome' \in [Jobs -> Outcomes]
    BY DEF TypeOK, CloseAndFlush, Outcomes
  <2> QED BY <2>1, <2>2, <2>3, <2>4 DEF TypeOK
<1>3. InState("waiting")' = {}
  BY DEF CloseAndFlush, InState, TypeOK
<1>4. OneKeeper'
  <2>1. \A j \in Jobs : outcome'[j] # "waiting" /\ (outcome'[j] = "running" <=> outcome[j] = "running")
    BY DEF CloseAndFlush, OneKeeper, TypeOK
  <2>2. \A c \in Consumers : consumer'[c] = "busy" <=> consumer[c] = "busy"
    BY DEF CloseAndFlush, TypeOK
  <2> QED BY SMTT(30), <1>1, <2>1, <2>2 DEF OneKeeper, CloseAndFlush
<1>5. QuotaIsPending' /\ NoLostWakeup'
  BY <1>1, <1>3 DEF QuotaIsPending, NoLostWakeup
<1>6. Lifecycle'
  BY <1>1, <1>3 DEF Lifecycle, CloseAndFlush
<1> QED BY <1>2, <1>4, <1>5, <1>6

\* An accepted job is queued and charged, and readies a sleeper if there is one.
LEMMA SubmitKeeps ==
    ASSUME Inductive, NEW j \in Jobs, Submit(j)
    PROVE  Inductive'
<1> USE DEF Inductive
<1>1. j \notin Queued /\ outcome[j] = "new"
  BY DEF Submit, OneKeeper
<1>2. /\ pending' \in Seq(Jobs) /\ Len(pending') = Len(pending) + 1
      /\ Queued' = Queued \cup {j} /\ Distinct(pending')
  <2>1. pending \in Seq(Jobs) /\ pending' = Append(pending, j)
    BY DEF Submit, TypeOK
  <2>2. /\ pending' \in Seq(Jobs) /\ Len(pending') = Len(pending) + 1
        /\ Elements(pending') = Elements(pending) \cup {j}
        /\ Distinct(pending) /\ j \notin Elements(pending) => Distinct(pending')
    BY <2>1, AppendElements
  <2>3. Queued' = Queued \cup {j}
    BY <2>2 DEF Queued, Elements
  <2>4. Distinct(pending')
    BY <1>1, <2>2 DEF Queued, Elements, Distinct, OneKeeper
  <2> QED BY <2>2, <2>3, <2>4
<1>3. \/ InState("waiting") = {} /\ consumer' = consumer
      \/ \E c \in InState("waiting") : consumer' = [consumer EXCEPT ![c] = "ready"]
  BY DEF Submit, Signal
<1>4. TypeOK'
  BY <1>2, <1>3 DEF Submit, TypeOK, ConsumerStates, Outcomes, InState
<1>5. OneKeeper'
  <2>1. \A c \in Consumers : consumer'[c] = "busy" <=> consumer[c] = "busy"
    BY <1>3 DEF TypeOK, InState
  <2>2. \A k \in Jobs : outcome'[k] = IF k = j THEN "waiting" ELSE outcome[k]
    BY DEF Submit, TypeOK
  <2>3. \A k \in Jobs : outcome'[k] = "waiting" <=> k \in Queued'
    BY <1>2, <2>2 DEF OneKeeper
  <2>4. \A k \in Jobs : outcome'[k] = "running" <=> outcome[k] = "running"
    BY <1>1, <2>2
  <2> QED BY SMTT(30), <1>2, <2>1, <2>3, <2>4 DEF OneKeeper, Submit, Distinct
<1>6. QuotaIsPending'
  BY <1>2 DEF QuotaIsPending, Submit
<1>7. NoLostWakeup'
  <2>1. CASE InState("waiting") = {} /\ consumer' = consumer
    BY <2>1 DEF NoLostWakeup, InState
  <2>2. CASE \E c \in InState("waiting") : consumer' = [consumer EXCEPT ![c] = "ready"]
    <3>1. PICK c \in InState("waiting") : consumer' = [consumer EXCEPT ![c] = "ready"]
      BY <2>2
    <3>2. InState("ready")' = InState("ready") \cup {c} /\ c \notin InState("ready")
      BY <3>1 DEF InState, TypeOK
    <3>3. Cardinality(InState("ready")') = Cardinality(InState("ready")) + 1
      BY <3>2, FiniteStates, FS_AddElement
    <3>4. Cardinality(InState("ready")) >= Len(pending)
      BY <3>1 DEF NoLostWakeup
    <3> QED BY SMTT(30), <1>2, <3>3, <3>4, FiniteStates DEF NoLostWakeup, TypeOK
  <2> QED BY <1>3, <2>1, <2>2
<1>8. Lifecycle'
  BY <1>3 DEF Lifecycle, Submit, InState, TypeOK
<1> QED BY <1>4, <1>5, <1>6, <1>7, <1>8

\* A consumer that pops a job becomes its only keeper and returns its units.
LEMMA TakeKeeps ==
    ASSUME Inductive, NEW c \in Consumers, consumer[c] = "ready", accepting, pending # << >>,
           consumer' = [consumer EXCEPT ![c] = "busy"], Take(c), UNCHANGED <<owner, accepting>>
    PROVE  Inductive'
<1> USE DEF Inductive
<1> DEFINE j == Head(pending)
<1>1. /\ j \in Jobs /\ pending' \in Seq(Jobs)
      /\ Len(pending') = Len(pending) - 1 /\ Len(pending) \in Nat
      /\ j \in Queued /\ Queued' = Queued \ {j} /\ Distinct(pending')
  <2>1. Queued = Elements(pending) /\ Queued' = Elements(pending') /\ Distinct(pending)
    BY DEF Queued, Elements, Distinct, OneKeeper
  <2>2. pending \in Seq(Jobs) /\ pending' = Tail(pending) /\ Len(pending) \in Nat
    BY SMTT(30) DEF Take, TypeOK
  <2> QED BY <2>1, <2>2, TailElements
<1>2. outcome[j] = "waiting" /\ holding[c] = NoJob
  BY <1>1 DEF OneKeeper
<1>3. TypeOK'
  BY <1>1 DEF Take, TypeOK, ConsumerStates, Outcomes
<1>4. OneKeeper'
  <2>1. \A d \in Consumers : holding[d] # j
    BY <1>1, <1>2, LimitsPositive DEF OneKeeper
  <2>2. \A d \in Consumers : /\ holding'[d] = IF d = c THEN j ELSE holding[d]
                             /\ consumer'[d] = IF d = c THEN "busy" ELSE consumer[d]
    BY DEF Take, TypeOK
  <2>3. \A k \in Jobs : outcome'[k] = IF k = j THEN "running" ELSE outcome[k]
    BY <1>1 DEF Take, TypeOK
  <2>4. \A d, e \in Consumers : holding'[d] = holding'[e] /\ holding'[d] # NoJob => d = e
    BY SMTT(30), <2>1, <2>2 DEF OneKeeper
  <2>5. \A k \in Jobs : outcome'[k] = "waiting" <=> k \in Queued'
    BY <1>1, <2>3 DEF OneKeeper
  <2>6. \A k \in Jobs : outcome'[k] = "running" <=> \E d \in Consumers : holding'[d] = k
    <3>1. ASSUME NEW k \in Jobs, k = j PROVE outcome'[k] = "running" /\ \E d \in Consumers : holding'[d] = k
      BY <2>2, <2>3, <3>1
    <3>2. ASSUME NEW k \in Jobs, k # j
          PROVE  outcome'[k] = "running" <=> \E d \in Consumers : holding'[d] = k
      <4>1. outcome'[k] = "running" <=> \E d \in Consumers : holding[d] = k
        BY <2>3, <3>2 DEF OneKeeper
      <4>2. \A d \in Consumers : holding[d] = k <=> holding'[d] = k
        BY <1>2, <2>2, <3>2, LimitsPositive
      <4> QED BY <4>1, <4>2
    <3> QED BY <3>1, <3>2
  <2>7. \A d \in Consumers : consumer'[d] = "busy" <=> holding'[d] # NoJob
    BY SMTT(30), <1>1, <2>2, LimitsPositive DEF OneKeeper
  <2> QED BY <1>1, <2>4, <2>5, <2>6, <2>7 DEF OneKeeper, Distinct
<1>5. QuotaIsPending'
  BY <1>1 DEF QuotaIsPending, Take
<1>6. NoLostWakeup'
  <2>1. InState("waiting")' = InState("waiting")
    BY DEF InState, TypeOK
  <2>2. InState("ready")' = InState("ready") \ {c} /\ c \in InState("ready")
    BY DEF InState, TypeOK
  <2>3. Cardinality(InState("ready")') = Cardinality(InState("ready")) - 1
    BY <2>2, FiniteStates, FS_RemoveElement
  <2> QED BY SMTT(30), <1>1, <2>1, <2>3, FiniteStates DEF NoLostWakeup
<1>7. Lifecycle'
  BY DEF Lifecycle, InState, TypeOK
<1> QED BY <1>3, <1>4, <1>5, <1>6, <1>7

\* The other steps of a consumer move no job.
LEMMA ResumeKeeps ==
    ASSUME Inductive, NEW c \in Consumers, Resume(c)
    PROVE  Inductive'
<1> USE DEF Inductive
<1>1. CASE accepting /\ pending # << >> /\ consumer' = [consumer EXCEPT ![c] = "busy"] /\ Take(c)
  BY <1>1, TakeKeeps DEF Resume
<1>2. ASSUME NEW s \in {"waiting", "exited"},
             s = "waiting" => accepting /\ pending = << >>,
             s = "exited" => ~accepting,
             consumer' = [consumer EXCEPT ![c] = s],
             UNCHANGED <<pending, charged, holding, outcome>>
      PROVE  Inductive'
  <2>1. UNCHANGED <<owner, accepting>> /\ consumer[c] = "ready"
    BY DEF Resume
  <2>2. Queued' = Queued
    BY <1>2 DEF Queued
  <2>3. TypeOK'
    BY <1>2, <2>1 DEF TypeOK, ConsumerStates
  <2>4. OneKeeper'
    <3>1. \A d \in Consumers : consumer'[d] = "busy" <=> consumer[d] = "busy"
      BY <1>2, <2>1 DEF TypeOK
    <3> QED BY SMTT(30), <1>2, <2>2, <3>1 DEF OneKeeper
  <2>5. QuotaIsPending'
    BY <1>2, <2>2 DEF QuotaIsPending
  <2>6. NoLostWakeup'
    <3>1. CASE s = "waiting"
      <4>1. Len(pending') = 0
        BY <1>2, <3>1
      <4>2. Cardinality(InState("ready")') \in Nat
        <5>1. InState("ready")' \in SUBSET Consumers
          BY DEF InState
        <5> QED BY <5>1, LimitsPositive, FS_Subset, FS_CardinalityType
      <4> QED BY SMTT(30), <4>1, <4>2 DEF NoLostWakeup
    <3>2. CASE s = "exited"
      <4>1. InState("waiting")' = {}
        BY <1>2, <3>2 DEF Lifecycle, InState, TypeOK
      <4> QED BY <4>1 DEF NoLostWakeup
    <3> QED BY <3>1, <3>2
  <2>7. Lifecycle'
    BY <1>2, <2>1 DEF Lifecycle, InState, TypeOK
  <2> QED BY <2>3, <2>4, <2>5, <2>6, <2>7
<1> QED BY <1>1, <1>2 DEF Resume

\* The job a consumer held is resolved when the backend returns.
LEMMA CompleteKeeps ==
    ASSUME Inductive, NEW c \in Consumers, Complete(c)
    PROVE  Inductive'
<1> USE DEF Inductive
<1> DEFINE j == holding[c]
<1>1. j \in Jobs /\ outcome[j] = "running" /\ consumer[c] = "busy"
  BY SMTT(30) DEF Complete, OneKeeper, TypeOK
<1>2. PICK r \in {"value", "failed"} : outcome' = [outcome EXCEPT ![j] = r]
  BY DEF Complete
<1>3. Queued' = Queued
  BY DEF Complete, Queued
<1>4. TypeOK'
  BY <1>1, <1>2 DEF Complete, TypeOK, ConsumerStates, Outcomes
<1>5. OneKeeper'
  <2>1. \A d \in Consumers : /\ holding'[d] = IF d = c THEN NoJob ELSE holding[d]
                             /\ consumer'[d] = IF d = c THEN "ready" ELSE consumer[d]
    BY DEF Complete, TypeOK
  <2>2. \A k \in Jobs : outcome'[k] = IF k = j THEN r ELSE outcome[k]
    BY <1>1, <1>2 DEF TypeOK
  <2>3. \A d, e \in Consumers : holding'[d] = holding'[e] /\ holding'[d] # NoJob => d = e
    BY SMTT(30), <2>1 DEF OneKeeper
  <2>4. \A k \in Jobs : outcome'[k] = "waiting" <=> k \in Queued'
    BY <1>1, <1>3, <2>2 DEF OneKeeper
  <2>5. \A k \in Jobs : outcome'[k] = "running" <=> \E d \in Consumers : holding'[d] = k
    BY SMTT(30), <1>1, <2>1, <2>2, LimitsPositive DEF OneKeeper
  <2>6. \A d \in Consumers : consumer'[d] = "busy" <=> holding'[d] # NoJob
    BY <2>1 DEF OneKeeper
  <2> QED BY SMTT(30), <2>3, <2>4, <2>5, <2>6 DEF OneKeeper, Complete
<1>6. QuotaIsPending'
  BY <1>3 DEF QuotaIsPending, Complete
<1>7. NoLostWakeup'
  <2>1. InState("waiting")' = InState("waiting")
    BY DEF Complete, InState, TypeOK
  <2>2. InState("ready")' = InState("ready") \cup {c} /\ c \notin InState("ready")
    BY DEF Complete, InState, TypeOK
  <2>3. Cardinality(InState("ready")') = Cardinality(InState("ready")) + 1
    BY <2>2, FiniteStates, FS_AddElement
  <2>4. pending' = pending /\ Len(pending) \in Nat
    BY SMTT(30) DEF Complete, TypeOK
  <2> QED BY SMTT(30), <2>1, <2>3, <2>4, FiniteStates DEF NoLostWakeup
<1>8. Lifecycle'
  BY DEF Lifecycle, Complete, InState, TypeOK
<1> QED BY <1>4, <1>5, <1>6, <1>7, <1>8

\* Every step of the owner, the submitters and the consumers keeps the invariant.
LEMMA NextInductive == Inductive /\ [Next]_vars => Inductive'
<1> SUFFICES ASSUME Inductive, [Next]_vars PROVE Inductive'
  OBVIOUS
<1> USE DEF Inductive
<1>1. CASE Start
  <2>1. Queued' = Queued /\ InState("waiting")' = {} /\ InState("absent")' = {} /\ InState("exited")' = {}
    BY <1>1 DEF Start, Queued, InState
  <2>2. TypeOK'
    BY <1>1 DEF Start, TypeOK, OwnerStates, ConsumerStates
  <2>3. OneKeeper'
    <3>1. \A c \in Consumers : consumer'[c] # "busy" /\ consumer[c] # "busy"
      BY <1>1 DEF Start, InState
    <3> QED BY SMTT(30), <1>1, <2>1, <3>1 DEF Start, OneKeeper
  <2> QED BY <1>1, <2>1, <2>2, <2>3 DEF Start, QuotaIsPending, NoLostWakeup, Lifecycle
<1>2. ASSUME NEW j \in Jobs, Reject(j) PROVE Inductive'
  <2>1. PICK r \in {"stopped", "overloaded"} : outcome' = [outcome EXCEPT ![j] = r]
    BY <1>2 DEF Reject
  <2>2. outcome[j] = "new" /\ UNCHANGED <<owner, accepting, pending, charged, consumer, holding>>
    BY <1>2 DEF Reject
  <2>3. Queued' = Queued /\ \A s : InState(s)' = InState(s)
    BY <2>2 DEF Queued, InState
  <2>4. TypeOK'
    BY <2>1, <2>2 DEF TypeOK, Outcomes
  <2>5. OneKeeper'
    <3>1. \A k \in Jobs : /\ outcome'[k] = "waiting" <=> outcome[k] = "waiting"
                          /\ outcome'[k] = "running" <=> outcome[k] = "running"
      BY <2>1, <2>2 DEF TypeOK
    <3> QED BY SMTT(30), <2>2, <2>3, <3>1 DEF OneKeeper
  <2>6. QuotaIsPending' /\ NoLostWakeup' /\ Lifecycle'
    BY <2>2, <2>3 DEF QuotaIsPending, NoLostWakeup, Lifecycle
  <2> QED BY <2>4, <2>5, <2>6
<1>3. ASSUME NEW j \in Jobs, Submit(j) PROVE Inductive'
  BY <1>3, SubmitKeeps
<1>4. ASSUME NEW c \in Consumers, Resume(c) PROVE Inductive'
  BY <1>4, ResumeKeeps
<1>5. ASSUME NEW c \in Consumers, Complete(c) PROVE Inductive'
  BY <1>5, CompleteKeeps
<1>6. CASE BeginStop
  BY <1>6, FlushKeeps DEF BeginStop
<1>7. CASE Stop
  BY <1>7, FlushKeeps DEF Stop
<1>8. CASE Abort
  <2>1. Queued' = Queued /\ \A s : InState(s)' = InState(s)
    BY <1>8 DEF Abort, Queued, InState
  <2> QED BY <1>8, <2>1 DEF Abort, TypeOK, OwnerStates, OneKeeper, QuotaIsPending, NoLostWakeup, Lifecycle
<1>9. CASE Joined
  <2>1. Queued' = Queued /\ InState("waiting")' = {} /\ InState("absent")' = Consumers
    BY <1>9 DEF Joined, Queued, InState
  <2>2. TypeOK'
    BY <1>9 DEF Joined, TypeOK, OwnerStates, ConsumerStates
  <2>3. OneKeeper'
    <3>1. \A c \in Consumers : consumer'[c] # "busy" /\ consumer[c] # "busy"
      BY <1>9 DEF Joined
    <3> QED BY SMTT(30), <1>9, <2>1, <3>1 DEF Joined, OneKeeper
  <2> QED BY <1>9, <2>1, <2>2, <2>3 DEF Joined, QuotaIsPending, NoLostWakeup, Lifecycle
<1>10. CASE UNCHANGED vars
  <2>1. Queued' = Queued /\ \A s : InState(s)' = InState(s)
    BY <1>10 DEF vars, Queued, InState
  <2> QED BY <1>10, <2>1 DEF vars, TypeOK, OneKeeper, QuotaIsPending, NoLostWakeup, Lifecycle
<1> QED BY <1>1, <1>2, <1>3, <1>4, <1>5, <1>6, <1>7, <1>8, <1>9, <1>10 DEF Next
-----------------------------------------------------------------------------
\* The conjunction holds in every reachable state.
LEMMA AlwaysInductive == SafeSpec => []Inductive
BY InitInductive, NextInductive, PTL DEF SafeSpec

\* Every variable stays within its type, in every instance of operation_queue.
THEOREM TypeCorrect == SafeSpec => []TypeOK
<1>1. Inductive => TypeOK
  BY DEF Inductive
<1> QED BY <1>1, AlwaysInductive, PTL

\* Every unresolved promise has exactly one keeper, so none is dropped and none
\* is set twice, however submit(), consume() and begin_stop() interleave.
THEOREM OneKeeperAlways == SafeSpec => []OneKeeper
<1>1. Inductive => OneKeeper
  BY DEF Inductive
<1> QED BY <1>1, AlwaysInductive, PTL

\* While a consumer sleeps there are as many consumers under way as queued
\* jobs: one signal() per submit() is enough although it reserves nothing.
THEOREM NoLostWakeupAlways == SafeSpec => []NoLostWakeup
<1>1. Inductive => NoLostWakeup
  BY DEF Inductive
<1> QED BY <1>1, AlwaysInductive, PTL

\* The byte units outstanding are those of the entries in _pending.
THEOREM QuotaIsPendingAlways == SafeSpec => []QuotaIsPending
<1>1. Inductive => QuotaIsPending
  BY DEF Inductive
<1> QED BY <1>1, AlwaysInductive, PTL

\* The destructor's assertion holds after stop(), and no promise is left open.
THEOREM CleanWhenStoppedAlways == SafeSpec => []CleanWhenStopped
<1>1. Inductive => CleanWhenStopped
  <2> SUFFICES ASSUME Inductive, owner = "stopped"
               PROVE  pending = << >> /\ charged = {} /\ InState("absent") = Consumers
                      /\ \A j \in Jobs : outcome[j] \notin {"waiting", "running"}
    BY DEF CleanWhenStopped
  <2>1. pending = << >> /\ InState("absent") = Consumers
    BY DEF Inductive, Lifecycle
  <2>2. Queued = {} /\ charged = {}
    BY SMTT(30), <2>1 DEF Queued, Inductive, QuotaIsPending
  <2>3. \A c \in Consumers : holding[c] = NoJob
    BY <2>1 DEF Inductive, OneKeeper, InState
  <2> QED BY SMTT(30), <2>1, <2>2, <2>3, LimitsPositive DEF Inductive, OneKeeper
<1> QED BY <1>1, AlwaysInductive, PTL

\* A resolved promise is never touched again by execute() or begin_stop().
THEOREM ResolvedOnceAlways == SafeSpec => ResolvedOnce
<1> DEFINE Kept == \A j \in Jobs : outcome[j] \in Resolved => outcome'[j] = outcome[j]
<1>1. Inductive /\ [Next]_vars => [Kept]_vars
  <2> SUFFICES ASSUME Inductive, Next, NEW j \in Jobs, outcome[j] \in Resolved
               PROVE  outcome'[j] = outcome[j]
    BY DEF vars
  <2> USE DEF Inductive, Resolved
  <2>1. outcome[j] \notin {"new", "waiting", "running"} /\ j \notin Queued
    BY DEF OneKeeper
  <2>2. \A c \in Consumers : holding[c] # j
    BY <2>1 DEF OneKeeper
  <2>3. CASE Start \/ Abort \/ Joined
    BY <2>3 DEF Start, Abort, Joined
  <2>4. ASSUME NEW k \in Jobs, Reject(k) \/ Submit(k) PROVE outcome'[j] = outcome[j]
    BY <2>1, <2>4 DEF Reject, Submit, TypeOK
  <2>5. ASSUME NEW c \in Consumers, Resume(c) PROVE outcome'[j] = outcome[j]
    <3>1. CASE UNCHANGED outcome
      BY <3>1
    <3>2. CASE accepting /\ pending # << >> /\ Take(c)
      <4>1. Head(pending) \in Queued
        BY <3>2, TailElements DEF TypeOK, Queued, Elements
      <4> QED BY <2>1, <3>2, <4>1 DEF Take, TypeOK
    <3> QED BY <2>5, <3>1, <3>2 DEF Resume
  <2>6. ASSUME NEW c \in Consumers, Complete(c) PROVE outcome'[j] = outcome[j]
    BY <2>2, <2>6 DEF Complete, TypeOK
  <2>7. CASE BeginStop \/ Stop
    BY <2>1, <2>7 DEF BeginStop, Stop, CloseAndFlush, TypeOK
  <2> QED BY <2>3, <2>4, <2>5, <2>6, <2>7 DEF Next
<1>2. SafeSpec => [][Kept]_vars
  BY <1>1, AlwaysInductive, PTL DEF SafeSpec
<1> QED BY <1>2 DEF ResolvedOnce
-----------------------------------------------------------------------------
\* A consumer that is not in the backend leaves room below the concurrency.
LEMMA IdleMeansRoom ==
    ASSUME Inductive, NEW c \in Consumers, consumer[c] = "ready"
    PROVE  Cardinality(Promise!Running) < Cardinality(Consumers)
<1> DEFINE Busy == InState("busy")
<1> DEFINE f == [d \in Busy |-> holding[d]]
<1>1. f \in Surjection(Busy, Promise!Running)
  <2>1. \A d \in Busy : f[d] \in Promise!Running
    BY SMTT(30) DEF Promise!Running, InState, Inductive, OneKeeper, TypeOK
  <2>2. ASSUME NEW j \in Promise!Running PROVE \E d \in Busy : f[d] = j
    <3>1. PICK d \in Consumers : holding[d] = j
      BY DEF Promise!Running, Inductive, OneKeeper
    <3>2. d \in Busy
      BY <3>1, LimitsPositive DEF InState, Inductive, OneKeeper, Promise!Running
    <3> QED BY <3>1, <3>2
  <2> QED BY <2>1, <2>2 DEF Surjection
<1>2. Cardinality(Promise!Running) <= Cardinality(Busy) /\ IsFiniteSet(Promise!Running)
  BY <1>1, FiniteStates, FS_Surjection
<1>3. Busy \in SUBSET Consumers /\ Busy # Consumers
  BY DEF InState
<1>4. Cardinality(Busy) <= Cardinality(Consumers) /\ Cardinality(Busy) # Cardinality(Consumers)
  BY <1>3, LimitsPositive, FS_Subset
<1>5. /\ Cardinality(Busy) \in Nat /\ Cardinality(Consumers) \in Nat
      /\ Cardinality(Promise!Running) \in Nat
  BY <1>2, FiniteStates, LimitsPositive, FS_CardinalityType
<1> QED BY SMTT(30), <1>2, <1>4, <1>5

\* The queue implements the safety part of OperationQueue: admission order,
\* the concurrency bound and the drained end, whatever the number of consumers.
THEOREM ImplementsPromise == SafeSpec => Promise!SafeSpec
<1>1. Init => Promise!Init
  BY DEF Init, Promise!Init, Phase
<1>2. Inductive /\ [Next]_vars => [Promise!Next]_(Promise!vars)
  <2> SUFFICES ASSUME Inductive, [Next]_vars PROVE [Promise!Next]_(Promise!vars)
    OBVIOUS
  <2> USE DEF Inductive
  <2>1. accepting <=> Phase = "open"
    BY DEF Lifecycle, Phase, TypeOK, OwnerStates
  <2>2. CASE Start
    BY <2>2 DEF Start, Phase, Promise!Next, Promise!Open
  <2>3. ASSUME NEW j \in Jobs, Reject(j) PROVE Promise!Refuse(j)
    <3>1. Phase' = Phase /\ pending' = pending /\ outcome[j] = "new"
      BY <2>3 DEF Reject, Phase
    <3>2. outcome' = [outcome EXCEPT ![j] = IF Phase = "open" THEN "overloaded" ELSE "stopped"]
      BY <2>1, <2>3 DEF Reject
    <3> QED BY <3>1, <3>2 DEF Promise!Refuse
  <2>4. ASSUME NEW j \in Jobs, Submit(j) PROVE Promise!Admit(j)
    BY <2>1, <2>4 DEF Submit, HasRoom, Phase, Promise!Admit
  <2>5. ASSUME NEW c \in Consumers, Resume(c) PROVE Promise!Begin \/ UNCHANGED Promise!vars
    <3>1. Phase' = Phase
      BY <2>5 DEF Resume, Phase
    <3>2. CASE UNCHANGED <<pending, outcome>>
      BY <3>1, <3>2 DEF Promise!vars
    <3>3. CASE accepting /\ pending # << >> /\ Take(c)
      <4>1. Cardinality(Promise!Running) < Cardinality(Consumers)
        BY <2>5, IdleMeansRoom DEF Resume
      <4>2. Promise!Cardinality(Promise!Running) = Cardinality(Promise!Running)
        BY DEF Cardinality, Promise!Cardinality
      <4> QED BY <2>1, <3>1, <3>3, <4>1, <4>2 DEF Take, Promise!Begin
    <3> QED BY <2>5, <3>2, <3>3 DEF Resume
  <2>6. ASSUME NEW c \in Consumers, Complete(c) PROVE \E j \in Jobs : Promise!Finish(j)
    <3>1. holding[c] \in Jobs /\ outcome[holding[c]] = "running"
      BY SMTT(30), <2>6 DEF Complete, OneKeeper, TypeOK
    <3>2. Phase' = Phase /\ pending' = pending
      BY <2>6 DEF Complete, Phase
    <3>3. Promise!Finish(holding[c])
      BY <2>6, <3>1, <3>2 DEF Complete, Promise!Finish
    <3> QED BY <3>1, <3>3
  <2>7. CASE BeginStop
    <3>1. outcome' = [j \in Jobs |-> IF outcome[j] = "waiting" THEN "stopped" ELSE outcome[j]]
      BY <2>7 DEF BeginStop, CloseAndFlush, OneKeeper
    <3>2. Phase \in {"new", "open"} /\ Phase' = "closed" /\ pending' = << >>
      BY <2>7 DEF BeginStop, CloseAndFlush, Phase
    <3> QED BY <3>1, <3>2 DEF Promise!Next, Promise!Close
  <2>8. CASE Stop
    <3>1. pending = << >> /\ Queued = {}
      BY SMTT(30), <2>8 DEF Stop, Lifecycle, Queued
    <3>2. outcome' = outcome /\ pending' = pending
      BY <2>8, <3>1 DEF Stop, CloseAndFlush, TypeOK
    <3>3. Phase' = Phase
      BY <2>8 DEF Stop, Phase
    <3> QED BY <3>2, <3>3 DEF Promise!vars
  <2>9. CASE Abort
    BY <2>9 DEF Abort, Phase, Promise!vars
  <2>10. CASE Joined
    <3>1. \A c \in Consumers : holding[c] = NoJob
      BY <2>10 DEF Joined, OneKeeper
    <3>2. Promise!Running = {}
      BY SMTT(30), <3>1, LimitsPositive DEF Promise!Running, OneKeeper
    <3> QED BY <2>10, <3>2 DEF Joined, Phase, Promise!Next, Promise!Drain
  <2>11. CASE UNCHANGED vars
    BY <2>11 DEF vars, Phase, Promise!vars
  <2> QED BY <2>2, <2>3, <2>4, <2>5, <2>6, <2>7, <2>8, <2>9, <2>10, <2>11 DEF Next, Promise!Next
<1> QED BY <1>1, <1>2, AlwaysInductive, PTL DEF SafeSpec, Promise!SafeSpec
-----------------------------------------------------------------------------
Stages == {"none", "sent", "writing", "padded", "appended", "stored", "progress", "owned",
           "recorded", "over"}

Types ==
    /\ call \in [Calls -> Stages] /\ DOMAIN answer = Calls /\ DOMAIN object = Owners
    /\ scenario \in Scenarios /\ DOMAIN client = Uploads

\* Requests are made one by one, under a number of their own.
Client(u) == DOMAIN client[u] = {"calls", "waiting", "offset"} /\ client[u].calls \in Nat
Asked ==
    /\ \A u \in Uploads : Client(u)
    /\ \A c \in Calls : call[c] # "none" => c[2] <= client[c[1]].calls

\* A request is alone in the storage of its owner, and there only until the
\* file is published.
Alone ==
    /\ \A c \in Calls : call[c] \in InStorage => object[Owner[c[1]]] = None
    /\ \A c, d \in Calls : call[c] \in InStorage /\ call[d] \in InStorage /\ Owner[c[1]] = Owner[d[1]] => c = d

\* A request that was told of a success found or made its own file.
Stores(c) ==
    call[c] \in {"progress", "owned", "recorded"} \/ (call[c] = "stored" /\ answer[c].status = "success")
        => object[Owner[c[1]]] = Content[c[1]]

\* The row is of requests that recorded it, and so is every finished upload.
Recorded(c) == call[c] = "recorded"
Row ==
    /\ \A c \in Calls : Recorded(c) => ready # None
    /\ ready # None =>
          /\ ready = [owner |-> ready.owner, digest |-> ready.digest] /\ ready.owner \in Owners
          /\ \E c \in Calls : Recorded(c) /\ ready.digest = Content[c[1]]
    /\ \A u \in finished : \E c \in Calls : Recorded(c) /\ c[1] = u

FileInv == Types /\ Asked /\ Alone /\ (\A c \in Calls : Stores(c)) /\ Row
-----------------------------------------------------------------------------
\* A request is of an upload, and its owner of the owners.
LEMMA CallOwner == \A c \in Calls : c[1] \in Uploads /\ Owner[c[1]] \in Owners
BY DEF Calls, Owners

\* A request goes on to stage s outside storage, and tells nobody of an end.
LEMMA Moves ==
    ASSUME FileInv, NEW c \in Calls, ~Recorded(c), NEW s \in Stages \ {"recorded"},
           call' = [call EXCEPT ![c] = s],
           answer' = answer \/ \E a : answer' = [answer EXCEPT ![c] = a],
           UNCHANGED <<object, ready, scenario>>, finished' \subseteq finished,
           DOMAIN client' = Uploads, \A u \in Uploads : Client(u)' /\ client'[u].calls >= client[u].calls,
           s # "none" => c[2] <= client'[c[1]].calls,
           s \in InStorage => call[c] \in InStorage
                               \/ (Exclusive(Owner[c[1]]) /\ object[Owner[c[1]]] = None),
           Stores(c)'
    PROVE  FileInv'
<1>1. Types' /\ \A d \in Calls \ {c} : call'[d] = call[d] /\ answer'[d] = answer[d]
  BY DEF FileInv, Types
<1>2. call'[c] = s
  BY DEF FileInv, Types
<1>3. Alone'
  <2>1. ASSUME NEW d \in Calls, call'[d] \in InStorage
        PROVE  \/ call[d] \in InStorage
               \/ d = c /\ Exclusive(Owner[c[1]]) /\ object[Owner[c[1]]] = None
    BY <2>1, <1>1, <1>2
  <2>2. \A d \in Calls : call'[d] \in InStorage => object'[Owner[d[1]]] = None
    BY <2>1 DEF FileInv, Alone
  <2>3. ASSUME NEW d \in Calls, NEW e \in Calls, call'[d] \in InStorage, call'[e] \in InStorage,
               Owner[d[1]] = Owner[e[1]]
        PROVE  d = e
    BY <2>1, <2>3, <1>1 DEF FileInv, Alone, Exclusive
  <2> QED BY <2>2, <2>3 DEF Alone, InStorage
<1>4. ASSUME NEW d \in Calls, d # c PROVE Stores(d)'
  BY <1>1, <1>4 DEF FileInv, Stores
<1>5. Row'
  <2>1. \A d \in Calls : Recorded(d)' <=> Recorded(d)
    BY <1>1, <1>2 DEF Recorded
  <2> QED BY <2>1 DEF FileInv, Row
<1>6. Asked'
  <2> SUFFICES ASSUME NEW d \in Calls, call'[d] # "none" PROVE d[2] <= client'[d[1]].calls
    BY DEF Asked
  <2>1. d[1] \in Uploads /\ d[2] \in Nat
    BY SMTT(30), FileConstants DEF Calls
  <2>2. CASE d = c
    BY <2>2, <1>2
  <2>3. CASE d # c
    <3>1. d[2] <= client[d[1]].calls /\ client[d[1]].calls \in Nat /\ client'[d[1]].calls \in Nat
      BY <1>1, <2>1, <2>3 DEF FileInv, Asked, Client
    <3>2. client'[d[1]].calls >= client[d[1]].calls
      BY <2>1
    <3> QED BY SMTT(30), <2>1, <3>1, <3>2
  <2> QED BY <2>2, <2>3
<1> QED BY <1>1, <1>3, <1>4, <1>5, <1>6 DEF FileInv

\* The client hears an answer, or has given the request up.
LEMMA TellKeeps ==
    ASSUME FileInv, NEW c \in Calls, NEW a, NEW whole, Tell(c, a, whole)
    PROVE  /\ DOMAIN client' = Uploads /\ \A u \in Uploads : Client(u)' /\ client'[u].calls = client[u].calls
           /\ finished' \subseteq finished \cup {c[1]}
           /\ ~whole => finished' = finished
<1>1. c[1] \in Uploads
  BY CallOwner
<1>2. CASE client' = client
  BY <1>2 DEF Tell, FileInv, Types, Asked, Client
<1>3. ASSUME NEW n, client' = [client EXCEPT ![c[1]] = [@ EXCEPT !.waiting = FALSE, !.offset = n]]
      PROVE  /\ DOMAIN client' = Uploads
             /\ \A u \in Uploads : Client(u)' /\ client'[u].calls = client[u].calls
  <2>1. DOMAIN client' = Uploads /\ \A u \in Uploads \ {c[1]} : client'[u] = client[u]
    BY <1>3 DEF FileInv, Types
  <2>2. client'[c[1]] = [client[c[1]] EXCEPT !.waiting = FALSE, !.offset = n]
    BY <1>1, <1>3 DEF FileInv, Types
  <2>3. Client(c[1])' /\ client'[c[1]].calls = client[c[1]].calls
    BY <1>1, <2>2 DEF FileInv, Asked, Client
  <2> QED BY <2>1, <2>3 DEF FileInv, Asked, Client
<1>4. client' = client \/ \E n : client' = [client EXCEPT ![c[1]] = [@ EXCEPT !.waiting = FALSE, !.offset = n]]
  BY DEF Tell
<1>5. finished' \subseteq finished \cup {c[1]} /\ (~whole => finished' = finished)
  BY DEF Tell
<1> QED BY <1>2, <1>3, <1>4, <1>5

\* A step that moves no request.
LEMMA Rests ==
    ASSUME FileInv, UNCHANGED <<call, answer, object, ready, finished, scenario>>,
           DOMAIN client' = Uploads, \A u \in Uploads : Client(u)' /\ client'[u].calls = client[u].calls
    PROVE  FileInv'
<1>1. Types'
  BY DEF FileInv, Types
<1>2. Asked'
  BY CallOwner DEF FileInv, Asked
<1>3. Alone' /\ (\A c \in Calls : Stores(c)') /\ Row'
  BY DEF FileInv, Alone, InStorage, Stores, Row, Recorded
<1> QED BY <1>1, <1>2, <1>3 DEF FileInv
-----------------------------------------------------------------------------
\* A client asks, under its next number.
LEMMA AskKeeps ==
    ASSUME FileInv, NEW u \in Uploads, Ask(u)
    PROVE  FileInv'
<1>1. PICK n \in Nat : n = client[u].calls + 1
  BY SMTT(30) DEF FileInv, Asked, Client
<1>n. client[u].calls \in Nat /\ n <= scenario.calls /\ scenario \in Scenarios
  BY <1>1 DEF Ask, FileInv, Asked, Client, Types
<1>m. n \in 1..MaxCalls /\ n > client[u].calls
  <2>1. scenario.calls \in 0..MaxCalls
    BY <1>n, FileConstants
  <2> QED BY SMTT(30), <1>1, <1>n, <2>1, FileConstants
<1>2. PICK c \in Calls : c = <<u, n>> /\ c[1] = u /\ c[2] = n /\ n > client[u].calls
  <2>1. <<u, n>> \in Calls
    BY <1>m DEF Calls
  <2>2. <<u, n>>[1] = u /\ <<u, n>>[2] = n
    OBVIOUS
  <2> QED BY <1>m, <2>1, <2>2
<1>3. call[c] = "none"
  <2>1. call[c] # "none" => c[2] <= client[c[1]].calls
    BY <1>2 DEF FileInv, Asked
  <2> QED BY SMTT(30), <1>n, <1>2, <2>1
<1>4. /\ call' = [call EXCEPT ![c] = "sent"] /\ UNCHANGED <<answer, object, ready, finished, scenario>>
      /\ client' = [client EXCEPT ![u] = [@ EXCEPT !.calls = n, !.waiting = TRUE]]
  BY <1>1, <1>2 DEF Ask, store
<1>5. DOMAIN client' = Uploads /\ \A v \in Uploads \ {u} : client'[v] = client[v]
  BY <1>4 DEF FileInv, Types
<1>6. client'[u].calls = n /\ DOMAIN client'[u] = {"calls", "waiting", "offset"}
  BY <1>4 DEF FileInv, Types, Asked, Client
<1>7. \A v \in Uploads : Client(v)' /\ client'[v].calls >= client[v].calls
  <2>1. ASSUME NEW v \in Uploads, v # u PROVE Client(v)' /\ client'[v].calls >= client[v].calls
    <3>1. client'[v] = client[v] /\ Client(v) /\ client[v].calls \in Nat
      BY <1>5, <2>1 DEF FileInv, Asked, Client
    <3>2. client[v].calls >= client[v].calls
      BY SMTT(30), <3>1
    <3> QED BY <3>1, <3>2 DEF Client
  <2>2. Client(u)' /\ client'[u].calls >= client[u].calls
    <3>1. n >= client[u].calls
      BY SMTT(30), <1>n, <1>2
    <3> QED BY <1>2, <1>6, <3>1 DEF Client
  <2> QED BY <2>1, <2>2
<1>8. c[2] <= client'[c[1]].calls
  BY SMTT(30), <1>2, <1>6
<1>9. Stores(c)'
  BY <1>2, <1>4 DEF Stores, FileInv, Types
<1> QED BY <1>2, <1>3, <1>4, <1>5, <1>7, <1>8, <1>9, Moves DEF Recorded, Stages, InStorage

\* What leaves the client alone leaves it sound, and every request was asked for.
LEMMA ClientRests ==
    ASSUME FileInv, NEW c \in Calls, call[c] # "none",
           DOMAIN client' = Uploads, \A u \in Uploads : Client(u)' /\ client'[u].calls = client[u].calls
    PROVE  /\ \A u \in Uploads : Client(u)' /\ client'[u].calls >= client[u].calls
           /\ c[2] <= client'[c[1]].calls
<1>1. ASSUME NEW u \in Uploads PROVE client'[u].calls >= client[u].calls
  <2>1. client[u].calls \in Nat /\ client'[u].calls = client[u].calls
    BY DEF FileInv, Asked, Client
  <2> QED BY SMTT(30), <2>1
<1> QED BY <1>1, CallOwner DEF FileInv, Asked

\* The request of a client may be given up.
LEMMA GiveUpKeeps ==
    ASSUME FileInv, NEW u \in Uploads, GiveUp(u)
    PROVE  FileInv'
<1>1. client' = [client EXCEPT ![u].waiting = FALSE]
  BY DEF GiveUp
<1>2. DOMAIN client' = Uploads /\ \A v \in Uploads : Client(v)' /\ client'[v].calls = client[v].calls
  BY <1>1 DEF FileInv, Types, Asked, Client
<1> QED BY <1>2, Rests DEF GiveUp, store, handler

\* A request that does not end in the row goes on, and its client may hear of it.
LEMMA Goes ==
    ASSUME FileInv, NEW c \in Calls, call[c] \notin {"none", "recorded"},
           NEW s \in Stages \ {"none", "recorded"}, call' = [call EXCEPT ![c] = s],
           answer' = answer \/ \E a : answer' = [answer EXCEPT ![c] = a],
           UNCHANGED <<object, ready, scenario>>,
           UNCHANGED <<client, finished>> \/ \E a : Tell(c, a, FALSE),
           s \in InStorage => call[c] \in InStorage
                               \/ (Exclusive(Owner[c[1]]) /\ object[Owner[c[1]]] = None),
           Stores(c)'
    PROVE  FileInv'
<1>1. /\ DOMAIN client' = Uploads /\ \A u \in Uploads : Client(u)' /\ client'[u].calls = client[u].calls
      /\ finished' = finished
  <2>1. CASE UNCHANGED <<client, finished>>
    BY <2>1 DEF FileInv, Types, Asked, Client
  <2>2. CASE \E a : Tell(c, a, FALSE)
    BY <2>2, TellKeeps
  <2> QED BY <2>1, <2>2
<1>2. /\ \A u \in Uploads : Client(u)' /\ client'[u].calls >= client[u].calls
      /\ c[2] <= client'[c[1]].calls
  BY <1>1, ClientRests
<1> QED BY <1>1, <1>2, Moves DEF Recorded

\* Storage looks at the request: it answers or begins to write.
LEMMA EnterKeeps ==
    ASSUME FileInv, NEW c \in Calls, Enter(c)
    PROVE  FileInv'
<1>1. call[c] = "sent" /\ Exclusive(Owner[c[1]]) /\ UNCHANGED <<object, ready, scenario, client, finished>>
  BY DEF Enter, store
<1>2. CASE Inspect(c) # NoAnswer /\ Reply(c, Inspect(c))
  <2>1. PICK s \in {"over", "stored"} : call' = [call EXCEPT ![c] = s]
    BY <1>2 DEF Reply
  <2>2. answer' = [answer EXCEPT ![c] = Inspect(c)]
    BY <1>2 DEF Reply
  <2>3. Inspect(c).status = "success" => object[Owner[c[1]]] = Content[c[1]]
    BY <1>2 DEF Inspect, Success, Failed, Partial, NoAnswer
  <2>4. call'[c] = s /\ answer'[c] = Inspect(c)
    BY <2>1, <2>2 DEF FileInv, Types
  <2>5. Stores(c)'
    BY <1>1, <2>1, <2>3, <2>4 DEF Stores
  <2> QED BY <1>1, <2>1, <2>2, <2>5, Goes DEF Stages, InStorage
<1>3. CASE Inspect(c) = NoAnswer /\ call' = [call EXCEPT ![c] = "writing"] /\ UNCHANGED answer
  <2>1. object[Owner[c[1]]] = None
    BY <1>3 DEF Inspect, Success, Failed, Partial, NoAnswer
  <2>2. Stores(c)'
    BY <1>3 DEF Stores, FileInv, Types
  <2> QED BY <1>1, <1>3, <2>1, <2>2, Goes DEF Stages, InStorage
<1> QED BY <1>2, <1>3 DEF Enter

\* The blocks are written and the file is cut.
LEMMA WriteKeeps ==
    ASSUME FileInv, NEW c \in Calls, WriteBlocks(c) \/ Truncate(c)
    PROVE  FileInv'
<1>1. /\ call[c] \in {"writing", "padded"} /\ UNCHANGED <<object, ready, scenario, client, finished, answer>>
      /\ \E s \in {"padded", "appended"} : call' = [call EXCEPT ![c] = s]
  BY DEF WriteBlocks, Truncate
<1>2. PICK s \in {"padded", "appended"} : call' = [call EXCEPT ![c] = s]
  BY <1>1
<1>3. Stores(c)'
  BY <1>2 DEF Stores, FileInv, Types
<1> QED BY <1>1, <1>2, <1>3, Goes DEF Stages, InStorage

\* A request in storage is answered without a success.
LEMMA Answers ==
    ASSUME FileInv, NEW c \in Calls, call[c] \in InStorage, NEW a, a.status # "success", Reply(c, a),
           UNCHANGED <<object, ready, scenario, client, finished>>
    PROVE  FileInv'
<1>1. PICK s \in {"over", "stored"} : call' = [call EXCEPT ![c] = s]
  BY DEF Reply
<1>2. answer' = [answer EXCEPT ![c] = a]
  BY DEF Reply
<1>3. call'[c] = s /\ answer'[c] = a
  BY <1>1, <1>2 DEF FileInv, Types
<1>4. Stores(c)'
  BY <1>1, <1>3 DEF Stores
<1> QED BY <1>1, <1>2, <1>4, Goes DEF Stages, InStorage

\* The file is published: its owner has no other request in storage, and nobody
\* was told of a success for that owner before.
LEMMA PublishKeeps ==
    ASSUME FileInv, NEW c \in Calls, Publish(c)
    PROVE  FileInv'
<1> DEFINE o == Owner[c[1]]
           next == request[c].offset + Len(request[c].data)
           last == request[c].complete /\ next = FileSize(c)
<1>1. call[c] = "appended" /\ UNCHANGED <<ready, scenario, client, finished>>
  BY DEF Publish
<1>2. CASE \/ last /\ part[o] # Content[c[1]] /\ Reply(c, Failed) /\ UNCHANGED store
           \/ ~last /\ Reply(c, Partial(next)) /\ UNCHANGED store
  BY <1>1, <1>2, Answers DEF store, InStorage, Failed, Partial
<1>3. CASE /\ part[o] = Content[c[1]] /\ object' = [object EXCEPT ![o] = part[o]]
           /\ Reply(c, Success(next))
  <2>1. PICK s \in {"over", "stored"} : call' = [call EXCEPT ![c] = s]
    BY <1>3 DEF Reply
  <2>2. call'[c] = s /\ Types' /\ \A d \in Calls \ {c} : call'[d] = call[d] /\ answer'[d] = answer[d]
    BY <1>1, <1>3, <2>1 DEF FileInv, Types, Reply, Stages
  <2>3. object'[o] = Content[c[1]] /\ \A p \in Owners \ {o} : object'[p] = object[p]
    BY <1>3, CallOwner DEF FileInv, Types
  <2>4. object[o] = None /\ \A d \in Calls : call[d] \in InStorage /\ Owner[d[1]] = o => d = c
    BY <1>1 DEF FileInv, Alone, InStorage
  <2>5. Alone'
    <3>1. ASSUME NEW d \in Calls, call'[d] \in InStorage
          PROVE  call[d] \in InStorage /\ object'[Owner[d[1]]] = None
      <4>1. d # c
        BY <2>2, <3>1 DEF InStorage
      <4>2. call[d] \in InStorage
        BY <2>2, <3>1, <4>1
      <4> QED BY <2>3, <2>4, <4>1, <4>2, CallOwner DEF FileInv, Alone
    <3> QED BY <3>1 DEF FileInv, Alone, InStorage
  <2>6. ASSUME NEW d \in Calls PROVE Stores(d)'
    <3>1. CASE d = c
      BY <2>3, <3>1 DEF Stores
    <3>2. CASE d # c
      <4>1. Stores(d) /\ call'[d] = call[d] /\ answer'[d] = answer[d] /\ d[1] \in Uploads
        BY <2>2, <3>2, CallOwner DEF FileInv
      <4>2. CASE Owner[d[1]] = o
        BY <2>4, <4>1, <4>2, FileConstants DEF Stores
      <4>3. CASE Owner[d[1]] # o
        BY <2>3, <4>1, <4>3, CallOwner DEF Stores
      <4> QED BY <4>2, <4>3
    <3> QED BY <3>1, <3>2
  <2>7. Asked'
    <3>1. \A d \in Calls : call'[d] # "none" => call[d] # "none"
      BY <1>1, <2>2
    <3> QED BY <1>1, <3>1 DEF FileInv, Asked, Client
  <2>8. Row'
    <3>1. \A d \in Calls : Recorded(d)' <=> Recorded(d)
      BY <1>1, <2>2 DEF Recorded
    <3> QED BY <1>1, <3>1 DEF FileInv, Row
  <2> QED BY <2>2, <2>5, <2>6, <2>7, <2>8 DEF FileInv
<1> QED BY <1>2, <1>3 DEF Publish

\* The File service fails.
LEMMA DiskFaultKeeps ==
    ASSUME FileInv, NEW c \in Calls, DiskFault(c)
    PROVE  FileInv'
BY Answers DEF DiskFault, store, Failed

\* Message handles the answer up to the row, or fails.
LEMMA HandlerKeeps ==
    ASSUME FileInv, NEW c \in Calls,
           Refused(c) \/ SaveProgress(c) \/ CheckOwner(c) \/ HandlerFails(c)
    PROVE  FileInv'
<1>1. CASE Refused(c)
  <2>1. Stores(c)'
    BY <1>1 DEF Refused, Over, Stores, FileInv, Types
  <2> QED BY <1>1, <2>1, Goes DEF Refused, Over, store, Stages, InStorage
<1>2. CASE SaveProgress(c)
  <2>1. PICK s \in {"progress", "over"} : call' = [call EXCEPT ![c] = s] /\ (s = "progress" => IsComplete(c))
    BY <1>2 DEF SaveProgress, Over
  <2>2. Stores(c)'
    BY <1>2, <2>1 DEF SaveProgress, IsComplete, store, Stores, FileInv, Types
  <2> QED BY <1>2, <2>1, <2>2, Goes DEF SaveProgress, store, Stages, InStorage
<1>3. CASE CheckOwner(c)
  <2>1. PICK s \in {"owned", "over"} : call' = [call EXCEPT ![c] = s]
    BY <1>3 DEF CheckOwner, Over
  <2>2. Stores(c)'
    BY <1>3, <2>1 DEF CheckOwner, store, Stores, FileInv, Types
  <2> QED BY <1>3, <2>1, <2>2, Goes DEF CheckOwner, store, Stages, InStorage
<1>4. CASE HandlerFails(c) /\ Over(c)
  <2>1. Stores(c)' /\ call[c] \in {"sent", "stored", "progress", "owned"} \cup InStorage
    BY <1>4 DEF HandlerFails, Over, Stores, FileInv, Types
  <2> QED BY <1>4, <2>1, Goes DEF HandlerFails, Over, store, Stages, InStorage
<1>5. CASE HandlerFails(c) /\ UNCHANGED call
  <2>1. DOMAIN client' = Uploads /\ \A u \in Uploads : Client(u)' /\ client'[u].calls = client[u].calls
    BY <1>5, TellKeeps DEF HandlerFails
  <2>2. finished' = finished
    BY <1>5, TellKeeps DEF HandlerFails
  <2> QED BY <1>5, <2>1, <2>2, Rests DEF HandlerFails, store
<1> QED BY <1>1, <1>2, <1>3, <1>4, <1>5 DEF HandlerFails

\* The row is written, and the client told that its upload is complete.
LEMMA UpsertKeeps ==
    ASSUME FileInv, NEW c \in Calls, UpsertRow(c)
    PROVE  FileInv'
<1>1. call[c] = "owned" /\ call' = [call EXCEPT ![c] = "recorded"] /\ UNCHANGED <<answer, object, scenario>>
  BY DEF UpsertRow, store
<1>2. call'[c] = "recorded" /\ \A d \in Calls \ {c} : call'[d] = call[d]
  BY <1>1 DEF FileInv, Types
<1>3. /\ DOMAIN client' = Uploads /\ \A u \in Uploads : Client(u)' /\ client'[u].calls = client[u].calls
      /\ finished' \subseteq finished \cup {c[1]}
  BY TellKeeps DEF UpsertRow
<1>4. Types'
  BY <1>1, <1>3 DEF FileInv, Types, Stages
<1>5. Asked'
  BY <1>1, <1>2, <1>3, CallOwner DEF FileInv, Asked
<1>6. Alone'
  BY <1>1, <1>2 DEF FileInv, Alone, InStorage
<1>7. ASSUME NEW d \in Calls PROVE Stores(d)'
  BY <1>1, <1>2 DEF FileInv, Stores
<1>8. PICK o \in Owners : ready' = [owner |-> o, digest |-> Content[c[1]]]
  BY CallOwner DEF UpsertRow, FileInv, Row
<1>9. Row'
  <2>1. /\ ready'.owner = o /\ ready'.digest = Content[c[1]]
        /\ ready' = [owner |-> ready'.owner, digest |-> ready'.digest]
    BY <1>8
  <2>2. ready' # None
    <3>1. PICK v \in Uploads : o = Owner[v]
      BY DEF Owners
    <3> QED BY <1>8, <3>1, CallOwner, FileConstants
  <2>3. \A d \in Calls : Recorded(d) => Recorded(d)'
    BY <1>2 DEF Recorded
  <2>4. Recorded(c)'
    BY <1>2 DEF Recorded
  <2>5. \A u \in finished' : \E d \in Calls : Recorded(d)' /\ d[1] = u
    BY <1>3, <2>3, <2>4 DEF FileInv, Row
  <2> QED BY <2>1, <2>2, <2>4, <2>5 DEF Row
<1> QED BY <1>4, <1>5, <1>6, <1>7, <1>9 DEF FileInv
-----------------------------------------------------------------------------
\* At the beginning nothing is stored and nobody has asked.
LEMMA FileInvInit == FileInit => FileInv
<1> SUFFICES ASSUME FileInit PROVE FileInv
  OBVIOUS
<1>1. Types
  BY DEF FileInit, Types, Stages
<1>2. Asked
  BY DEF FileInit, Asked, Client
<1>3. Alone /\ (\A c \in Calls : Stores(c)) /\ Row
  BY DEF FileInit, Alone, InStorage, Stores, Row, Recorded
<1> QED BY <1>1, <1>2, <1>3 DEF FileInv

\* Every step keeps the invariant.
LEMMA FileInvStep == FileInv /\ [FileNext]_fileVars => FileInv'
<1> SUFFICES ASSUME FileInv, [FileNext]_fileVars PROVE FileInv'
  OBVIOUS
<1>1. ASSUME NEW c \in Calls, Handle(c) PROVE FileInv'
  BY <1>1, EnterKeeps, WriteKeeps, PublishKeeps, HandlerKeeps, UpsertKeeps DEF Handle
<1>2. CASE UNCHANGED fileVars
  BY <1>2, Rests DEF fileVars, store, handler, FileInv, Types, Asked, Client
<1> QED BY <1>1, <1>2, AskKeeps, GiveUpKeeps, DiskFaultKeeps, HandlerKeeps DEF FileNext

\* The invariant holds throughout.
LEMMA FileInvAlways == FileSafeSpec => []FileInv
BY FileInvInit, FileInvStep, PTL DEF FileSafeSpec

\* What download reads by the row is the file whose digest the row has, and the
\* file of every upload that was told that it is complete, unless two owners
\* raced into upsert_ready_file.
THEOREM ReadyIsWholeAlways == FileSafeSpec => []ReadyIsWhole
<1>1. FileInv => ReadyIsWhole
  <2> SUFFICES ASSUME FileInv, ready # None, ~Contested
               PROVE  /\ Downloaded = ready.digest
                      /\ \A u \in finished : ready = [owner |-> Owner[u], digest |-> Content[u]]
    BY DEF ReadyIsWhole
  <2>1. ASSUME NEW c \in Calls, Recorded(c)
        PROVE  Owner[c[1]] = ready.owner /\ object[ready.owner] = Content[c[1]]
    BY <2>1 DEF Contested, Recorded, FileInv, Stores
  <2>2. Downloaded = ready.digest
    BY <2>1 DEF Downloaded, FileInv, Row
  <2>3. ASSUME NEW u \in finished PROVE ready = [owner |-> Owner[u], digest |-> Content[u]]
    BY <2>1, <2>2 DEF Downloaded, FileInv, Row
  <2> QED BY <2>2, <2>3
<1> QED BY <1>1, FileInvAlways, PTL

\* A published file is never written again: not by a repeated request, a second
\* upload of its owner, or one that was already in storage.
THEOREM PublishedStays ==
    FileSafeSpec => [][\A o \in Owners : object[o] # None => object'[o] = object[o]]_fileVars
<1>1. ASSUME FileInv, [FileNext]_fileVars, NEW o \in Owners, object[o] # None PROVE object'[o] = object[o]
  <2>1. ASSUME NEW c \in Calls, Publish(c) PROVE object'[o] = object[o]
    <3>1. object[Owner[c[1]]] = None
      BY <1>1, <2>1 DEF Publish, FileInv, Alone, InStorage
    <3> QED BY <1>1, <2>1, <3>1 DEF Publish, store, FileInv, Types
  <2>2. CASE UNCHANGED object
    BY <2>2
  <2>3. ASSUME NEW u \in Uploads, Ask(u) \/ GiveUp(u) PROVE UNCHANGED object
    BY <2>3 DEF Ask, GiveUp, store
  <2>4. ASSUME NEW c \in Calls, Handle(c) \/ DiskFault(c) \/ HandlerFails(c)
        PROVE  Publish(c) \/ UNCHANGED object
    BY <2>4 DEF Handle, Enter, WriteBlocks, Truncate, Refused, SaveProgress, CheckOwner, UpsertRow,
                DiskFault, HandlerFails, store
  <2> QED BY <1>1, <2>1, <2>2, <2>3, <2>4 DEF FileNext, fileVars, store
<1>2. FileInv /\ [FileNext]_fileVars => [\A o \in Owners : object[o] # None => object'[o] = object[o]]_fileVars
  BY <1>1
<1> QED BY <1>2, FileInvAlways, PTL DEF FileSafeSpec
=============================================================================
