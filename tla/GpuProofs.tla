------------------------------ MODULE GpuProofs ------------------------------
(***************************************************************************)
(* Proofs about GpuMonitor, for any number of callers, every period of the *)
(* cache, every timeout and whatever the two programs print: first the     *)
(* lock and the ages, then what the parsers make of an output (the folds   *)
(* by FoldLemmas), and last the snapshot that is cached, which is made of  *)
(* one output of each program or of nothing.                               *)
(***************************************************************************)
EXTENDS GpuMonitor, FiniteSetTheorems, TLAPS

\* The monitor by itself, without fairness.
GpuSpec == GpuInit /\ [][GpuNext]_gpuVars

IsSnapshot(s) ==
    /\ s = [k \in DOMAIN s |-> s[k]] /\ {"age", "readAge"} \subseteq DOMAIN s
    /\ s.age \in 0 .. CacheSeconds /\ s.readAge \in 0 .. Oldest
    /\ s.readAge <= s.age + Timeout + Reap

\* Whoever runs a program has the lock.
OneRuns == \A c, d \in Running : c = d
Queued ==
    /\ queue \in Seq(Callers) /\ IsInjective(queue)
    /\ ToSet(queue) = {c \in Callers : phase[c] = "waiting"}
\* The readings in a snapshot are older than itself by one program at most, and by
\* what it takes to end it.
Cached == cached = <<>> \/ (cached = <<cached[1]>> /\ IsSnapshot(cached[1]))
\* A collection is under way only when there is nothing to show.
Expired == Running # {} /\ cached # <<>> => cached[1].age = CacheSeconds
ReadingAge ==
    \A c \in Callers : /\ phase[c] = "windows" => readAge = elapsed
                       /\ phase[c] = "windowsKilled" => readAge = Timeout + elapsed

GpuInv ==
    /\ phase \in [Callers -> Phases]
    /\ elapsed \in 0 .. Limit /\ readAge \in 0 .. Timeout + Reap
    /\ OneRuns /\ Queued /\ Cached /\ Expired /\ ReadingAge

\* The queue of the lock: a caller joins its end and leaves at its head.
LEMMA QueueJoined ==
    ASSUME NEW q \in Seq(Callers), IsInjective(q), NEW c \in Callers, c \notin ToSet(q)
    PROVE  /\ Append(q, c) \in Seq(Callers) /\ IsInjective(Append(q, c))
           /\ ToSet(Append(q, c)) = ToSet(q) \cup {c}
  <1> DEFINE new == Append(q, c)
  <1>1. /\ new \in Seq(Callers) /\ Len(new) = Len(q) + 1 /\ Len(q) \in Nat
        /\ \A i \in 1 .. Len(q) : new[i] = q[i]
        /\ new[Len(q) + 1] = c
    OBVIOUS
  <1> HIDE DEF new
  <1>2. DOMAIN new = 1 .. Len(q) + 1 /\ DOMAIN q = 1 .. Len(q) BY <1>1
  <1>3. \A i \in 1 .. Len(q) : q[i] # c BY <1>2 DEF ToSet
  <1>4. \A i \in DOMAIN new : i \in 1 .. Len(q) \/ i = Len(q) + 1 BY <1>1, <1>2
  <1>5. IsInjective(new)
    <2> SUFFICES ASSUME NEW i \in DOMAIN new, NEW j \in DOMAIN new, new[i] = new[j]
                 PROVE  i = j
      BY DEF IsInjective
    <2> QED BY <1>1, <1>2, <1>3, <1>4 DEF IsInjective
  <1>6. ToSet(new) = ToSet(q) \cup {c}
    <2>1. \A x \in ToSet(new) : x \in ToSet(q) \/ x = c
      BY <1>1, <1>2, <1>4 DEF ToSet
    <2>2. \A i \in DOMAIN q : i \in DOMAIN new /\ new[i] = q[i] BY <1>1, <1>2
    <2>3. Len(q) + 1 \in DOMAIN new BY <1>1, <1>2
    <2>4. \A x \in ToSet(q) \cup {c} : x \in ToSet(new) BY <1>1, <2>2, <2>3 DEF ToSet
    <2> QED BY <2>1, <2>4
  <1> QED BY <1>1, <1>5, <1>6 DEF new

\* The one that leaves is the head.
LEMMA QueueLeft ==
    ASSUME NEW q \in Seq(Callers), IsInjective(q), q # <<>>
    PROVE  /\ Tail(q) \in Seq(Callers) /\ IsInjective(Tail(q))
           /\ ToSet(Tail(q)) = ToSet(q) \ {Head(q)} /\ Head(q) \in Callers
  <1>1. /\ Tail(q) \in Seq(Callers) /\ Len(Tail(q)) = Len(q) - 1 /\ Len(q) \in Nat
        /\ Len(q) >= 1
        /\ \A i \in 1 .. Len(q) - 1 : Tail(q)[i] = q[i + 1]
        /\ Head(q) = q[1]
    OBVIOUS
  <1>2. IsInjective(Tail(q)) BY <1>1 DEF IsInjective
  <1>3. ToSet(Tail(q)) = ToSet(q) \ {Head(q)}
    <2>1. \A x \in ToSet(Tail(q)) : x \in ToSet(q) /\ x # Head(q)
      BY <1>1 DEF ToSet, IsInjective
    <2>2. ASSUME NEW x \in ToSet(q), x # Head(q) PROVE x \in ToSet(Tail(q))
      <3>1. PICK i \in DOMAIN q : q[i] = x BY DEF ToSet
      <3>2. i - 1 \in 1 .. Len(q) - 1 /\ i - 1 + 1 = i BY <1>1, <2>2, <3>1
      <3>3. Tail(q)[i - 1] = x BY <1>1, <3>1, <3>2
      <3> QED BY <1>1, <3>2, <3>3 DEF ToSet
    <2> QED BY <2>1, <2>2
  <1> QED BY <1>1, <1>2, <1>3

-----------------------------------------------------------------------------
(* One lemma for each kind of step, with what the step shows. *)

\* A collection begins: the one that runs now has the lock.
LEMMA CollectKept ==
    ASSUME GpuConstants, GpuInv, NEW c \in Callers, Collect(c), Running = {}, ~Fresh, Queued'
    PROVE  GpuInv'
  <1>1. /\ phase' = [phase EXCEPT ![c] = "nvidia"] /\ elapsed' = 0
        /\ UNCHANGED <<gpus, reasons, readAge, cached>>
        /\ phase \in [Callers -> Phases] /\ CacheSeconds \in Nat /\ Timeout \in Nat
        /\ Reap \in Nat
    BY DEF Collect, GpuInv, GpuConstants
  <1>2. /\ phase' \in [Callers -> Phases]
        /\ \A d \in Callers : phase'[d] \in Collecting => d = c
        /\ \A d \in Callers : phase'[d] \notin {"windows", "windowsKilled"}
    BY <1>1 DEF Running, Phases, Collecting, Killed
  <1>3. OneRuns' /\ ReadingAge' BY <1>2 DEF OneRuns, Running, ReadingAge
  <1>4. Cached' BY <1>1 DEF GpuInv, Cached, IsSnapshot
  <1>5. cached # <<>> => cached[1].age = CacheSeconds
    <2> SUFFICES ASSUME cached # <<>> PROVE cached[1].age = CacheSeconds OBVIOUS
    <2>1. cached = <<cached[1]>> /\ cached[1].age \in 0 .. CacheSeconds
      BY DEF GpuInv, Cached, IsSnapshot
    <2>2. Head(cached) = cached[1]
      <3> DEFINE s == cached[1]
      <3>1. cached = <<s>> BY <2>1
      <3> HIDE DEF s
      <3> QED BY <3>1
    <2>3. ~(cached[1].age < CacheSeconds) BY <2>2 DEF Fresh
    <2> QED BY <1>1, <2>1, <2>3
  <1>6. Expired' BY <1>1, <1>5 DEF Expired
  <1>7. Limit' \in Nat BY <1>1 DEF Limit
  <1>8. elapsed' \in 0 .. Limit' BY <1>1, <1>7
  <1> QED BY <1>1, <1>2, <1>3, <1>4, <1>6, <1>8 DEF GpuInv

\* A step that leaves the programs, the devices and the cache alone.
LEMMA PhaseKept ==
    ASSUME GpuInv, NEW c \in Callers, NEW to \in Phases \ Collecting,
           phase' = [phase EXCEPT ![c] = to], phase[c] \notin Collecting,
           UNCHANGED <<elapsed, readAge, cached>>, Queued'
    PROVE  GpuInv'
  <1>1. phase \in [Callers -> Phases] BY DEF GpuInv
  <1>2. phase' \in [Callers -> Phases] /\ Running' = Running
        /\ \A d \in Callers : /\ phase'[d] = "windows" <=> phase[d] = "windows"
                              /\ phase'[d] = "windowsKilled" <=> phase[d] = "windowsKilled"
                              /\ phase'[d] \in Killed <=> phase[d] \in Killed
    BY <1>1 DEF Running, Collecting, Killed
  <1>3. Limit' = Limit BY <1>2 DEF Limit
  <1> QED BY <1>2, <1>3 DEF GpuInv, OneRuns, Cached, IsSnapshot, Expired, ReadingAge

\* The queue stays when nobody starts or stops waiting.
LEMMA QueueKept ==
    ASSUME GpuInv, UNCHANGED queue, NEW c \in Callers, NEW to \in Phases \ {"waiting"},
           phase' = [phase EXCEPT ![c] = to], phase[c] # "waiting"
    PROVE  Queued'
  BY DEF GpuInv, Queued, Phases

\* The first program has ended and the second one runs, under the same lock.
LEMMA StartWindowsKept ==
    ASSUME GpuConstants, GpuInv, NEW c \in Callers, phase[c] \in {"nvidia", "nvidiaKilled"},
           NEW devices, NEW failed, StartWindows(c, devices, failed)
    PROVE  GpuInv'
  <1>1. /\ phase' = [phase EXCEPT ![c] = "windows"] /\ elapsed' = 0 /\ readAge' = 0
        /\ UNCHANGED <<queue, cached>> /\ phase \in [Callers -> Phases]
    BY DEF StartWindows, GpuInv
  <1>2. /\ phase' \in [Callers -> Phases] /\ Running' = Running /\ c \in Running
    BY <1>1 DEF Running, Phases, Collecting, Killed
  <1>3. Queued' BY <1>1, QueueKept DEF Phases
  <1>4. Limit' \in Nat /\ Timeout \in Nat /\ Reap \in Nat BY DEF GpuConstants, Limit
  <1>5. elapsed' \in 0 .. Limit' /\ readAge' \in 0 .. Timeout + Reap BY <1>1, <1>4
  <1>6. \A d \in Callers : phase'[d] # "windowsKilled"
    BY <1>1, <1>2 DEF GpuInv, OneRuns, Running, Collecting, Killed
  <1>7. ReadingAge' BY <1>1, <1>6 DEF ReadingAge
  <1>8. OneRuns' /\ Cached' /\ Expired'
    BY <1>1, <1>2 DEF GpuInv, OneRuns, Cached, IsSnapshot, Expired
  <1> QED BY <1>2, <1>3, <1>5, <1>7, <1>8 DEF GpuInv

\* The program has had its time; it is killed under the same lock.
LEMMA KillKept ==
    ASSUME GpuConstants, GpuInv, NEW c \in Callers, ProgramTimesOut(c)
    PROVE  GpuInv'
  <1>1. /\ phase[c] \in {"nvidia", "windows"} /\ elapsed = Timeout /\ elapsed' = 0
        /\ UNCHANGED <<queue, gpus, reasons, readAge, cached>> /\ phase \in [Callers -> Phases]
    BY DEF ProgramTimesOut, Kill, GpuInv
  <1> DEFINE to == IF phase[c] = "nvidia" THEN "nvidiaKilled" ELSE "windowsKilled"
  <1>2. /\ phase' = [phase EXCEPT ![c] = to] /\ to \in Phases /\ to \in Killed
    BY <1>1 DEF ProgramTimesOut, Kill, Phases, Killed
  <1>3. /\ phase' \in [Callers -> Phases] /\ Running' = Running /\ c \in Running
    BY <1>1, <1>2 DEF Running, Collecting, Killed
  <1>4. Queued' BY <1>1, <1>2, QueueKept DEF Killed
  <1>5. \A d \in Callers : phase'[d] \in Collecting => d = c
    BY <1>3 DEF GpuInv, OneRuns, Running
  <1>6. phase[c] = "windows" => readAge = Timeout BY <1>1 DEF GpuInv, ReadingAge
  <1>7. Timeout \in Nat /\ Reap \in Nat /\ Limit' \in Nat BY DEF GpuConstants, Limit
  <1>8. elapsed' \in 0 .. Limit' BY <1>1, <1>7
  <1>9. phase'[c] = to BY <1>1, <1>2
  <1>10. ReadingAge'
    <2> SUFFICES ASSUME NEW d \in Callers
                 PROVE  /\ phase'[d] = "windows" => readAge' = elapsed'
                        /\ phase'[d] = "windowsKilled" => readAge' = Timeout + elapsed'
      BY DEF ReadingAge
    <2>1. phase'[d] # "windows" BY <1>2, <1>5, <1>9 DEF Collecting, Killed
    <2>2. phase'[d] = "windowsKilled" => phase[c] = "windows"
      BY <1>1, <1>5, <1>9 DEF Collecting, Killed
    <2> QED BY <1>1, <1>6, <1>7, <2>1, <2>2
  <1>11. OneRuns' /\ Cached' /\ Expired'
    BY <1>1, <1>3 DEF GpuInv, OneRuns, Cached, IsSnapshot, Expired
  <1> QED BY <1>1, <1>3, <1>4, <1>8, <1>10, <1>11 DEF GpuInv

\* A new snapshot: the old one had expired, and the new one is fresh.
LEMMA SnapshotKept ==
    ASSUME GpuConstants, GpuInv, NEW c \in Callers, phase[c] \in {"windows", "windowsKilled"},
           NEW processes, NEW adapters, NEW failed,
           TakeSnapshot(c, processes, adapters, failed)
    PROVE  /\ GpuInv'
           /\ cached # <<>> => Head(cached).age = CacheSeconds
           /\ Head(cached').age < CacheSeconds
           /\ Head(cached').readAge < Oldest
  <1> DEFINE s == [processes |-> processes, adapters |-> adapters,
                   gpus |-> gpus, degraded |-> reasons \cup failed,
                   age |-> 0, readAge |-> readAge]
  <1>1. /\ phase' = [phase EXCEPT ![c] = "done"] /\ elapsed' = 0 /\ readAge' = 0
        /\ queue' = queue /\ phase \in [Callers -> Phases] /\ cached' = <<s>>
        /\ readAge \in 0 .. Timeout + Reap
        /\ CacheSeconds \in Nat /\ CacheSeconds > 0 /\ Timeout \in Nat /\ Reap \in Nat
    BY DEF TakeSnapshot, GpuInv, GpuConstants
  <1>2. phase' \in [Callers -> Phases] /\ Running' = {}
        /\ \A d \in Callers : phase'[d] \notin {"windows", "windowsKilled"}
    BY <1>1 DEF GpuInv, OneRuns, Running, Phases, Collecting, Killed
  <1>3. Queued' BY <1>1, QueueKept DEF Phases
  <1>4. IsSnapshot(s)
    <2>1. s = [k \in DOMAIN s |-> s[k]] /\ {"age", "readAge"} \subseteq DOMAIN s OBVIOUS
    <2>2. s.age = 0 /\ s.readAge = readAge OBVIOUS
    <2> HIDE DEF s
    <2> QED BY <1>1, <2>1, <2>2 DEF IsSnapshot, Oldest
  <1>5. s.age = 0 /\ s.readAge = readAge OBVIOUS
  <1> HIDE DEF s
  <1>6. cached'[1] = s /\ Head(cached') = s BY <1>1
  <1>7. Cached' BY <1>1, <1>4, <1>6 DEF Cached, IsSnapshot
  <1>8. GpuInv'
    <2>1. Limit' \in Nat BY <1>1 DEF Limit
    <2>2. elapsed' \in 0 .. Limit' /\ readAge' \in 0 .. Timeout + Reap BY <1>1, <2>1
    <2> QED BY <1>1, <1>2, <1>3, <1>7, <2>2 DEF GpuInv, OneRuns, Expired, ReadingAge
  <1>9. cached # <<>> => Head(cached).age = CacheSeconds
    <2> SUFFICES ASSUME cached # <<>> PROVE Head(cached).age = CacheSeconds OBVIOUS
    <2>1. cached = <<cached[1]>> BY DEF GpuInv, Cached
    <2>2. Running # {} BY DEF Running, Collecting, Killed
    <2>3. cached[1].age = CacheSeconds BY <2>2 DEF GpuInv, Expired
    <2> DEFINE old == cached[1]
    <2>4. cached = <<old>> BY <2>1
    <2> HIDE DEF old
    <2>5. Head(cached) = old BY <2>4
    <2> QED BY <2>3, <2>5 DEF old
  <1>10. readAge < Oldest BY <1>1 DEF Oldest
  <1> QED BY <1>1, <1>5, <1>6, <1>8, <1>9, <1>10

\* An answer from the cache.
LEMMA FreshShown ==
    ASSUME GpuConstants, GpuInv, Fresh, UNCHANGED cached
    PROVE  /\ Head(cached').age < CacheSeconds
           /\ Head(cached').readAge < Oldest
  <1>1. cached = <<cached[1]>> /\ IsSnapshot(cached[1]) BY DEF GpuInv, Cached, Fresh
  <1> DEFINE s == cached[1]
  <1>2. cached = <<s>> /\ IsSnapshot(s) BY <1>1
  <1> HIDE DEF s
  <1>3. Head(cached) = s BY <1>2
  <1>4. s.age < CacheSeconds BY <1>3 DEF Fresh
  <1>5. /\ s.age \in Nat /\ s.readAge \in Nat /\ s.readAge <= s.age + Timeout + Reap
        /\ CacheSeconds \in Nat /\ Timeout \in Nat /\ Reap \in Nat
    BY <1>2 DEF IsSnapshot, GpuConstants, Oldest
  <1> QED BY <1>3, <1>4, <1>5 DEF Oldest

\* Two ages that grow, each up to its limit, stay as far apart.
LEMMA OlderKept ==
    ASSUME CacheSeconds \in Nat, Timeout \in Nat, Reap \in Nat,
           NEW age \in 0 .. CacheSeconds, NEW reading \in 0 .. Oldest,
           reading <= age + Timeout + Reap
    PROVE  /\ Older(age, CacheSeconds) \in 0 .. CacheSeconds
           /\ Older(reading, Oldest) \in 0 .. Oldest
           /\ Older(reading, Oldest) <= Older(age, CacheSeconds) + Timeout + Reap
  <1> USE DEF Oldest, Older
  <1>1. CASE age < CacheSeconds BY <1>1
  <1>2. CASE age = CacheSeconds BY <1>2
  <1> QED BY <1>1, <1>2

\* Time passes: the snapshot ages, and its readings with it.
LEMMA TickKept ==
    ASSUME GpuConstants, GpuInv, Tick
    PROVE  GpuInv'
  <1>1. /\ CacheSeconds \in Nat /\ Timeout \in Nat /\ Reap \in Nat
        /\ elapsed \in 0 .. Limit /\ readAge \in 0 .. Timeout + Reap
        /\ UNCHANGED <<phase, queue>>
    BY DEF GpuConstants, GpuInv, Tick
  <1>2. Running' = Running /\ UNCHANGED phase /\ Limit' = Limit /\ Limit \in Nat
    BY <1>1 DEF Running, Limit
  <1>3. elapsed' \in 0 .. Limit BY <1>1, <1>2 DEF Tick
  <1>4. ASSUME NEW c \in Callers, phase[c] \in {"windows", "windowsKilled"}
        PROVE  /\ phase[c] = "windows" => readAge' = elapsed'
               /\ phase[c] = "windowsKilled" => readAge' = Timeout + elapsed'
               /\ readAge' \in 0 .. Timeout + Reap
    <2>1. c \in Running BY <1>4 DEF Running, Collecting, Killed
    <2>2. readAge' = readAge + 1 /\ elapsed' = elapsed + 1 /\ elapsed < Limit
      BY <1>4, <2>1 DEF Tick
    <2>3. CASE phase[c] = "windows"
      <3>1. Limit = Timeout BY <2>1, <2>3 DEF GpuInv, OneRuns, Running, Collecting, Killed, Limit
      <3>2. readAge = elapsed BY <2>3 DEF GpuInv, ReadingAge
      <3> QED BY <1>1, <2>2, <2>3, <3>1, <3>2
    <2>4. CASE phase[c] = "windowsKilled"
      <3>1. Limit = Reap BY <2>4 DEF Killed, Limit
      <3>2. readAge = Timeout + elapsed BY <2>4 DEF GpuInv, ReadingAge
      <3> QED BY <1>1, <2>2, <2>4, <3>1, <3>2
    <2> QED BY <1>4, <2>3, <2>4
  <1>5. readAge' \in 0 .. Timeout + Reap
    <2>1. CASE \E c \in Callers : phase[c] \in {"windows", "windowsKilled"} BY <1>4, <2>1
    <2>2. CASE ~ \E c \in Callers : phase[c] \in {"windows", "windowsKilled"}
      <3>1. readAge' = 0 BY <2>2 DEF Tick
      <3> QED BY <1>1, <3>1
    <2> QED BY <2>1, <2>2
  <1>6. Cached' /\ Expired'
    <2>1. CASE cached = <<>> BY <2>1 DEF Tick, Cached, Expired
    <2>2. CASE cached # <<>>
      <3> DEFINE s == cached[1]
                 t == [s EXCEPT !.age = Older(@, CacheSeconds), !.readAge = Older(@, Oldest)]
      <3>1. cached' = <<t>> BY <2>2 DEF Tick
      <3>2. IsSnapshot(s) BY <2>2 DEF GpuInv, Cached
      <3>3. /\ s.age \in 0 .. CacheSeconds /\ s.readAge \in 0 .. Oldest
            /\ s.readAge <= s.age + Timeout + Reap
        BY <3>2 DEF IsSnapshot, Oldest
      <3>4. s = [k \in DOMAIN s |-> s[k]] /\ {"age", "readAge"} \subseteq DOMAIN s
        BY <3>2 DEF IsSnapshot
      <3>5. /\ t = [k \in DOMAIN t |-> t[k]] /\ {"age", "readAge"} \subseteq DOMAIN t
            /\ t.age = Older(s.age, CacheSeconds) /\ t.readAge = Older(s.readAge, Oldest)
        <4> HIDE DEF s
        <4> QED BY <3>4
      <3> HIDE DEF t
      <3>6. t.age \in 0 .. CacheSeconds /\ t.readAge \in 0 .. Oldest /\ t.readAge <= t.age + Timeout + Reap
        <4> HIDE DEF s
        <4> QED BY <1>1, <3>3, <3>5, OlderKept
      <3>7. IsSnapshot(t) BY <3>5, <3>6 DEF IsSnapshot
      <3>8. cached'[1] = t BY <3>1
      <3>9. Cached' BY <3>1, <3>7, <3>8 DEF Cached, IsSnapshot
      <3>10. s.age = CacheSeconds => t.age = CacheSeconds BY <1>1, <3>5 DEF Older
      <3>11. Expired' BY <1>2, <2>2, <3>8, <3>10 DEF GpuInv, Expired
      <3> QED BY <3>9, <3>11
    <2> QED BY <2>1, <2>2
  <1>7. Queued' BY <1>1 DEF GpuInv, Queued
  <1>8. ReadingAge' BY <1>2, <1>4 DEF ReadingAge
  <1> QED BY <1>1, <1>2, <1>3, <1>5, <1>6, <1>7, <1>8 DEF GpuInv, OneRuns

-----------------------------------------------------------------------------
(* The steps together. *)

\* A snapshot is only replaced when it has expired.
ReplacesExpired ==
    cached # <<>> /\ phase' # phase /\ cached' # cached => Head(cached).age = CacheSeconds
\* What a caller is given is fresh.
ShowsFresh ==
    \A c \in Callers : phase[c] # "done" /\ phase'[c] = "done"
        => /\ Head(cached').age < CacheSeconds
           /\ Head(cached').readAge < Oldest

\* What every step keeps and shows.
LEMMA NextGpu ==
    ASSUME GpuConstants, GpuInv, GpuNext
    PROVE  GpuInv' /\ ReplacesExpired /\ ShowsFresh
  <1>1. phase \in [Callers -> Phases] /\ Queued BY DEF GpuInv
  <1> DEFINE Fine == GpuInv' /\ ReplacesExpired /\ ShowsFresh
  <1>2. ASSUME GpuInv', UNCHANGED cached, \A c \in Callers : phase'[c] = "done" => phase[c] = "done"
        PROVE  Fine
    BY <1>2 DEF ReplacesExpired, ShowsFresh
  <1>3. ASSUME GpuInv', UNCHANGED cached, Fresh PROVE Fine
    BY <1>3, FreshShown DEF ReplacesExpired, ShowsFresh
  <1>4. ASSUME NEW c \in Callers, Sample(c) PROVE Fine
    <2>1. CASE Fresh /\ phase' = [phase EXCEPT ![c] = "done"]
               /\ UNCHANGED <<queue, elapsed, gpus, reasons, readAge, cached>>
      <3>1. phase[c] = "idle" BY <1>4 DEF Sample
      <3>2. Queued' BY <2>1, <3>1, QueueKept DEF Phases
      <3>3. GpuInv' BY <2>1, <3>1, <3>2, PhaseKept DEF Phases, Collecting, Killed
      <3> QED BY <1>3, <2>1, <3>3
    <2>2. CASE ~Fresh /\ Running = {} /\ queue = <<>> /\ Collect(c) /\ UNCHANGED queue
      <3>1. phase[c] = "idle" /\ phase' = [phase EXCEPT ![c] = "nvidia"]
            /\ UNCHANGED cached
        BY <1>4, <2>2 DEF Sample, Collect
      <3>2. Queued' BY <2>2, <3>1, QueueKept DEF Phases
      <3>3. GpuInv' BY <2>2, <3>2, CollectKept
      <3> QED BY <1>1, <1>2, <3>1, <3>3
    <2>3. CASE /\ phase' = [phase EXCEPT ![c] = "waiting"] /\ queue' = Append(queue, c)
               /\ UNCHANGED <<elapsed, gpus, reasons, readAge, cached>>
      <3>1. phase[c] = "idle" BY <1>4 DEF Sample
      <3>2. c \notin ToSet(queue) /\ queue \in Seq(Callers) /\ IsInjective(queue)
            /\ ToSet(queue) = {d \in Callers : phase[d] = "waiting"}
        BY <1>1, <3>1 DEF Queued
      <3>3. {d \in Callers : phase'[d] = "waiting"}
              = {d \in Callers : phase[d] = "waiting"} \cup {c}
        BY <1>1, <2>3
      <3>4. Queued' BY <2>3, <3>2, <3>3, QueueJoined DEF Queued
      <3>5. GpuInv' BY <2>3, <3>1, <3>4, PhaseKept DEF Phases, Collecting, Killed
      <3> QED BY <1>1, <1>2, <2>3, <3>5
    <2> QED BY <1>4, <2>1, <2>2, <2>3 DEF Sample
  <1>5. ASSUME NEW c \in Callers, Acquire(c) PROVE Fine
    <2>1. /\ queue # <<>> /\ c = Head(queue) /\ Running = {} /\ queue' = Tail(queue)
          /\ queue \in Seq(Callers) /\ IsInjective(queue)
          /\ ToSet(queue) = {d \in Callers : phase[d] = "waiting"}
      BY <1>1, <1>5 DEF Acquire, Queued
    <2>2. /\ queue' \in Seq(Callers) /\ IsInjective(queue')
          /\ ToSet(queue') = ToSet(queue) \ {c}
      BY <2>1, QueueLeft
    <2>3. phase[c] = "waiting"
      <3>1. c \in ToSet(queue)
        <4>1. 1 \in DOMAIN queue /\ Head(queue) = queue[1] BY <2>1
        <4> QED BY <2>1, <4>1 DEF ToSet
      <3> QED BY <2>1, <3>1
    <2>4. ASSUME NEW to \in Phases \ {"waiting"}, phase' = [phase EXCEPT ![c] = to]
          PROVE  Queued'
      <3>1. {d \in Callers : phase'[d] = "waiting"}
              = {d \in Callers : phase[d] = "waiting"} \ {c}
        BY <1>1, <2>4
      <3> QED BY <2>1, <2>2, <3>1 DEF Queued
    <2>5. CASE Fresh
      <3>1. phase' = [phase EXCEPT ![c] = "done"]
            /\ UNCHANGED <<elapsed, gpus, reasons, readAge, cached>>
        BY <1>5, <2>5 DEF Acquire
      <3>2. GpuInv' BY <2>3, <2>4, <3>1, PhaseKept DEF Phases, Collecting, Killed
      <3> QED BY <1>3, <2>5, <3>1, <3>2
    <2>6. CASE ~Fresh
      <3>1. Collect(c) /\ phase' = [phase EXCEPT ![c] = "nvidia"] /\ UNCHANGED cached
        BY <1>5, <2>6 DEF Acquire, Collect
      <3>2. GpuInv' BY <2>1, <2>4, <2>6, <3>1, CollectKept DEF Phases
      <3> QED BY <1>1, <1>2, <3>1, <3>2
    <2> QED BY <2>5, <2>6
  <1>6. ASSUME NEW c \in Callers, Return(c) PROVE Fine
    <2>1. /\ phase[c] = "done" /\ phase' = [phase EXCEPT ![c] = "idle"]
          /\ UNCHANGED <<queue, elapsed, gpus, reasons, readAge, cached>>
      BY <1>6 DEF Return
    <2>2. Queued' BY <2>1, QueueKept DEF Phases
    <2>3. GpuInv' BY <2>1, <2>2, PhaseKept DEF Phases, Collecting, Killed
    <2> QED BY <1>1, <1>2, <2>1, <2>3
  <1>7. ASSUME NEW c \in Callers, phase[c] \in {"nvidia", "nvidiaKilled"},
               NEW devices, NEW failed, StartWindows(c, devices, failed)
        PROVE  Fine
    <2>1. GpuInv' BY <1>7, StartWindowsKept
    <2>2. phase' = [phase EXCEPT ![c] = "windows"] /\ UNCHANGED cached
      BY <1>7 DEF StartWindows
    <2> QED BY <1>1, <1>2, <2>1, <2>2
  <1>8. ASSUME NEW c \in Callers, phase[c] \in {"windows", "windowsKilled"},
               NEW processes, NEW adapters, NEW failed, TakeSnapshot(c, processes, adapters, failed)
        PROVE  Fine
    <2>1. /\ GpuInv'
          /\ cached # <<>> => Head(cached).age = CacheSeconds
          /\ Head(cached').age < CacheSeconds
          /\ Head(cached').readAge < Oldest
      BY <1>8, SnapshotKept
    <2> QED BY <2>1 DEF ReplacesExpired, ShowsFresh
  <1>9. ASSUME Tick PROVE Fine
    BY <1>9, TickKept DEF Tick, ReplacesExpired, ShowsFresh
  <1> HIDE DEF Fine
  <1>10. ASSUME NEW c \in Callers,
               NvidiaAnswers(c) \/ NvidiaFails(c) \/ WindowsAnswers(c) \/ WindowsFails(c)
                  \/ Reaped(c)
        PROVE  Fine
    BY <1>7, <1>8, <1>10 DEF NvidiaAnswers, NvidiaFails, WindowsAnswers, WindowsFails, Reaped
  <1>11. ASSUME NEW c \in Callers, ProgramTimesOut(c) PROVE Fine
    <2>1. GpuInv' BY <1>11, KillKept
    <2>2. UNCHANGED cached /\ \A d \in Callers : phase'[d] = "done" => phase[d] = "done"
      BY <1>1, <1>11 DEF ProgramTimesOut, Kill
    <2> QED BY <1>2, <2>1, <2>2
  <1>12. Fine BY <1>4, <1>5, <1>6, <1>9, <1>10, <1>11 DEF GpuNext
  <1> QED BY <1>12 DEF Fine

\* A step that changes nothing.
LEMMA GpuStutter == GpuInv /\ UNCHANGED gpuVars => GpuInv'
  BY DEF GpuInv, gpuVars, OneRuns, Running, Queued, Cached, IsSnapshot, Expired, ReadingAge,
         Limit

\* At the start nobody runs a program and nothing is cached.
LEMMA InitGpu == GpuConstants /\ GpuInit => GpuInv
  <1> SUFFICES ASSUME GpuConstants, GpuInit PROVE GpuInv OBVIOUS
  <1>1. phase \in [Callers -> Phases] /\ \A c \in Callers : phase[c] = "idle"
    BY DEF GpuInit, Phases
  <1>2. Queued
    <2>1. queue = <<>> BY DEF GpuInit
    <2> QED BY <1>1, <2>1 DEF Queued, IsInjective, ToSet
  <1>3. 0 \in 0 .. Limit /\ 0 \in 0 .. Timeout + Reap BY DEF GpuConstants, Limit
  <1> QED BY <1>1, <1>2, <1>3
      DEF GpuInit, GpuInv, OneRuns, Running, Cached, Expired, ReadingAge, Collecting, Killed

\* So the invariant holds throughout.
LEMMA GpuInvariant == GpuSpec => []GpuInv
  <1>1. GpuInit => GpuInv BY InitGpu, GpuConstants
  <1>2. GpuInv /\ [GpuNext]_gpuVars => GpuInv' BY NextGpu, GpuStutter, GpuConstants
  <1> QED BY <1>1, <1>2, PTL DEF GpuSpec

\* However many callers wait, the programs run once for a period of the cache
\* (GpuMonitor.sample looks at the cache again once it has the lock).
THEOREM OneCollectionHolds == GpuSpec => OneCollection
  <1>1. GpuInv /\ [GpuNext]_gpuVars => [ReplacesExpired]_gpuVars
    BY NextGpu, GpuConstants
  <1> QED BY <1>1, GpuInvariant, PTL DEF GpuSpec, OneCollection, ReplacesExpired

\* What a caller is given is younger than the cache's period, and its readings
\* are at most one run of a program older than that.
THEOREM AnswersAreFreshHolds == GpuSpec => AnswersAreFresh
  <1>1. GpuInv /\ [GpuNext]_gpuVars => [ShowsFresh]_gpuVars
    BY NextGpu, GpuConstants
  <1> QED BY <1>1, GpuInvariant, PTL DEF GpuSpec, AnswersAreFresh, ShowsFresh

-----------------------------------------------------------------------------
(* Sorting: the rows of the processes and the adapters, each once. *)

\* A set up[x] for each member, one inside the other.
Nested(S, up) ==
    /\ IsFiniteSet(S) /\ up \in [S -> SUBSET S]
    /\ \A x \in S : x \in up[x]
    /\ \A x, y \in S : x # y => \/ up[x] \subseteq up[y] /\ y \notin up[x]
                                \/ up[y] \subseteq up[x] /\ x \notin up[y]

\* What is in the order of sets that contain each other has a place of its own.
LEMMA Ranked ==
    ASSUME NEW S, NEW up, Nested(S, up)
    PROVE  /\ \A i \in 1 .. Cardinality(S) : \E x \in S : Cardinality(up[x]) = i
           /\ \A x \in S : Cardinality(up[x]) \in 1 .. Cardinality(S)
           /\ \A x, y \in S : Cardinality(up[x]) = Cardinality(up[y]) => x = y
  <1> DEFINE n == Cardinality(S)
             rank == [x \in S |-> Cardinality(up[x])]
  <1> USE DEF Nested
  <1>1. n \in Nat BY FS_CardinalityType
  <1>2. \A x \in S : IsFiniteSet(up[x]) /\ Cardinality(up[x]) <= n
    BY FS_Subset
  <1>3. \A x \in S : Cardinality(up[x]) \in 1 .. n
    <2>1. SUFFICES ASSUME NEW x \in S PROVE Cardinality(up[x]) \in 1 .. n OBVIOUS
    <2>2. Cardinality(up[x]) \in Nat BY <1>2, FS_CardinalityType
    <2>3. Cardinality(up[x]) # 0 BY <1>2, FS_EmptySet
    <2> QED BY <1>1, <1>2, <2>2, <2>3
  <1>4. \A x, y \in S : up[x] \subseteq up[y] /\ y \notin up[x] =>
           Cardinality(up[x]) # Cardinality(up[y])
    <2>1. SUFFICES ASSUME NEW x \in S, NEW y \in S, up[x] \subseteq up[y], y \notin up[x]
          PROVE  Cardinality(up[x]) # Cardinality(up[y])
      OBVIOUS
    <2>2. IsFiniteSet(up[y]) /\ up[x] \in SUBSET up[y] /\ up[x] # up[y] BY <1>2, <2>1
    <2> QED BY <2>2, FS_Subset
  <1>5. \A x, y \in S : Cardinality(up[x]) = Cardinality(up[y]) => x = y
    BY <1>4
  <1>6. rank \in Injection(S, 1 .. n)
    <2>1. rank \in [S -> 1 .. n] BY <1>3
    <2>2. \A x, y \in S : rank[x] = rank[y] => x = y BY <1>5
    <2> QED BY <2>1, <2>2 DEF Injection, IsInjective
  <1>7. IsFiniteSet(1 .. n) /\ Cardinality(1 .. n) = n
    <2>1. 1 \in Int /\ n \in Int BY <1>1
    <2>2. IsFiniteSet(1 .. n) /\ Cardinality(1 .. n) = IF 1 > n THEN 0 ELSE n - 1 + 1
      BY <2>1, FS_Interval
    <2> QED BY <1>1, <2>2
  <1>8. rank \in Surjection(S, 1 .. n)
    <2> HIDE DEF rank
    <2> QED BY <1>6, <1>7, FS_Injection
  <1>9. \A i \in 1 .. n : \E x \in S : rank[x] = i BY <1>8 DEF Surjection
  <1> QED BY <1>3, <1>5, <1>9

\* Each member of the set once.
IsPlaced(seq, S) ==
    /\ seq \in Seq(S) /\ Len(seq) = Cardinality(S)
    /\ ToSet(seq) = S /\ \A i, j \in 1 .. Len(seq) : seq[i] = seq[j] => i = j

\* The members of a finite set in the order of their places.
LEMMA Placed ==
    ASSUME NEW S, NEW up, Nested(S, up)
    PROVE  IsPlaced(Sorted(up), S)
  <1> DEFINE seq == Sorted(up)
  <1>1. DOMAIN up = S BY DEF Nested
  <1>2. seq = [i \in 1 .. Cardinality(S) |-> CHOOSE x \in S : Cardinality(up[x]) = i]
    BY <1>1 DEF Sorted
  <1> HIDE DEF seq
  <1>3. Cardinality(S) \in Nat BY FS_CardinalityType DEF Nested
  <1>4. /\ \A i \in 1 .. Cardinality(S) : \E x \in S : Cardinality(up[x]) = i
        /\ \A x \in S : Cardinality(up[x]) \in 1 .. Cardinality(S)
        /\ \A x, y \in S : Cardinality(up[x]) = Cardinality(up[y]) => x = y
    BY Ranked
  <1>5. \A i \in 1 .. Cardinality(S) : seq[i] \in S /\ Cardinality(up[seq[i]]) = i
    BY <1>2, <1>4
  <1>6. seq \in [1 .. Cardinality(S) -> S] BY <1>2, <1>5
  <1>7. seq \in Seq(S) /\ Len(seq) = Cardinality(S) /\ DOMAIN seq = 1 .. Cardinality(S)
    BY <1>3, <1>6
  <1>8. \A x \in S : \E i \in 1 .. Cardinality(S) : seq[i] = x
    <2>1. SUFFICES ASSUME NEW x \in S PROVE \E i \in 1 .. Cardinality(S) : seq[i] = x
      OBVIOUS
    <2> DEFINE i == Cardinality(up[x])
    <2>2. i \in 1 .. Cardinality(S) BY <1>4
    <2>3. seq[i] \in S /\ Cardinality(up[seq[i]]) = i BY <1>5, <2>2
    <2>4. seq[i] = x BY <1>4, <2>3
    <2> QED BY <2>2, <2>4
  <1>9. ToSet(seq) = S BY <1>5, <1>7, <1>8 DEF ToSet
  <1>10. ASSUME NEW i \in 1 .. Len(seq), NEW j \in 1 .. Len(seq), seq[i] = seq[j]
        PROVE  i = j
    <2>1. Cardinality(up[seq[i]]) = i /\ Cardinality(up[seq[j]]) = j BY <1>5, <1>7
    <2> QED BY <2>1, <1>10
  <1>11. IsPlaced(seq, S) BY <1>7, <1>9, <1>10 DEF IsPlaced
  <1> QED BY <1>11 DEF seq

\* The keys of the valid counters are finitely many.
LEMMA KeysFinite ==
    ASSUME NEW counters \in Seq([pid : Int, adapter : Nat, value : Int])
    PROVE  /\ IsFiniteSet(Keys(counters))
           /\ \A key \in Keys(counters) : key \in Int \X Nat /\ key[2] # 0
  <1> DEFINE at == {i \in 1 .. Len(counters) : Counts(counters[i])}
             f == [i \in at |-> Key(counters[i])]
             R == [pid : Int, adapter : Nat, value : Int]
  <1>1. Len(counters) \in Nat /\ DOMAIN counters = 1 .. Len(counters) OBVIOUS
  <1>2. IsFiniteSet(1 .. Len(counters)) BY <1>1, FS_Interval
  <1>3. IsFiniteSet(at) BY <1>2, FS_Subset
  <1>4. Keys(counters) = {Key(counters[i]) : i \in at} BY <1>1 DEF Keys, ToSet
  <1>5. f \in Surjection(at, Keys(counters)) BY <1>4 DEF Surjection
  <1>6. IsFiniteSet(Keys(counters))
    <2> HIDE DEF at, f
    <2> QED BY <1>3, <1>5, FS_Surjection
  <1>7. ASSUME NEW key \in Keys(counters)
        PROVE  key \in Int \X Nat /\ key[2] # 0
    <2>1. PICK i \in at : key = Key(counters[i]) BY <1>4
    <2>2. i \in 1 .. Len(counters) OBVIOUS
    <2> DEFINE row == counters[i]
    <2>3. row \in R
      <3>1. counters \in Seq(R) OBVIOUS
      <3> HIDE DEF R, at
      <3> QED BY <3>1, <2>2
    <2>4. Counts(row) OBVIOUS
    <2> HIDE DEF row
    <2>5. row.pid \in Int /\ row.adapter \in Nat /\ row.adapter # 0 BY <2>3, <2>4 DEF Counts
    <2>6. key = <<row.pid, row.adapter>> BY <2>1 DEF Key, row
    <2> QED BY <2>5, <2>6
  <1> QED BY <1>6, <1>7

\* The fold over the counters.
UsageFold == INSTANCE FoldLemmas WITH Op <- AddUsage

\* What the counters say of a process on an adapter is the fold, and a number.
LEMMA UsageTyped ==
    ASSUME NEW counters \in Seq([pid : Int, adapter : Nat, value : Int]), NEW key
    PROVE  /\ UsageOf(counters, key) = UsageFold!Fold(0, counters, key)
           /\ UsageOf(counters, key) \in Int
  <1>1. UsageOf(counters, key) = UsageFold!Fold(0, counters, key)
    BY Zenon DEF UsageOf, UsageFold!Fold, FoldLeft, MapThenFoldSet, UsageFold!FoldLeft,
                 UsageFold!MapThenFoldSet, Max, UsageFold!Max
  <1>2. \A sum \in Int, row \in [pid : Int, adapter : Nat, value : Int] :
           AddUsage(sum, row, key) \in Int
    BY DEF AddUsage
  <1>3. 0 \in Int OBVIOUS
  <1>4. UsageFold!Fold(0, counters, key) \in Int BY <1>2, <1>3, UsageFold!FoldKeeps, Zenon
  <1> QED BY <1>1, <1>4

\* The order of the rows has no gaps.
LEMMA BeforeThrough ==
    ASSUME NEW p, NEW q, NEW r,
           p.bytes \in Int, p.pid \in Int, p.adapter \in Nat,
           q.bytes \in Int, q.pid \in Int, q.adapter \in Nat,
           r.bytes \in Int, r.pid \in Int, r.adapter \in Nat,
           Before(p, q), Before(q, r)
    PROVE  Before(p, r)
  <1>1. CASE p.bytes > q.bytes BY <1>1 DEF Before
  <1>2. CASE p.bytes = q.bytes /\ p.pid < q.pid BY <1>2 DEF Before
  <1>3. CASE p.bytes = q.bytes /\ p.pid = q.pid /\ p.adapter <= q.adapter
    BY <1>3 DEF Before
  <1> QED BY <1>1, <1>2, <1>3 DEF Before

\* The rows of the processes: one for each key, in some order without repetition.
LEMMA RowsPlaced ==
    ASSUME NEW out, out.counters \in Seq([pid : Int, adapter : Nat, value : Int])
    PROVE  IsPlaced(ParseProcesses(out), {GpuProcess(out, key) : key \in Keys(out.counters)})
  <1> DEFINE K == Keys(out.counters)
             S == {GpuProcess(out, key) : key \in K}
             up == [x \in S |-> {y \in S : Before(y, x)}]
             seq == ParseProcesses(out)
  <1>1. IsFiniteSet(K) /\ \A key \in K : key \in Int \X Nat /\ key[2] # 0 BY KeysFinite
  <1>2. IsFiniteSet(S)
    <2> DEFINE f == [key \in K |-> GpuProcess(out, key)]
    <2>1. f \in Surjection(K, S) BY DEF Surjection
    <2> HIDE DEF f, S, K
    <2> QED BY <1>1, <2>1, FS_Surjection
  <1>3. \A x \in S : /\ x.bytes \in Int /\ x.pid \in Int /\ x.adapter \in Nat
                     /\ x = GpuProcess(out, <<x.pid, x.adapter>>)
    <2>1. SUFFICES ASSUME NEW key \in K
          PROVE  LET x == GpuProcess(out, key)
                 IN  /\ x.bytes \in Int /\ x.pid \in Int /\ x.adapter \in Nat
                     /\ x = GpuProcess(out, <<x.pid, x.adapter>>)
      OBVIOUS
    <2> DEFINE x == GpuProcess(out, key)
    <2>2. /\ x.pid = key[1] /\ x.adapter = key[2] /\ x.bytes = UsageOf(out.counters, key)
      BY DEF GpuProcess
    <2>3. UsageOf(out.counters, key) \in Int BY UsageTyped
    <2>4. key = <<key[1], key[2]>> /\ key[1] \in Int /\ key[2] \in Nat BY <1>1
    <2> HIDE DEF x
    <2>5. <<x.pid, x.adapter>> = key BY <2>2, <2>4
    <2> QED BY <2>2, <2>3, <2>4, <2>5 DEF x
  <1>4. up \in [S -> SUBSET S] OBVIOUS
  <1>5. \A x \in S : x \in up[x]
    <2> HIDE DEF S
    <2>1. ASSUME NEW x \in S PROVE Before(x, x)
      <3>1. x.bytes \in Int /\ x.pid \in Int /\ x.adapter \in Nat BY <1>3
      <3> QED BY <3>1 DEF Before
    <2> QED BY <2>1
  <1>6. \A x, y \in S : x # y => \/ up[x] \subseteq up[y] /\ y \notin up[x]
                                 \/ up[y] \subseteq up[x] /\ x \notin up[y]
    <2>1. SUFFICES ASSUME NEW x \in S, NEW y \in S, x # y
          PROVE  \/ up[x] \subseteq up[y] /\ y \notin up[x]
                 \/ up[y] \subseteq up[x] /\ x \notin up[y]
      OBVIOUS
    <2>2. x.bytes # y.bytes \/ x.pid # y.pid \/ x.adapter # y.adapter
      <3> HIDE DEF S
      <3> QED BY <1>3, <2>1
    <2> HIDE DEF S
    <2>3. /\ x.bytes \in Int /\ x.pid \in Int /\ x.adapter \in Nat
          /\ y.bytes \in Int /\ y.pid \in Int /\ y.adapter \in Nat
      BY <1>3
    <2>4. \/ Before(x, y) /\ ~Before(y, x)
          \/ Before(y, x) /\ ~Before(x, y)
      <3> HIDE DEF GpuProcess
      <3> QED BY <2>2, <2>3 DEF Before
    <2>5. \A z \in S : /\ Before(z, x) /\ Before(x, y) => Before(z, y)
                       /\ Before(z, y) /\ Before(y, x) => Before(z, x)
      <3> SUFFICES ASSUME NEW z \in S
          PROVE  /\ Before(z, x) /\ Before(x, y) => Before(z, y)
                 /\ Before(z, y) /\ Before(y, x) => Before(z, x)
        OBVIOUS
      <3>1. z.bytes \in Int /\ z.pid \in Int /\ z.adapter \in Nat BY <1>3
      <3> HIDE DEF seq
      <3> QED BY <2>3, <3>1, BeforeThrough
    <2> QED BY <2>4, <2>5
  <1>7. seq = Sorted(up) BY DEF ParseProcesses
  <1> HIDE DEF S, up, seq
  <1>8. Nested(S, up) BY <1>2, <1>4, <1>5, <1>6, Zenon DEF Nested
  <1>9. IsPlaced(seq, S) BY <1>7, <1>8, Placed, Zenon
  <1> QED BY <1>9 DEF S, seq

\* And the adapters, each once.
LEMMA AdaptersPlaced ==
    ASSUME NEW out,
           out.adapters \subseteq [id : Nat, dedicated : Nat], IsFiniteSet(out.adapters),
           \A s, t \in out.adapters : s.id = t.id => s = t \/ s.id = 0
    PROVE  IsPlaced(ParseAdapters(out), {row \in out.adapters : row.id # 0})
  <1> DEFINE S == {row \in out.adapters : row.id # 0}
             up == [x \in S |-> {y \in S : NotAfter(y, x)}]
             seq == ParseAdapters(out)
  <1>1. S \in SUBSET out.adapters OBVIOUS
  <1>2. IsFiniteSet(S) BY <1>1, FS_Subset
  <1>3. \A x \in S : x.id \in Nat OBVIOUS
  <1>4. up \in [S -> SUBSET S] OBVIOUS
  <1>5. \A x \in S : x \in up[x] BY <1>3 DEF NotAfter
  <1>6. \A x, y \in S : x # y => \/ up[x] \subseteq up[y] /\ y \notin up[x]
                                 \/ up[y] \subseteq up[x] /\ x \notin up[y]
    <2>1. \A x, y \in S : x # y => x.id # y.id OBVIOUS
    <2> HIDE DEF S
    <2> QED BY <1>3, <2>1 DEF NotAfter
  <1>7. seq = Sorted(up) BY DEF ParseAdapters
  <1> HIDE DEF S, up, seq
  <1>8. Nested(S, up) BY <1>2, <1>4, <1>5, <1>6, Zenon DEF Nested
  <1>9. IsPlaced(seq, S) BY <1>7, <1>8, Placed, Zenon
  <1> QED BY <1>9 DEF S, seq

-----------------------------------------------------------------------------
(* What the rows add up to. *)

\* Two more folds, over the counters and over the rows.
MeasuredFold == INSTANCE FoldLemmas WITH Op <- AddMeasured
ShownFold == INSTANCE FoldLemmas WITH Op <- AddShown

\* The sum of w over the places of a sequence.
AddWeight(sum, j, w) == sum + w[j]
WeightFold == INSTANCE FoldLemmas WITH Op <- AddWeight
Places(m) == [j \in 1 .. m |-> j]
SumOf(w, m) == WeightFold!Fold(0, Places(m), w)

\* The places are the numbers in order.
LEMMA PlacesIs ==
    ASSUME NEW m \in Nat
    PROVE  /\ Places(m) \in Seq(1 .. m) /\ Len(Places(m)) = m
           /\ \A j \in 1 .. m : Places(m)[j] = j
  BY DEF Places

\* Nothing adds up to nothing.
LEMMA SumZero ==
    ASSUME NEW m \in Nat, NEW w, \A j \in 1 .. m : w[j] = 0
    PROVE  SumOf(w, m) = 0
  <1>1. \A a \in {0}, j \in 1 .. m : AddWeight(a, j, w) \in {0} BY DEF AddWeight
  <1>2. Places(m) \in Seq(1 .. m) BY PlacesIs
  <1>3. 0 \in {0} OBVIOUS
  <1>4. WeightFold!Fold(0, Places(m), w) \in {0}
    BY <1>1, <1>2, <1>3, WeightFold!FoldKeeps, Zenon
  <1> QED BY <1>4 DEF SumOf

\* A sum of numbers is a number.
LEMMA SumTyped ==
    ASSUME NEW m \in Nat, NEW w \in [1 .. m -> Int]
    PROVE  SumOf(w, m) \in Int
  <1>1. \A a \in Int, j \in 1 .. m : AddWeight(a, j, w) \in Int BY DEF AddWeight
  <1>2. Places(m) \in Seq(1 .. m) BY PlacesIs
  <1>3. 0 \in Int OBVIOUS
  <1>4. WeightFold!Fold(0, Places(m), w) \in Int
    BY <1>1, <1>2, <1>3, WeightFold!FoldKeeps, Zenon
  <1> QED BY <1>4 DEF SumOf

\* What grows at one place makes the sum grow.
LEMMA SumGrows ==
    ASSUME NEW m \in Nat, NEW w \in [1 .. m -> Int], NEW k \in 1 .. m, NEW v \in Int,
           NEW new, \A j \in 1 .. m : new[j] = IF j = k THEN w[j] + v ELSE w[j]
    PROVE  SumOf(new, m) = SumOf(w, m) + v
  <1> DEFINE seq == Places(m)
  <1>1. seq \in Seq(1 .. m) /\ Len(seq) = m /\ \A j \in 1 .. m : seq[j] = j BY PlacesIs
  <1>2. seq \in Seq(1 .. m) BY <1>1
  <1> HIDE DEF seq
  <1>3. PICK run : WeightFold!IsRun(run, 0, seq, w) /\ WeightFold!Fold(0, seq, w) = run[Len(seq)]
    BY <1>2, WeightFold!FoldRuns, Zenon
  <1>4. \A a \in Int, j \in 1 .. m : AddWeight(a, j, w) \in Int BY DEF AddWeight
  <1>5. 0 \in Int OBVIOUS
  <1>6. \A j \in 0 .. Len(seq) : run[j] \in Int
    BY <1>2, <1>3, <1>4, <1>5, WeightFold!RunKeeps, Zenon
  <1>7. run[0] = 0 /\ \A j \in 1 .. m : run[j] = run[j - 1] + w[j]
    BY <1>1, <1>3 DEF WeightFold!IsRun, AddWeight
  <1> DEFINE h == [j \in 0 .. m |-> IF j >= k THEN run[j] + v ELSE run[j]]
  <1>8. h[0] = 0 /\ h[m] = run[m] + v BY <1>7
  <1>9. ASSUME NEW j \in 1 .. m PROVE h[j] = h[j - 1] + new[j]
    <2>1. j - 1 \in 0 .. m /\ j \in 0 .. m /\ run[j - 1] \in Int /\ w[j] \in Int
      BY <1>1, <1>6
    <2>2. run[j] = run[j - 1] + w[j] BY <1>7
    <2>3. new[j] = IF j = k THEN w[j] + v ELSE w[j] OBVIOUS
    <2> QED BY <2>1, <2>2, <2>3
  <1> HIDE DEF h
  <1>10. WeightFold!IsRun(h, 0, seq, new)
    BY <1>1, <1>8, <1>9 DEF WeightFold!IsRun, AddWeight
  <1>11. WeightFold!Fold(0, seq, new) = h[Len(seq)]
    BY <1>2, <1>10, WeightFold!FoldIs, Zenon
  <1> QED BY <1>1, <1>3, <1>8, <1>11 DEF SumOf, seq

\* What the counters up to the i-th one say of a process on an adapter.
UsageUpTo(counters, key) ==
    CHOOSE run : /\ UsageFold!IsRun(run, 0, counters, key)
                 /\ UsageFold!Fold(0, counters, key) = run[Len(counters)]

\* It starts from nothing, and each counter adds what it says of the key.
LEMMA UsageRuns ==
    ASSUME NEW counters \in Seq([pid : Int, adapter : Nat, value : Int]), NEW key
    PROVE  LET run == UsageUpTo(counters, key)
           IN  /\ run[0] = 0 /\ run[Len(counters)] = UsageOf(counters, key)
               /\ \A i \in 0 .. Len(counters) : run[i] \in Int
               /\ \A i \in 1 .. Len(counters) :
                     run[i] = AddUsage(run[i - 1], counters[i], key)
  <1> DEFINE R == [pid : Int, adapter : Nat, value : Int]
             run == UsageUpTo(counters, key)
  <1>1. counters \in Seq(R) OBVIOUS
  <1>2. \A sum \in Int, row \in R : AddUsage(sum, row, key) \in Int BY DEF AddUsage
  <1>3. 0 \in Int OBVIOUS
  <1>4. UsageOf(counters, key) = UsageFold!Fold(0, counters, key) BY UsageTyped
  <1> HIDE DEF R
  <1>5. \E some : /\ UsageFold!IsRun(some, 0, counters, key)
                  /\ UsageFold!Fold(0, counters, key) = some[Len(counters)]
    BY <1>1, UsageFold!FoldRuns, Zenon
  <1>6. /\ UsageFold!IsRun(run, 0, counters, key)
        /\ UsageFold!Fold(0, counters, key) = run[Len(counters)]
    BY <1>5, Zenon DEF UsageUpTo
  <1> HIDE DEF run
  <1>7. \A i \in 0 .. Len(counters) : run[i] \in Int
    BY <1>1, <1>2, <1>3, <1>6, UsageFold!RunKeeps, Zenon
  <1>8. run[0] = 0 /\ \A i \in 1 .. Len(counters) : run[i] = AddUsage(run[i - 1], counters[i], key)
    BY <1>6 DEF UsageFold!IsRun
  <1> QED BY <1>4, <1>6, <1>7, <1>8 DEF run

\* One row for each key, with what the counters say of it.
RowsOf(rows, counters) ==
    /\ \A j \in 1 .. Len(rows) : /\ Key(rows[j]) \in Keys(counters)
                                 /\ rows[j].bytes = UsageOf(counters, Key(rows[j]))
    /\ \A j, k \in 1 .. Len(rows) : Key(rows[j]) = Key(rows[k]) => j = k
    /\ \A key \in Keys(counters) : \E j \in 1 .. Len(rows) : Key(rows[j]) = key

\* What the counters up to the i-th one say of each row, of those on an adapter.
Weights(rows, counters, adapter, i) ==
    [j \in 1 .. Len(rows) |-> IF rows[j].adapter = adapter
                              THEN UsageUpTo(counters, Key(rows[j]))[i] ELSE 0]

\* One more counter makes the row of its key grow, and no other.
LEMMA WeightsGrow ==
    ASSUME NEW counters \in Seq([pid : Int, adapter : Nat, value : Int]), NEW T,
           NEW rows \in Seq(T), RowsOf(rows, counters), NEW adapter,
           NEW i \in 1 .. Len(counters)
    PROVE  SumOf(Weights(rows, counters, adapter, i), Len(rows)) =
              AddMeasured(SumOf(Weights(rows, counters, adapter, i - 1), Len(rows)),
                          counters[i], adapter)
  <1> DEFINE m == Len(rows)
             w == Weights(rows, counters, adapter, i - 1)
             new == Weights(rows, counters, adapter, i)
             row == counters[i]
             R == [pid : Int, adapter : Nat, value : Int]
             u(j, n) == UsageUpTo(counters, Key(rows[j]))[n]
  <1>1. counters \in Seq(R) OBVIOUS
  <1>2. row \in R
    <2> HIDE DEF R
    <2> QED BY <1>1
  <1>3. row.pid \in Int /\ row.adapter \in Nat /\ row.value \in Int BY <1>2
  <1> HIDE DEF R
  <1>4. m \in Nat /\ i - 1 \in 0 .. Len(counters) /\ i \in 0 .. Len(counters) BY <1>1
  <1>5. ASSUME NEW j \in 1 .. m
        PROVE  u(j, i - 1) \in Int /\ u(j, i) = AddUsage(u(j, i - 1), row, Key(rows[j]))
    BY <1>4, UsageRuns
  <1> HIDE DEF u
  <1>6. ASSUME NEW j \in 1 .. m
        PROVE  /\ w[j] = IF rows[j].adapter = adapter THEN u(j, i - 1) ELSE 0
               /\ new[j] = IF rows[j].adapter = adapter THEN u(j, i) ELSE 0
    BY DEF Weights, u
  <1>7. w \in [1 .. m -> Int] /\ new = [j \in 1 .. m |-> new[j]]
    <2>1. w = [j \in 1 .. m |-> w[j]] /\ new = [j \in 1 .. m |-> new[j]] BY DEF Weights
    <2> HIDE DEF w, new
    <2>2. ASSUME NEW j \in 1 .. m PROVE w[j] \in Int
      <3>1. u(j, i - 1) \in Int BY <1>5
      <3>2. w[j] = IF rows[j].adapter = adapter THEN u(j, i - 1) ELSE 0 BY <1>6
      <3> QED BY <3>1, <3>2
    <2> QED BY <2>1, <2>2
  <1>8. w = [j \in 1 .. m |-> w[j]] BY <1>7
  <1> HIDE DEF w, new, row, m
  <1>9. CASE ~Counts(row)
    <2>1. \A j \in 1 .. m : new[j] = w[j] BY <1>5, <1>6, <1>9 DEF AddUsage
    <2>2. new = w BY <1>7, <1>8, <2>1
    <2> QED BY <1>9, <2>2 DEF AddMeasured, w, new, row, m
  <1>10. CASE Counts(row)
    <2>1. Key(row) \in Keys(counters)
      <3>1. row \in ToSet(counters) BY <1>1 DEF ToSet, row
      <3> QED BY <1>10, <3>1 DEF Keys
    <2>2. PICK k \in 1 .. m : Key(rows[k]) = Key(row) BY <2>1 DEF RowsOf, m
    <2>3. \A j \in 1 .. m : Key(rows[j]) = Key(row) <=> j = k BY <2>2 DEF RowsOf, m
    <2>4. rows[k].adapter = row.adapter BY <2>2 DEF Key
    <2> DEFINE v == IF row.adapter = adapter THEN row.value ELSE 0
    <2>5. v \in Int BY <1>3
    <2>6. ASSUME NEW j \in 1 .. m PROVE new[j] = IF j = k THEN w[j] + v ELSE w[j]
      <3>1. u(j, i) = IF j = k THEN u(j, i - 1) + row.value ELSE u(j, i - 1)
        BY <1>5, <1>10, <2>3 DEF AddUsage
      <3>2. u(j, i - 1) \in Int BY <1>5
      <3>3. /\ w[j] = IF rows[j].adapter = adapter THEN u(j, i - 1) ELSE 0
            /\ new[j] = IF rows[j].adapter = adapter THEN u(j, i) ELSE 0
        BY <1>6
      <3> HIDE DEF v
      <3>4. CASE j # k BY <3>1, <3>3, <3>4
      <3>5. CASE j = k /\ row.adapter # adapter
        <4>1. v = 0 BY <3>5 DEF v
        <4>2. w[j] = 0 /\ new[j] = 0 BY <2>4, <3>3, <3>5
        <4> QED BY <3>5, <4>1, <4>2
      <3>6. CASE j = k /\ row.adapter = adapter
        <4>1. v = row.value BY <3>6 DEF v
        <4> QED BY <2>4, <3>1, <3>3, <3>6, <4>1
      <3> QED BY <3>4, <3>5, <3>6
    <2> HIDE DEF v
    <2>7. SumOf(new, m) = SumOf(w, m) + v BY <1>4, <1>7, <2>5, <2>6, SumGrows
    <2>8. SumOf(w, m) \in Int BY <1>4, <1>7, SumTyped
    <2>9. SumOf(new, m) = AddMeasured(SumOf(w, m), row, adapter)
      BY <1>10, <2>7, <2>8 DEF AddMeasured, v
    <2> QED BY <2>9 DEF w, new, row, m
  <1> QED BY <1>9, <1>10

\* The rows add up to the weights behind the last counter.
LEMMA ShownIs ==
    ASSUME NEW counters \in Seq([pid : Int, adapter : Nat, value : Int]), NEW T,
           NEW rows \in Seq(T), RowsOf(rows, counters), NEW adapter
    PROVE  Shown(rows, adapter) = SumOf(Weights(rows, counters, adapter, Len(counters)), Len(rows))
  <1> DEFINE m == Len(rows)
             w == Weights(rows, counters, adapter, Len(counters))
             seq == Places(m)
  <1>1. m \in Nat BY DEF m
  <1>2. w = [j \in 1 .. m |-> w[j]] BY DEF Weights
  <1>3. ASSUME NEW j \in 1 .. m
        PROVE  /\ w[j] = IF rows[j].adapter = adapter THEN rows[j].bytes ELSE 0
               /\ w[j] \in Int
    <2>1. w[j] = IF rows[j].adapter = adapter
                 THEN UsageUpTo(counters, Key(rows[j]))[Len(counters)] ELSE 0
      BY DEF Weights
    <2>2. /\ UsageUpTo(counters, Key(rows[j]))[Len(counters)] = rows[j].bytes
          /\ rows[j].bytes \in Int
      <3>1. rows[j].bytes = UsageOf(counters, Key(rows[j])) BY DEF RowsOf
      <3>2. UsageOf(counters, Key(rows[j])) \in Int BY UsageTyped
      <3>3. UsageUpTo(counters, Key(rows[j]))[Len(counters)] = UsageOf(counters, Key(rows[j]))
        BY UsageRuns
      <3> QED BY <3>1, <3>2, <3>3
    <2> HIDE DEF w
    <2> QED BY <2>1, <2>2
  <1> HIDE DEF w
  <1>4. w \in [1 .. m -> Int] BY <1>2, <1>3
  <1>5. seq \in Seq(1 .. m) /\ Len(seq) = m /\ \A j \in 1 .. m : seq[j] = j
    BY <1>1, PlacesIs
  <1>6. seq \in Seq(1 .. m) BY <1>5
  <1> HIDE DEF seq
  <1>7. PICK run : WeightFold!IsRun(run, 0, seq, w) /\ WeightFold!Fold(0, seq, w) = run[Len(seq)]
    BY <1>6, WeightFold!FoldRuns, Zenon
  <1>8. \A j \in 0 .. Len(seq) : run[j] \in Int
    <2>1. ASSUME NEW a \in Int, NEW j \in 1 .. m PROVE AddWeight(a, j, w) \in Int
      <3>1. w[j] \in Int BY <1>3
      <3> QED BY <3>1 DEF AddWeight
    <2>2. 0 \in Int OBVIOUS
    <2> QED BY <1>6, <1>7, <2>1, <2>2, WeightFold!RunKeeps, Zenon
  <1>9. run[0] = 0 /\ \A j \in 1 .. m : run[j] = run[j - 1] + w[j]
    BY <1>5, <1>7 DEF WeightFold!IsRun, AddWeight
  <1>10. ASSUME NEW j \in 1 .. m PROVE run[j] = AddShown(run[j - 1], rows[j], adapter)
    <2>1. j - 1 \in 0 .. m BY <1>1
    <2>2. run[j - 1] \in Int BY <1>5, <1>8, <2>1
    <2>3. run[j] = run[j - 1] + w[j] BY <1>9
    <2>4. CASE rows[j].adapter = adapter
      <3>1. w[j] = rows[j].bytes BY <1>3, <2>4
      <3> QED BY <2>3, <2>4, <3>1 DEF AddShown
    <2>5. CASE rows[j].adapter # adapter
      <3>1. w[j] = 0 BY <1>3, <2>5
      <3> QED BY <2>2, <2>3, <2>5, <3>1 DEF AddShown
    <2> QED BY <2>4, <2>5
  <1>11. ShownFold!IsRun(run, 0, rows, adapter) BY <1>9, <1>10 DEF ShownFold!IsRun, m
  <1>12. ShownFold!Fold(0, rows, adapter) = run[Len(rows)]
    BY <1>11, ShownFold!FoldIs, Zenon
  <1>13. Shown(rows, adapter) = ShownFold!Fold(0, rows, adapter)
    BY Zenon DEF Shown, ShownFold!Fold, FoldLeft, MapThenFoldSet, ShownFold!FoldLeft,
                 ShownFold!MapThenFoldSet, Max, ShownFold!Max
  <1> QED BY <1>5, <1>7, <1>12, <1>13 DEF SumOf, seq, m, w

\* Before the first counter nothing is known.
LEMMA WeightsStart ==
    ASSUME NEW counters \in Seq([pid : Int, adapter : Nat, value : Int]), NEW T,
           NEW rows \in Seq(T), NEW adapter
    PROVE  SumOf(Weights(rows, counters, adapter, 0), Len(rows)) = 0
  <1> DEFINE w == Weights(rows, counters, adapter, 0)
  <1>1. \A j \in 1 .. Len(rows) : UsageUpTo(counters, Key(rows[j]))[0] = 0 BY UsageRuns
  <1>2. \A j \in 1 .. Len(rows) : w[j] = 0 BY <1>1 DEF Weights
  <1>3. Len(rows) \in Nat OBVIOUS
  <1> HIDE DEF w
  <1>4. SumOf(w, Len(rows)) = 0 BY <1>2, <1>3, SumZero
  <1> QED BY <1>4 DEF w

\* What is shown of an adapter is what was measured of it.
LEMMA ShownIsMeasured ==
    ASSUME NEW counters \in Seq([pid : Int, adapter : Nat, value : Int]), NEW T,
           NEW rows \in Seq(T), RowsOf(rows, counters), NEW adapter
    PROVE  Shown(rows, adapter) = Measured(counters, adapter)
  <1> DEFINE R == [pid : Int, adapter : Nat, value : Int]
             n == Len(counters)
             run == [i \in 0 .. n |-> SumOf(Weights(rows, counters, adapter, i), Len(rows))]
  <1>1. counters \in Seq(R) /\ n \in Nat OBVIOUS
  <1>2. run[0] = 0
    <2>1. 0 \in 0 .. n BY <1>1
    <2> QED BY <2>1, WeightsStart
  <1>3. ASSUME NEW i \in 1 .. n PROVE run[i] = AddMeasured(run[i - 1], counters[i], adapter)
    <2>1. i \in 0 .. n /\ i - 1 \in 0 .. n BY <1>1
    <2>2. run[i] = SumOf(Weights(rows, counters, adapter, i), Len(rows)) BY <2>1
    <2>3. run[i - 1] = SumOf(Weights(rows, counters, adapter, i - 1), Len(rows)) BY <2>1
    <2> HIDE DEF run
    <2> QED BY <2>2, <2>3, WeightsGrow
  <1>4. run[n] = Shown(rows, adapter)
    <2>1. n \in 0 .. n BY <1>1
    <2>2. run[n] = SumOf(Weights(rows, counters, adapter, n), Len(rows)) BY <2>1
    <2> HIDE DEF run
    <2> QED BY <2>2, ShownIs
  <1> HIDE DEF R, run
  <1>5. MeasuredFold!IsRun(run, 0, counters, adapter) BY <1>2, <1>3 DEF MeasuredFold!IsRun
  <1>6. counters \in Seq(R) BY <1>1
  <1>7. MeasuredFold!Fold(0, counters, adapter) = run[n]
    BY <1>5, <1>6, MeasuredFold!FoldIs, Zenon
  <1>8. Measured(counters, adapter) = MeasuredFold!Fold(0, counters, adapter)
    BY Zenon DEF Measured, MeasuredFold!Fold, FoldLeft, MapThenFoldSet,
                 MeasuredFold!FoldLeft, MeasuredFold!MapThenFoldSet, Max, MeasuredFold!Max
  <1> QED BY <1>4, <1>7, <1>8

\* The rows that are shown are one for each key.
LEMMA RowsShown ==
    ASSUME NEW out, out.counters \in Seq([pid : Int, adapter : Nat, value : Int])
    PROVE  LET rows == ParseProcesses(out)
           IN  /\ \E T : rows \in Seq(T)
               /\ RowsOf(rows, out.counters)
  <1> DEFINE rows == ParseProcesses(out)
             K == Keys(out.counters)
             S == {GpuProcess(out, key) : key \in K}
  <1>1. IsPlaced(rows, S) BY RowsPlaced
  <1>2. \A key \in K : key \in Int \X Nat BY KeysFinite
  <1>3. ASSUME NEW key \in K
        PROVE  LET row == GpuProcess(out, key)
               IN  Key(row) = key /\ row.bytes = UsageOf(out.counters, key)
    <2> DEFINE row == GpuProcess(out, key)
    <2>1. row.pid = key[1] /\ row.adapter = key[2] /\ row.bytes = UsageOf(out.counters, key)
      BY DEF GpuProcess
    <2>2. key = <<key[1], key[2]>> BY <1>2
    <2> HIDE DEF row
    <2> QED BY <2>1, <2>2 DEF Key, row
  <1>4. \A x \in S : Key(x) \in K /\ x.bytes = UsageOf(out.counters, Key(x))
                     /\ x = GpuProcess(out, Key(x))
    BY <1>3
  <1>5. \A key \in K : \E x \in S : Key(x) = key BY <1>3
  <1> HIDE DEF S, rows, K
  <1>6. rows \in Seq(S) /\ ToSet(rows) = S /\ \A i, j \in 1 .. Len(rows) : rows[i] = rows[j] => i = j
    BY <1>1 DEF IsPlaced
  <1>7. DOMAIN rows = 1 .. Len(rows) /\ \A j \in 1 .. Len(rows) : rows[j] \in S BY <1>6
  <1>8. \A x \in S : \E j \in 1 .. Len(rows) : rows[j] = x BY <1>6, <1>7 DEF ToSet
  <1>9. \A j \in 1 .. Len(rows) : /\ Key(rows[j]) \in K
                                  /\ rows[j].bytes = UsageOf(out.counters, Key(rows[j]))
    BY <1>4, <1>7
  <1>10. ASSUME NEW i \in 1 .. Len(rows), NEW j \in 1 .. Len(rows), Key(rows[i]) = Key(rows[j])
         PROVE  i = j
    <2>1. rows[i] = GpuProcess(out, Key(rows[i])) /\ rows[j] = GpuProcess(out, Key(rows[j]))
      BY <1>4, <1>7
    <2>2. rows[i] = rows[j] BY <1>10, <2>1
    <2> QED BY <1>6, <2>2
  <1>11. \A key \in K : \E j \in 1 .. Len(rows) : Key(rows[j]) = key BY <1>5, <1>8
  <1>12. RowsOf(rows, out.counters) BY <1>9, <1>10, <1>11 DEF RowsOf, K
  <1> QED BY <1>6, <1>12 DEF rows

-----------------------------------------------------------------------------
(* Which adapter a device labels: the loop of _label_discrete_adapters. *)

\* The fold over the devices.
AddLabel(acc, gpu, ignored) == Take(acc, gpu)
TakeFold == INSTANCE FoldLemmas WITH Op <- AddLabel

\* There is an adapter that comes closest.
LEMMA ClosestIs ==
    ASSUME NEW remaining, remaining \subseteq [id : Nat, dedicated : Nat], remaining # {},
           NEW gpu \in [name : STRING, used : Int]
    PROVE  Closest(remaining, gpu) \in remaining
  <1> DEFINE d(x) == Distance(x.dedicated, gpu.used)
             D == {d(x) : x \in remaining}
  <1>1. \A x \in remaining : x.id \in Nat /\ d(x) \in Nat BY DEF Distance
  <1> HIDE DEF d
  <1>2. D \subseteq Nat /\ D # {} BY <1>1
  <1>3. PICK least \in D : \A other \in D : least <= other BY <1>2, TakeFold!Least
  <1> DEFINE I == {x.id : x \in {y \in remaining : d(y) = least}}
  <1>4. I \subseteq Nat /\ I # {} BY <1>1
  <1>5. PICK first \in I : \A other \in I : first <= other BY <1>4, TakeFold!Least
  <1>6. PICK item \in remaining : d(item) = least /\ item.id = first OBVIOUS
  <1>7. ASSUME NEW other \in remaining
        PROVE  d(item) < d(other) \/ (d(item) = d(other) /\ item.id <= other.id)
    <2>1. d(other) \in D /\ d(item) \in Nat /\ d(other) \in Nat BY <1>1
    <2>2. d(item) <= d(other) BY <1>3, <1>6, <2>1
    <2>3. d(item) = d(other) => item.id <= other.id BY <1>5, <1>6
    <2> QED BY <2>1, <2>2, <2>3
  <1>8. \E x \in remaining : \A other \in remaining :
           Distance(x.dedicated, gpu.used) < Distance(other.dedicated, gpu.used)
           \/ (Distance(x.dedicated, gpu.used) = Distance(other.dedicated, gpu.used)
               /\ x.id <= other.id)
    BY <1>6, <1>7 DEF d
  <1> QED BY <1>8 DEF Closest

\* The first devices have taken an adapter each, f, and either there are no more
\* devices than those, or no adapter is left.
Taken(acc, S, devices, k, f) ==
    /\ DOMAIN f \in {1 .. t : t \in 0 .. k} /\ f \in [DOMAIN f -> S]
    /\ \A i, j \in DOMAIN f : f[i] = f[j] => i = j
    /\ acc = [remaining |-> S \ {f[i] : i \in DOMAIN f},
              labels |-> {<<f[i].id, devices[i].name>> : i \in DOMAIN f}]
    /\ DOMAIN f = 1 .. k \/ acc.remaining = {}

\* One more device: it takes an adapter, or there is none left.
LEMMA TakeOne ==
    ASSUME NEW S, S \subseteq [id : Nat, dedicated : Nat],
           NEW devices \in Seq([name : STRING, used : Int]),
           NEW k \in 0 .. Len(devices) - 1, NEW acc, NEW f, Taken(acc, S, devices, k, f)
    PROVE  \E g : Taken(Take(acc, devices[k + 1]), S, devices, k + 1, g)
  <1> DEFINE gpu == devices[k + 1]
             new == Take(acc, gpu)
  <1>1. gpu \in [name : STRING, used : Int] /\ k \in Nat
    <2> DEFINE R == [name : STRING, used : Int]
    <2>1. devices \in Seq(R) OBVIOUS
    <2> HIDE DEF R
    <2>2. devices[k + 1] \in R /\ k \in Nat BY <2>1
    <2> QED BY <2>2 DEF R
  <1> HIDE DEF gpu
  <1>2. CASE acc.remaining = {}
    <2>1. new = acc BY <1>2 DEF Take
    <2>2. DOMAIN f \in {1 .. t : t \in 0 .. k + 1} BY <1>1 DEF Taken
    <2>3. Taken(acc, S, devices, k + 1, f) BY <1>2, <2>2 DEF Taken
    <2> QED BY <2>1, <2>3 DEF gpu
  <1>3. CASE acc.remaining # {}
    <2> DEFINE item == Closest(acc.remaining, gpu)
               g == [i \in 1 .. k + 1 |-> IF i = k + 1 THEN item ELSE f[i]]
    <2>1. /\ DOMAIN f = 1 .. k /\ f \in [1 .. k -> S]
          /\ acc.remaining = S \ {f[i] : i \in 1 .. k}
          /\ acc.labels = {<<f[i].id, devices[i].name>> : i \in 1 .. k}
          /\ \A i, j \in 1 .. k : f[i] = f[j] => i = j
      BY <1>3 DEF Taken
    <2>2. item \in acc.remaining
      <3>1. acc.remaining \subseteq [id : Nat, dedicated : Nat] BY <2>1
      <3> QED BY <1>1, <1>3, <3>1, ClosestIs
    <2>3. new = [remaining |-> acc.remaining \ {item},
                 labels |-> acc.labels \cup {<<item.id, gpu.name>>}]
      BY <1>3 DEF Take
    <2> HIDE DEF item, new
    <2>4. item \in S /\ \A i \in 1 .. k : f[i] # item BY <2>1, <2>2
    <2>5. g \in [1 .. k + 1 -> S] /\ DOMAIN g = 1 .. k + 1 BY <1>1, <2>1, <2>4
    <2>6. g[k + 1] = item /\ \A i \in 1 .. k : g[i] = f[i] /\ i \in 1 .. k + 1 BY <1>1
    <2>7. \A i \in 1 .. k + 1 : i \in 1 .. k \/ i = k + 1 BY <1>1
    <2> HIDE DEF g
    <2>8. \A i, j \in 1 .. k + 1 : g[i] = g[j] => i = j BY <2>1, <2>4, <2>6, <2>7
    <2>9. k + 1 \in 1 .. k + 1 BY <1>1
    <2>10. {g[i] : i \in 1 .. k + 1} = {f[i] : i \in 1 .. k} \cup {item}
      BY <2>6, <2>7, <2>9
    <2>11. {<<g[i].id, devices[i].name>> : i \in 1 .. k + 1}
             = {<<f[i].id, devices[i].name>> : i \in 1 .. k} \cup {<<item.id, gpu.name>>}
      BY <2>6, <2>7, <2>9 DEF gpu
    <2>12. new = [remaining |-> S \ {g[i] : i \in 1 .. k + 1},
                  labels |-> {<<g[i].id, devices[i].name>> : i \in 1 .. k + 1}]
      BY <2>1, <2>3, <2>10, <2>11
    <2>13. DOMAIN g \in {1 .. t : t \in 0 .. k + 1} BY <1>1, <2>5
    <2>14. Taken(new, S, devices, k + 1, g) BY <2>5, <2>8, <2>12, <2>13 DEF Taken
    <2> QED BY <2>14 DEF new, gpu
  <1> QED BY <1>2, <1>3

\* So it is when every device has had its turn.
LEMMA TakeAll ==
    ASSUME NEW S, S \subseteq [id : Nat, dedicated : Nat],
           NEW devices \in Seq([name : STRING, used : Int])
    PROVE  \E f : Taken(FoldLeft(Take, [remaining |-> S, labels |-> {}], devices),
                        S, devices, Len(devices), f)
  <1> DEFINE R == [name : STRING, used : Int]
             base == [remaining |-> S, labels |-> {}]
             n == Len(devices)
  <1>1. devices \in Seq(R) /\ n \in Nat OBVIOUS
  <1>2. devices \in Seq(R) BY <1>1
  <1> HIDE DEF R, base
  <1>3. PICK run : TakeFold!IsRun(run, base, devices, 0)
                   /\ TakeFold!Fold(base, devices, 0) = run[Len(devices)]
    BY <1>2, TakeFold!FoldRuns, Zenon
  <1>4. run[0] = base /\ \A i \in 1 .. n : run[i] = Take(run[i - 1], devices[i])
    BY <1>3 DEF TakeFold!IsRun, AddLabel
  <1> DEFINE P == {k \in 0 .. n : \E f : Taken(run[k], S, devices, k, f)}
  <1>5. 0 \in P
    <2> DEFINE f == <<>>
    <2>1. DOMAIN f = {} /\ 1 .. 0 = {} OBVIOUS
    <2>2. DOMAIN f = 1 .. 0 /\ f \in [{} -> S] BY <2>1
    <2>3. base = [remaining |-> S \ {f[i] : i \in {}},
                  labels |-> {<<f[i].id, devices[i].name>> : i \in {}}]
      BY DEF base
    <2>4. DOMAIN f \in {1 .. t : t \in 0 .. 0} BY <2>2
    <2> HIDE DEF f
    <2>5. Taken(base, S, devices, 0, f) BY <2>1, <2>2, <2>3, <2>4 DEF Taken
    <2> QED BY <1>1, <1>4, <2>5
  <1>6. ASSUME NEW k \in 0 .. n - 1, k \in P PROVE k + 1 \in P
    <2>1. PICK f : Taken(run[k], S, devices, k, f) BY <1>6
    <2>2. k + 1 \in 1 .. n /\ (k + 1) - 1 = k /\ k + 1 \in 0 .. n BY <1>1
    <2>3. run[k + 1] = Take(run[k], devices[k + 1]) BY <1>4, <2>2
    <2>4. \E g : Taken(Take(run[k], devices[k + 1]), S, devices, k + 1, g)
      BY <2>1, TakeOne
    <2> QED BY <2>2, <2>3, <2>4
  <1>7. \A k \in 0 .. n : k \in P
    <2> HIDE DEF P
    <2> QED BY <1>1, <1>5, <1>6, TakeFold!Induction, Zenon
  <1>8. \E f : Taken(run[n], S, devices, n, f) BY <1>1, <1>7
  <1>9. FoldLeft(Take, base, devices) = TakeFold!Fold(base, devices, 0)
    BY Zenon DEF AddLabel, TakeFold!Fold, FoldLeft, MapThenFoldSet, TakeFold!FoldLeft,
                 TakeFold!MapThenFoldSet, Max, TakeFold!Max
  <1> QED BY <1>3, <1>8, <1>9 DEF base

\* What DistinctLabels says of the adapters of a snapshot and its devices.
LabelsDistinct(shown, devices) ==
    LET named == {a \in ToSet(shown) : a.names # {}}
        fewer == IF Len(devices) < Len(shown) THEN Len(devices) ELSE Len(shown)
    IN  /\ Cardinality(named) = fewer
        /\ \A a \in named : Cardinality(a.names) = 1
        /\ \A name \in UNION {a.names : a \in named} :
              Cardinality({a \in named : name \in a.names}) <=
                Cardinality({i \in DOMAIN devices : devices[i].name = name})

\* An adapter as it is shown.
Label(labels, x) ==
    [id |-> x.id, dedicated |-> x.dedicated,
     names |-> {l[2] : l \in {k \in labels : k[1] = x.id}}]

\* How many labels there are, the adapters that have some, and which device
\* each of them is from.
Fewer(devices, n) == IF Len(devices) < n THEN Len(devices) ELSE n
Named(S, labels) == {a \in {Label(labels, x) : x \in S} : a.names # {}}
LabelAt(labels, f, n) == [i \in 1 .. n |-> Label(labels, f[i])]

\* The first devices, as many as there are adapters for, label an adapter each,
\* and there is no other label.
LabelsFit(S, devices, labels, f) ==
    LET fewer == Fewer(devices, Cardinality(S))
    IN  /\ fewer \in Nat /\ fewer <= Len(devices)
        /\ LabelAt(labels, f, fewer) \in Bijection(1 .. fewer, Named(S, labels))
        /\ \A i \in 1 .. fewer : LabelAt(labels, f, fewer)[i].names = {devices[i].name}

\* That is what the loop comes to.
LEMMA LabelsAre ==
    ASSUME NEW S, S \subseteq [id : Nat, dedicated : Nat], IsFiniteSet(S),
           \A x, y \in S : x.id = y.id => x = y,
           NEW devices \in Seq([name : STRING, used : Int]),
           NEW acc, NEW f, Taken(acc, S, devices, Len(devices), f)
    PROVE  LabelsFit(S, devices, acc.labels, f)
  <1> DEFINE n == Len(devices)
             s == Cardinality(S)
             L(x) == Label(acc.labels, x)
             names(x) == {l[2] : l \in {k \in acc.labels : k[1] = x.id}}
  <1>1. n \in Nat /\ s \in Nat BY FS_CardinalityType
  <1>2. PICK t \in 0 .. n : DOMAIN f = 1 .. t BY DEF Taken
  <1>3. /\ t \in Nat /\ f \in [1 .. t -> S]
        /\ \A i, j \in 1 .. t : f[i] = f[j] => i = j
        /\ acc.labels = {<<f[i].id, devices[i].name>> : i \in 1 .. t}
        /\ t = n \/ S \ {f[i] : i \in 1 .. t} = {}
    <2>1. t \in Nat /\ t <= n BY <1>1
    <2>2. 1 .. t = 1 .. n => t = n
      <3>1. SUFFICES ASSUME 1 .. t = 1 .. n PROVE t = n OBVIOUS
      <3>2. n = 0 \/ n \in 1 .. t BY <1>1, <3>1
      <3> QED BY <1>1, <2>1, <3>2
    <2> QED BY <1>2, <2>1, <2>2 DEF Taken
  <1>4. IsFiniteSet(1 .. t) /\ Cardinality(1 .. t) = t
    <2>1. 1 \in Int /\ t \in Int BY <1>3
    <2>2. IsFiniteSet(1 .. t) /\ Cardinality(1 .. t) = IF 1 > t THEN 0 ELSE t - 1 + 1
      BY <2>1, FS_Interval
    <2> QED BY <1>3, <2>2
  <1>5. f \in Injection(1 .. t, S) BY <1>3 DEF Injection, IsInjective
  <1>6. t <= s BY <1>4, <1>5, FS_Injection
  <1>7. t < n => t = s
    <2>1. SUFFICES ASSUME t < n PROVE t = s OBVIOUS
    <2>2. S \ {f[i] : i \in 1 .. t} = {} BY <1>1, <1>3, <2>1
    <2>3. f \in Surjection(1 .. t, S) BY <1>3, <2>2 DEF Surjection
    <2>4. s <= t BY <1>4, <2>3, FS_Surjection
    <2> QED BY <1>1, <1>3, <1>6, <2>4
  <1>8. t = Fewer(devices, s) BY <1>1, <1>2, <1>6, <1>7 DEF Fewer
  <1>9. \A i \in 1 .. t : f[i] \in S BY <1>3
  <1>10. ASSUME NEW i \in 1 .. t PROVE L(f[i]).names = {devices[i].name}
    <2>1. <<f[i].id, devices[i].name>> \in acc.labels BY <1>3
    <2>2. ASSUME NEW l \in acc.labels, l[1] = f[i].id PROVE l[2] = devices[i].name
      <3>1. PICK j \in 1 .. t : l = <<f[j].id, devices[j].name>> BY <1>3
      <3>2. f[j] = f[i] BY <1>9, <2>2, <3>1
      <3>3. j = i BY <1>3, <3>2
      <3> QED BY <3>1, <3>3
    <2>3. names(f[i]) = {devices[i].name} BY <2>1, <2>2
    <2> QED BY <2>3 DEF Label
  <1>11. ASSUME NEW x \in S, L(x).names # {} PROVE \E i \in 1 .. t : x = f[i]
    <2>1. names(x) # {} BY <1>11 DEF Label
    <2>2. PICK l \in acc.labels : l[1] = x.id BY <2>1
    <2>3. PICK i \in 1 .. t : l = <<f[i].id, devices[i].name>> BY <1>3
    <2>4. f[i].id = x.id BY <2>2, <2>3
    <2> QED BY <1>9, <2>4
  <1>12. \A x \in S : L(x).id = x.id BY DEF Label
  <1> HIDE DEF L
  <1> DEFINE named == {a \in {L(x) : x \in S} : a.names # {}}
             g == [i \in 1 .. t |-> L(f[i])]
  <1>13. \A i \in 1 .. t : g[i] = L(f[i]) /\ g[i] \in named BY <1>9, <1>10
  <1>14. \A i, j \in 1 .. t : g[i] = g[j] => i = j
    <2>1. SUFFICES ASSUME NEW i \in 1 .. t, NEW j \in 1 .. t, g[i] = g[j] PROVE i = j
      OBVIOUS
    <2>2. L(f[i]) = L(f[j]) BY <2>1
    <2>3. f[i].id = f[j].id BY <1>9, <1>12, <2>2
    <2>4. f[i] = f[j] BY <1>9, <2>3
    <2> QED BY <1>3, <2>4
  <1>15. \A a \in named : \E i \in 1 .. t : g[i] = a BY <1>11
  <1>16. g \in Bijection(1 .. t, named)
    <2>1. g \in [1 .. t -> named] BY <1>13
    <2> HIDE DEF g, named
    <2> QED BY <1>14, <1>15, <2>1 DEF Bijection, Injection, Surjection, IsInjective
  <1>17. \A i \in 1 .. t : g[i].names = {devices[i].name} BY <1>10
  <1>18. g = LabelAt(acc.labels, f, t) /\ named = Named(S, acc.labels)
    BY DEF LabelAt, Named, L
  <1> HIDE DEF g, named
  <1> QED BY <1>1, <1>2, <1>8, <1>16, <1>17, <1>18 DEF LabelsFit

\* Which labels the adapters have.
LEMMA LabelsCounted ==
    ASSUME NEW adapters, NEW S, IsPlaced(adapters, S), IsFiniteSet(S),
           S \subseteq [id : Nat, dedicated : Nat],
           \A x, y \in S : x.id = y.id => x = y,
           NEW devices \in Seq([name : STRING, used : Int])
    PROVE  LabelsDistinct(LabelDiscreteAdapters(adapters, devices), devices)
  <1> DEFINE acc == FoldLeft(Take, [remaining |-> S, labels |-> {}], devices)
             shown == LabelDiscreteAdapters(adapters, devices)
             s == Cardinality(S)
             fewer == Fewer(devices, s)
             named == Named(S, acc.labels)
  <1>1. s \in Nat /\ Len(devices) \in Nat /\ DOMAIN devices = 1 .. Len(devices)
    BY FS_CardinalityType
  <1>2. /\ ToSet(adapters) = S /\ Len(adapters) = s /\ DOMAIN adapters = 1 .. s
        /\ S = {adapters[i] : i \in 1 .. s}
    BY DEF IsPlaced, ToSet
  <1>3. PICK f : Taken(acc, S, devices, Len(devices), f) BY TakeAll
  <1>4. shown = [i \in 1 .. s |-> Label(acc.labels, adapters[i])]
    BY <1>2 DEF LabelDiscreteAdapters, Label
  <1> HIDE DEF acc
  <1>5. Len(shown) = s /\ ToSet(shown) = {Label(acc.labels, x) : x \in S}
    <2>1. DOMAIN shown = 1 .. s BY <1>4
    <2>2. ToSet(shown) = {Label(acc.labels, adapters[i]) : i \in 1 .. s}
      BY <1>4, <2>1 DEF ToSet
    <2>3. Len(shown) = s BY <1>1, <1>4
    <2> QED BY <1>2, <2>2, <2>3
  <1> DEFINE g == LabelAt(acc.labels, f, fewer)
  <1>6. /\ fewer \in Nat /\ fewer <= Len(devices)
        /\ g \in Bijection(1 .. fewer, named)
        /\ \A i \in 1 .. fewer : g[i].names = {devices[i].name}
    <2>1. LabelsFit(S, devices, acc.labels, f) BY <1>3, LabelsAre
    <2> QED BY <2>1 DEF LabelsFit
  <1> HIDE DEF shown, g, named
  <1>7. fewer = IF Len(devices) < Len(shown) THEN Len(devices) ELSE Len(shown)
    BY <1>5 DEF Fewer
  <1>8. named = {a \in ToSet(shown) : a.names # {}} BY <1>5 DEF named, Named
  <1> HIDE DEF fewer
  <1>9. \A a \in named : \E i \in 1 .. fewer : g[i] = a
    BY <1>6 DEF Bijection, Surjection
  <1>10. IsFiniteSet(1 .. fewer) /\ Cardinality(1 .. fewer) = fewer
    <2>1. 1 \in Int /\ fewer \in Int BY <1>6
    <2>2. IsFiniteSet(1 .. fewer)
          /\ Cardinality(1 .. fewer) = IF 1 > fewer THEN 0 ELSE fewer - 1 + 1
      BY <2>1, FS_Interval
    <2> QED BY <1>6, <2>2
  <1>11. Cardinality(named) = fewer BY <1>6, <1>10, FS_Bijection DEF ExistsBijection
  <1>12. ASSUME NEW a \in named PROVE Cardinality(a.names) = 1
    <2>1. PICK i \in 1 .. fewer : g[i] = a BY <1>9
    <2>2. a.names = {devices[i].name} BY <1>6, <2>1
    <2>3. Cardinality({devices[i].name}) = 1 BY FS_Singleton
    <2> QED BY <2>2, <2>3
  <1>13. ASSUME NEW name
         PROVE  Cardinality({a \in named : name \in a.names}) <=
                  Cardinality({i \in DOMAIN devices : devices[i].name = name})
    <2> DEFINE I == {i \in 1 .. fewer : devices[i].name = name}
               J == {i \in DOMAIN devices : devices[i].name = name}
               A == {a \in named : name \in a.names}
               h == [i \in I |-> g[i]]
    <2>1. \A i \in 1 .. fewer : g[i] \in named BY <1>6 DEF Bijection, Injection
    <2>2. \A i \in 1 .. fewer : name \in g[i].names <=> devices[i].name = name BY <1>6
    <2>3. h \in [I -> A] BY <2>1, <2>2
    <2>4. \A a \in A : \E i \in I : h[i] = a BY <1>9, <2>2
    <2>5. h \in Surjection(I, A)
      <3> HIDE DEF h, I, A
      <3> QED BY <2>3, <2>4 DEF Surjection
    <2>6. IsFiniteSet(J) /\ IsFiniteSet(I)
      <3>1. IsFiniteSet(1 .. Len(devices)) BY <1>1, FS_Interval
      <3>2. J \in SUBSET (1 .. Len(devices)) /\ I \in SUBSET (1 .. fewer) BY <1>1
      <3> HIDE DEF I, J
      <3> QED BY <1>10, <3>1, <3>2, FS_Subset
    <2>7. I \in SUBSET J BY <1>1, <1>6
    <2> HIDE DEF I, J, A, h
    <2>8. Cardinality(A) <= Cardinality(I) BY <2>5, <2>6, FS_Surjection
    <2>9. Cardinality(I) <= Cardinality(J) BY <2>6, <2>7, FS_Subset
    <2>10. IsFiniteSet(A) BY <2>5, <2>6, FS_Surjection
    <2>11. Cardinality(A) <= Cardinality(J)
      BY <2>6, <2>8, <2>9, <2>10, FS_CardinalityType
    <2> QED BY <2>11 DEF A, J
  <1>14. LabelsDistinct(shown, devices)
    BY <1>7, <1>8, <1>11, <1>12, <1>13 DEF LabelsDistinct
  <1> QED BY <1>14 DEF shown

-----------------------------------------------------------------------------
(* Where the cached snapshot comes from, and what follows for it. *)

\* Where the devices and the rest of a snapshot come from: an output of each
\* program, or nothing from the one that failed.
IsCollected(s) ==
    /\ s.gpus \in Devices /\ s.degraded \subseteq Programs
    /\ \/ \E out \in WindowsOutputs :
             /\ s.processes = ParseProcesses(out)
             /\ s.adapters = LabelDiscreteAdapters(ParseAdapters(out), s.gpus)
       \/ s.processes = <<>> /\ s.adapters = <<>> /\ "powershell.exe" \in s.degraded
Collected ==
    /\ gpus \in Devices /\ reasons \subseteq Programs
    /\ cached # <<>> => IsCollected(cached[1])

\* The second program ends, well or badly.
LEMMA SnapshotCollected ==
    ASSUME Collected, NEW c, NEW processes, NEW adapters, NEW failed \in SUBSET Programs,
           TakeSnapshot(c, processes, adapters, failed),
           \/ \E out \in WindowsOutputs :
                 /\ processes = ParseProcesses(out)
                 /\ adapters = LabelDiscreteAdapters(ParseAdapters(out), gpus)
           \/ processes = <<>> /\ adapters = <<>> /\ failed = {"powershell.exe"}
    PROVE  Collected'
  <1> DEFINE s == [processes |-> processes, adapters |-> adapters,
                   gpus |-> gpus, degraded |-> reasons \cup failed,
                   age |-> 0, readAge |-> readAge]
  <1>1. cached' = <<s>> /\ gpus' = <<>> /\ reasons' = {} BY DEF TakeSnapshot
  <1>2. /\ s.gpus = gpus /\ s.processes = processes /\ s.adapters = adapters
        /\ s.degraded = reasons \cup failed
    OBVIOUS
  <1> HIDE DEF s
  <1>3. IsCollected(s) BY <1>2 DEF IsCollected, Collected
  <1>4. cached'[1] = s BY <1>1
  <1>5. IsCollected(cached'[1]) BY <1>3, <1>4
  <1>6. (IsCollected(cached[1]))' BY <1>5 DEF IsCollected
  <1> QED BY <1>1, <1>6 DEF Collected, Devices

\* Each step, and the ones that change nothing.
LEMMA NextCollected ==
    ASSUME GpuInv, Collected, [GpuNext]_gpuVars
    PROVE  Collected'
  <1>1. ASSUME UNCHANGED <<gpus, reasons, cached>> PROVE Collected'
    BY <1>1 DEF Collected, IsCollected
  <1>2. ASSUME NEW c, NEW devices \in Devices, NEW failed \in SUBSET Programs,
               StartWindows(c, devices, failed)
        PROVE  Collected'
    BY <1>2 DEF StartWindows, Collected, IsCollected
  <1>3. ASSUME Tick PROVE Collected'
    <2>1. CASE cached = <<>> BY <1>3, <2>1 DEF Tick, Collected
    <2>2. CASE cached # <<>>
      <3> DEFINE s == cached[1]
                 t == [s EXCEPT !.age = Older(@, CacheSeconds), !.readAge = Older(@, Oldest)]
      <3>1. cached' = <<t>> /\ gpus' = gpus /\ reasons' = reasons BY <1>3, <2>2 DEF Tick
      <3>2. IsCollected(s) BY <2>2 DEF Collected
      <3>3. /\ t.gpus = s.gpus /\ t.processes = s.processes /\ t.adapters = s.adapters
            /\ t.degraded = s.degraded
        <4> HIDE DEF s
        <4> QED OBVIOUS
      <3> HIDE DEF s, t
      <3>4. IsCollected(t) BY <3>2, <3>3 DEF IsCollected
      <3>5. cached'[1] = t BY <3>1
      <3>6. IsCollected(cached'[1]) BY <3>4, <3>5
      <3>7. (IsCollected(cached[1]))' BY <3>6 DEF IsCollected
      <3> QED BY <3>1, <3>7 DEF Collected
    <2> QED BY <2>1, <2>2
  <1>4. CASE UNCHANGED gpuVars BY <1>1, <1>4 DEF gpuVars
  <1>5. ASSUME NEW c \in Callers, Sample(c) \/ Acquire(c) \/ Return(c) PROVE Collected'
    BY <1>1, <1>5 DEF Sample, Acquire, Return, Collect
  <1>6. ASSUME NEW c \in Callers, NvidiaAnswers(c) \/ NvidiaFails(c) PROVE Collected'
    BY <1>2, <1>6 DEF NvidiaAnswers, NvidiaFails, Devices, Programs
  <1>7. ASSUME NEW c \in Callers, WindowsAnswers(c) PROVE Collected'
    BY <1>7, SnapshotCollected DEF WindowsAnswers
  <1>8. ASSUME NEW c \in Callers, TakeSnapshot(c, <<>>, <<>>, {"powershell.exe"})
        PROVE  Collected'
    BY <1>8, SnapshotCollected DEF Programs
  <1>9. ASSUME NEW c \in Callers, WindowsFails(c) \/ Reaped(c) PROVE Collected'
    BY <1>2, <1>8, <1>9 DEF WindowsFails, Reaped, Devices, Programs
  <1>10. ASSUME NEW c \in Callers, ProgramTimesOut(c) PROVE Collected'
    BY <1>1, <1>10 DEF ProgramTimesOut, Kill
  <1> QED BY <1>3, <1>4, <1>5, <1>6, <1>7, <1>9, <1>10 DEF GpuNext

\* Both invariants hold throughout.
LEMMA CollectedInvariant == GpuSpec => [](GpuInv /\ Collected)
  <1>1. GpuInit => Collected BY DEF GpuInit, Collected, Devices, Programs
  <1>2. GpuInv /\ Collected /\ [GpuNext]_gpuVars => Collected' BY NextCollected
  <1> QED BY <1>1, <1>2, GpuInvariant, PTL DEF GpuSpec

\* The strengthened invariants imply the type invariant.
LEMMA InvTyped == GpuInv /\ Collected => GpuTypeOK
  <1> SUFFICES ASSUME GpuInv, Collected PROVE GpuTypeOK OBVIOUS
  <1>1. Cardinality(Running) <= 1
    <2>1. CASE Running = {}
      <3>1. Cardinality({}) = 0 BY FS_EmptySet
      <3> QED BY <2>1, <3>1
    <2>2. ASSUME NEW c \in Running PROVE Cardinality(Running) <= 1
      <3>1. Running = {c} BY <2>2 DEF GpuInv, OneRuns
      <3>2. Cardinality({c}) = 1 BY FS_Singleton
      <3> QED BY <3>1, <3>2
    <2> QED BY <2>1, <2>2
  <1>2. Len(cached) <= 1
    <2>1. CASE cached = <<>> BY <2>1
    <2>2. CASE cached = <<cached[1]>>
      <3> DEFINE s == cached[1]
      <3>1. cached = <<s>> BY <2>2
      <3> HIDE DEF s
      <3> QED BY <3>1
    <2> QED BY <2>1, <2>2 DEF GpuInv, Cached
  <1>3. ASSUME NEW snapshot \in ToSet(cached)
        PROVE  /\ snapshot.gpus \in Devices /\ snapshot.degraded \subseteq Programs
               /\ snapshot.age \in 0 .. CacheSeconds /\ snapshot.readAge \in 0 .. Oldest
    <2> DEFINE s == cached[1]
    <2>1. cached = <<s>> \/ cached = <<>> BY DEF GpuInv, Cached
    <2>2. snapshot = s /\ cached # <<>>
      <3> HIDE DEF s
      <3> QED BY <1>3, <2>1 DEF ToSet
    <2>3. IsCollected(snapshot) /\ IsSnapshot(snapshot)
      BY <2>2 DEF Collected, GpuInv, Cached
    <2> QED BY <2>3 DEF IsCollected, IsSnapshot
  <1> QED BY <1>1, <1>2, <1>3 DEF GpuInv, GpuTypeOK, Queued, Collected

\* The snapshot that is cached.
LEMMA CachedCollected ==
    ASSUME GpuInv, Collected, NEW snapshot \in ToSet(cached)
    PROVE  IsCollected(snapshot) /\ snapshot.gpus \in Seq([name : STRING, used : Int])
  <1>1. cached = <<cached[1]>> \/ cached = <<>> BY DEF GpuInv, Cached
  <1> DEFINE s == cached[1]
  <1>2. cached = <<s>> \/ cached = <<>> BY <1>1
  <1>3. snapshot = s /\ cached # <<>>
    <2> HIDE DEF s
    <2> QED BY <1>2 DEF ToSet
  <1>4. IsCollected(snapshot) BY <1>3 DEF Collected
  <1>5. snapshot.gpus \in Devices BY <1>4 DEF IsCollected
  <1>6. \A devices \in Devices : devices \in Seq([name : STRING, used : Int])
    <2>1. SUFFICES ASSUME NEW devices \in Devices
          PROVE  devices \in Seq([name : STRING, used : Int])
      OBVIOUS
    <2>2. <<>> \in Seq([name : STRING, used : Int]) OBVIOUS
    <2>3. CASE devices = <<>> BY <2>2, <2>3
    <2>4. CASE devices \in NvidiaOutputs
      BY <2>4, GpuConstants, Zenon DEF GpuConstants
    <2> QED BY <2>3, <2>4 DEF Devices
  <1> QED BY <1>4, <1>5, <1>6

\* Its labels are those of the devices, each once.
LEMMA CollectedLabels == GpuInv /\ Collected => DistinctLabels
  <1> SUFFICES ASSUME GpuInv, Collected, NEW snapshot \in ToSet(cached)
               PROVE  LabelsDistinct(snapshot.adapters, snapshot.gpus)
    BY DEF DistinctLabels, LabelsDistinct
  <1>1. IsCollected(snapshot) /\ snapshot.gpus \in Seq([name : STRING, used : Int])
    BY CachedCollected
  <1>2. ASSUME NEW out \in WindowsOutputs,
               snapshot.adapters = LabelDiscreteAdapters(ParseAdapters(out), snapshot.gpus)
        PROVE  LabelsDistinct(snapshot.adapters, snapshot.gpus)
    <2> DEFINE S == {row \in out.adapters : row.id # 0}
    <2>1. /\ out.adapters \subseteq [id : Nat, dedicated : Nat]
          /\ IsFiniteSet(out.adapters)
          /\ \A s, t \in out.adapters : s.id = t.id => s = t \/ s.id = 0
      BY GpuConstants DEF GpuConstants
    <2>2. IsPlaced(ParseAdapters(out), S) BY <2>1, AdaptersPlaced
    <2>3. S \in SUBSET out.adapters OBVIOUS
    <2>4. IsFiniteSet(S) BY <2>1, <2>3, FS_Subset
    <2>5. S \subseteq [id : Nat, dedicated : Nat] BY <2>1
    <2>6. \A x, y \in S : x.id = y.id => x = y BY <2>1
    <2> HIDE DEF S
    <2>7. LabelsDistinct(LabelDiscreteAdapters(ParseAdapters(out), snapshot.gpus), snapshot.gpus)
      BY <1>1, <2>2, <2>4, <2>5, <2>6, LabelsCounted
    <2> QED BY <1>2, <2>7
  <1>3. CASE snapshot.adapters = <<>>
    <2>1. ToSet(<<>>) = {} BY DEF ToSet
    <2>2. Len(snapshot.gpus) \in Nat /\ Len(<<>>) = 0 BY <1>1
    <2>3. Cardinality({}) = 0 BY FS_EmptySet
    <2>4. {a \in ToSet(<<>>) : a.names # {}} = {} BY <2>1
    <2>5. (IF Len(snapshot.gpus) < Len(<<>>) THEN Len(snapshot.gpus) ELSE Len(<<>>)) = 0
      BY <2>2
    <2>6. LabelsDistinct(<<>>, snapshot.gpus)
      <3> DEFINE fewer == IF Len(snapshot.gpus) < Len(<<>>) THEN Len(snapshot.gpus) ELSE Len(<<>>)
                 named == {a \in ToSet(<<>>) : a.names # {}}
      <3>1. fewer = 0 /\ named = {} BY <2>4, <2>5
      <3> HIDE DEF fewer, named
      <3>2. Cardinality(named) = fewer BY <2>3, <3>1
      <3>3. UNION {a.names : a \in named} = {} BY <3>1
      <3> QED BY <3>1, <3>2, <3>3 DEF LabelsDistinct, fewer, named
    <2> QED BY <1>3, <2>6
  <1> QED BY <1>1, <1>2, <1>3 DEF IsCollected

\* Its rows account for one output of the script.
LEMMA CollectedMemory == GpuInv /\ Collected => MemoryAccounted
  <1> SUFFICES ASSUME GpuInv, Collected, NEW snapshot \in ToSet(cached),
                      "powershell.exe" \notin snapshot.degraded
               PROVE  LET rows == snapshot.processes
                      IN  /\ IsInjective([i \in DOMAIN rows |-> Key(rows[i])])
                          /\ \E out \in WindowsOutputs :
                                \A adapter \in {row.adapter : row \in ToSet(out.counters \o rows)} :
                                   Shown(rows, adapter) = Measured(out.counters, adapter)
    BY DEF MemoryAccounted
  <1> DEFINE rows == snapshot.processes
  <1>1. PICK out \in WindowsOutputs : rows = ParseProcesses(out)
    BY CachedCollected DEF IsCollected
  <1>2. out.counters \in Seq([pid : Int, adapter : Nat, value : Int])
    BY GpuConstants DEF GpuConstants
  <1>3. (\E T : rows \in Seq(T)) /\ RowsOf(rows, out.counters) BY <1>1, <1>2, RowsShown
  <1> HIDE DEF rows
  <1>4. PICK T : rows \in Seq(T) BY <1>3
  <1>5. \A adapter : Shown(rows, adapter) = Measured(out.counters, adapter)
    BY <1>2, <1>3, <1>4, ShownIsMeasured
  <1>6. IsInjective([i \in DOMAIN rows |-> Key(rows[i])])
    <2>1. DOMAIN rows = 1 .. Len(rows) BY <1>4
    <2> QED BY <1>3, <2>1 DEF RowsOf, IsInjective
  <1> QED BY <1>5, <1>6 DEF rows

\* The lock lets one caller run the programs, those that wait for it are in its
\* queue, each once, and each variable keeps its type.
THEOREM GpuTypeCorrect == GpuSpec => []GpuTypeOK
  BY CollectedInvariant, InvTyped, PTL

\* Whatever the two programs print, a device labels one adapter and an adapter has
\* one label, and none is left out while an adapter is free (_label_discrete_adapters).
THEOREM DistinctLabelsHolds == GpuSpec => []DistinctLabels
  BY CollectedInvariant, CollectedLabels, PTL

\* Whatever the script prints, its valid counters add up to what the rows show,
\* adapter by adapter (parse_windows_gpu_json), in the snapshot that is cached.
THEOREM MemoryAccountedHolds == GpuSpec => []MemoryAccounted
  BY CollectedInvariant, CollectedMemory, PTL
=============================================================================
