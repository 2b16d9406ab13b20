----------------------------- MODULE SpeedProofs -----------------------------
(***************************************************************************)
(* Proofs about DecodeSpeed, for any number of polls and of tokens.        *)
(***************************************************************************)
EXTENDS DecodeSpeed, SequenceTheorems, TLAPS

\* The polls by themselves.
SpeedSpec == SpeedInit /\ [][SpeedNext]_speedVars

\* The total that a reading shows, and the tokens that the backend counts now.
Total(text) == Head(DecodeMetrics(text)).total
Counted == total[FALSE] + total[TRUE]

Scraped(p) == p \in Polls /\ stage[p] = "scraped"
Before(p, q) == \E i, j \in DOMAIN served : i < j /\ served[i] = p /\ served[j] = q
Reads(p) == DecodeMetrics(scrape[p].text) # <<>>
Tot(p) == Total(scrape[p].text)
Gen(p) == scrape[p].gen
Now(p) == scrape[p].current

Stored == sample # <<>>
StoredTot == sample[1].total
StoredGen == sample[1].gen
StoredNow == sample[1].current

Readings == [total : Nat, older : BOOLEAN, gen : Nat, current : BOOLEAN]

Shape ==
    /\ stage \in [Polls -> Stages] /\ listed \in [Polls -> BOOLEAN]
    /\ upDuring \in [Polls -> BOOLEAN] /\ scrape = [p \in Polls |-> scrape[p]]
    /\ \A p \in Polls : /\ scrape[p] = [text |-> scrape[p].text, gen |-> scrape[p].gen,
                                        current |-> scrape[p].current]
                        /\ scrape[p].gen \in 0 .. generated /\ scrape[p].current \in BOOLEAN
                        /\ stage[p] # "scraped" => scrape[p] = NoScrape
    /\ sample = <<>> \/ (sample = <<sample[1]>> /\ sample[1] \in Readings)
    /\ backend \in Kinds /\ up \in BOOLEAN /\ inflight \in {0, 1}
    /\ generated \in Nat /\ reported \in Nat /\ crossed \in BOOLEAN
    /\ total \in [BOOLEAN -> Nat] /\ \A b \in BOOLEAN : total[b] <= generated
Queued ==
    /\ served \in Seq(Polls) /\ IsInjective(served)
    /\ ToSet(served) = {p \in Polls : stage[p] = "scraped"}
\* A poll knows of a time at which the model was up, until it scrapes.
Woken ==
    \A p \in Polls :
        /\ stage[p] \in {"running", "listed", "scrape"} /\ up => upDuring[p]
        /\ listed[p] => stage[p] = "listed" /\ upDuring[p]
        /\ stage[p] = "scrape" => upDuring[p]
\* A backend with metrics gives a reading in every scrape, one without in none.
Readable ==
    IF backend = "other"
    THEN ~Stored /\ reported = 0 /\ \A p \in Polls : scrape[p].text = <<>>
    ELSE \A p \in Polls : Scraped(p) => Reads(p) /\ Tot(p) \in Nat

\* From one reading to a later one the counter grows by what was generated
\* between them at most: less if the backend restarted.
Grows(tot, gen, laterTot, laterGen) ==
    gen <= laterGen /\ laterTot - tot <= laterGen - gen
Ordered ==
    /\ \A p \in Polls : Scraped(p) => Grows(Tot(p), Gen(p), Counted, generated)
    /\ \A p, q \in Polls : Before(p, q) => Grows(Tot(p), Gen(p), Tot(q), Gen(q))
    /\ Stored =>
          /\ Grows(StoredTot, StoredGen, Counted, generated)
          /\ ~crossed => \A p \in Polls : Scraped(p) =>
                Grows(StoredTot, StoredGen, Tot(p), Gen(p))
    /\ ~crossed => reported <= IF Stored THEN StoredGen ELSE 0

\* Between readings of one run of the backend it grows by just that.
SameRun ==
    /\ \A p, q \in Polls :
          Scraped(p) /\ Scraped(q) /\ Now(p) /\ Now(q) => Tot(p) - Gen(p) = Tot(q) - Gen(q)
    /\ Stored /\ StoredNow => \A p \in Polls :
          Scraped(p) /\ Now(p) => Tot(p) - Gen(p) = StoredTot - StoredGen
    /\ up => \A p \in Polls :
          Scraped(p) /\ Now(p) => Tot(p) - Gen(p) = Counted - generated
    /\ up /\ Stored /\ StoredNow => StoredTot - StoredGen = Counted - generated

SpeedInv ==
    /\ Shape /\ Queued /\ Woken /\ Readable
    /\ backend # "other" => Ordered /\ SameRun

-----------------------------------------------------------------------------
(* The metrics text. *)

\* The sum over one or two places, as the community modules define it.
Sums(text, S, iter) ==
    iter = [s \in SUBSET S |->
              IF s = {} THEN 0
              ELSE text[CHOOSE x \in s : TRUE].value + iter[s \ {CHOOSE x \in s : TRUE}]]

Value(text, i) == text[i].value

\* _metric_sum of a counter with one series or two
LEMMA SumOfTwo ==
    ASSUME NEW text, NEW name, NEW a, NEW b, MetricValues(text, name) = {a, b},
           Value(text, a) \in Nat, Value(text, b) \in Nat
    PROVE  MetricSum(text, name)
             = IF a = b THEN Value(text, a) ELSE Value(text, a) + Value(text, b)
  <1> DEFINE S == {a, b}
             va == text[a].value
             vb == text[b].value
             First(s) == CHOOSE x \in s : TRUE
             all == IF a = b THEN va ELSE va + vb
             iter == CHOOSE f : Sums(text, S, f)
  <1>1. MetricSum(text, name) = iter[S]
    BY DEF MetricSum, MapThenSumSet, MapThenFoldSet, Sums
  <1>2. \E f : Sums(text, S, f)
    <2> DEFINE g == [s \in SUBSET S |-> IF s = {} THEN 0
                                        ELSE IF s = S THEN all ELSE IF s = {a} THEN va ELSE vb]
    <2>1. ASSUME NEW s \in SUBSET S, s # {}
          PROVE  g[s] = text[First(s)].value + g[s \ {First(s)}]
      <3>1. va \in Nat /\ vb \in Nat BY DEF Value
      <3>2. First(s) \in s BY <2>1
      <3>3. g[{}] = 0 /\ g[s] = (IF s = S THEN all ELSE IF s = {a} THEN va ELSE vb)
        BY <2>1
      <3> DEFINE x == First(s)
                 r == s \ {x}
      <3>4. x \in s /\ x \in {a, b} /\ r \in SUBSET S BY <3>2
      <3>5. g[r] = IF r = {} THEN 0 ELSE IF r = S THEN all ELSE IF r = {a} THEN va ELSE vb
        BY <3>4
      <3>6. g[r] = (IF r = {} THEN 0 ELSE IF r = {a} THEN va ELSE vb) BY <3>2, <3>4, <3>5
      <3> HIDE DEF x, g
      <3>7. CASE a = b
        <4>1. s = {a} /\ s = S /\ x = a /\ r = {} BY <2>1, <3>4, <3>7
        <4> QED BY <3>1, <3>3, <3>6, <3>7, <4>1 DEF x, Value
      <3>8. CASE a # b /\ s = S /\ x = a
        <4>1. r = {b} /\ r # {} /\ r # {a} BY <3>8
        <4> QED BY <3>1, <3>3, <3>6, <3>8, <4>1 DEF x, Value
      <3>9. CASE a # b /\ s = S /\ x = b
        <4>1. r = {a} /\ r # {} BY <3>9
        <4> QED BY <3>1, <3>3, <3>6, <3>9, <4>1 DEF x, Value
      <3>10. CASE a # b /\ s # S
        <4>1. s = {x} /\ r = {} BY <3>4, <3>10
        <4>2. (s = {a}) = (x = a) BY <4>1
        <4> QED BY <3>1, <3>3, <3>4, <3>6, <3>10, <4>1, <4>2 DEF x, Value
      <3> QED BY <3>4, <3>7, <3>8, <3>9, <3>10
    <2>2. g = [s \in SUBSET S |-> IF s = {} THEN 0 ELSE text[First(s)].value + g[s \ {First(s)}]]
      BY <2>1
    <2> QED BY <2>2 DEF Sums
  <1>3. Sums(text, S, iter) BY <1>2
  <1> HIDE DEF iter
  <1>4. \A s \in SUBSET S : iter[s] = IF s = {} THEN 0
                                      ELSE text[First(s)].value + iter[s \ {First(s)}]
    BY <1>3 DEF Sums
  <1>5. iter[{}] = 0 BY <1>4
  <1>6. ASSUME NEW x \in S PROVE iter[{x}] = text[x].value
    <2>1. First({x}) = x /\ {x} \ {x} = {} /\ {x} # {} /\ {x} \in SUBSET S OBVIOUS
    <2>2. iter[{x}] = text[x].value + iter[{}] BY <1>4, <2>1
    <2>3. text[x].value \in Nat BY DEF Value
    <2> QED BY <1>5, <2>2, <2>3
  <1>7. iter[S] = all
    <2>1. CASE a = b
      <3>1. iter[{a}] = va BY <1>6
      <3>2. S = {a} /\ all = va BY <2>1
      <3> QED BY <3>1, <3>2
    <2>2. CASE a # b
      <3> DEFINE x == First(S)
      <3>1. x \in S /\ iter[S] = text[x].value + iter[S \ {x}] BY <1>4
      <3> HIDE DEF x
      <3>2. CASE x = a
        <4>1. S \ {x} = {b} BY <2>2, <3>2
        <4> QED BY <1>6, <2>2, <3>1, <3>2, <4>1
      <3>3. CASE x = b
        <4>1. S \ {x} = {a} BY <2>2, <3>3
        <4>2. iter[{a}] = va BY <1>6
        <4>3. iter[S] = vb + va BY <3>1, <3>3, <4>1, <4>2
        <4>4. va \in Nat /\ vb \in Nat BY DEF Value
        <4> QED BY <2>2, <4>3, <4>4
      <3>4. x = a \/ x = b BY <3>1
      <3> QED BY <3>2, <3>3, <3>4
    <2> QED BY <2>1, <2>2
  <1> QED BY <1>1, <1>7 DEF Value

\* _decode_metrics of a text with the series of one kind of backend
LEMMA KindRead ==
    ASSUME NEW text, NEW k \in {1, 2},
           {i \in DOMAIN Known : /\ MetricValues(text, Known[i].counter) # {}
                                 /\ MetricValues(text, Known[i].running) # {}} = {k}
    PROVE  DecodeMetrics(text) # <<>> /\ Total(text) = MetricSum(text, Known[k].counter)
  <1> DEFINE kinds == {i \in DOMAIN Known : /\ MetricValues(text, Known[i].counter) # {}
                                            /\ MetricValues(text, Known[i].running) # {}}
             c(i) == MetricSum(text, Known[i].counter)
             r(i) == MetricMax(text, Known[i].running)
             t(i) == IF MetricValues(text, Known[i].gauge) # {}
                     THEN <<MetricMax(text, Known[i].gauge)>> ELSE <<>>
             l == Min(kinds)
  <1>1. DecodeMetrics(text)
          = IF kinds = {} THEN <<>>
            ELSE <<[total |-> c(l), running |-> r(l), throughput |-> t(l)]>>
    BY DEF DecodeMetrics
  <1>2. kinds = {k} /\ kinds # {} OBVIOUS
  <1>3. l = k BY <1>2 DEF Min
  <1> HIDE DEF kinds, l, c, r, t
  <1>4. DecodeMetrics(text) = <<[total |-> c(k), running |-> r(k), throughput |-> t(k)]>>
    BY <1>1, <1>2, <1>3
  <1>5. DecodeMetrics(text) # <<>> /\ Head(DecodeMetrics(text)).total = c(k) BY <1>4
  <1> QED BY <1>5 DEF Total, c

\* _decode_metrics of the two series of sglang's counter
LEMMA SglangRead ==
    ASSUME NEW text, NEW n \in Nat, NEW m \in Nat, NEW running,
           DOMAIN text \in {1 .. 4, 1 .. 6},
           text[1] = Series("sglang:generation_tokens_total", n),
           text[2] = Series("sglang:generation_tokens_total", m),
           text[3] = Series("sglang:num_running_reqs", running),
           \A i \in DOMAIN text \ {1, 2} :
              text[i].name \in {"sglang:num_running_reqs", "sglang:gen_throughput"}
    PROVE  DecodeMetrics(text) # <<>> /\ Total(text) = n + m
  <1> DEFINE vc == "vllm:generation_tokens_total"
             sc == "sglang:generation_tokens_total"
             sr == "sglang:num_running_reqs"
  <1>1. 1 \in DOMAIN text /\ 2 \in DOMAIN text /\ 3 \in DOMAIN text OBVIOUS
  <1>2. /\ MetricValues(text, sc) = {1, 2} /\ MetricValues(text, sr) # {}
        /\ MetricValues(text, vc) = {}
    BY <1>1 DEF MetricValues, Series
  <1>3. Value(text, 1) = n /\ Value(text, 2) = m BY DEF Series, Value
  <1>4. MetricSum(text, sc) = n + m
    <2> HIDE DEF sc
    <2> QED BY SumOfTwo, <1>2, <1>3
  <1>5. {i \in DOMAIN Known : /\ MetricValues(text, Known[i].counter) # {}
                              /\ MetricValues(text, Known[i].running) # {}} = {2}
    BY <1>2 DEF Known
  <1>6. Known[2].counter = sc BY DEF Known
  <1> QED BY KindRead, <1>4, <1>5, <1>6

\* A scrape shows what the backend counts, unless its kind has no metrics.
LEMMA MetricsRead ==
    ASSUME backend \in Kinds, NEW counts \in [BOOLEAN -> Nat], NEW running \in {0, 1}
    PROVE  LET text == Metrics(counts, running)
           IN  IF backend = "other" THEN text = <<>>
               ELSE /\ DecodeMetrics(text) # <<>>
                    /\ Total(text) = counts[FALSE] + counts[TRUE]
  <1> DEFINE text == Metrics(counts, running)
             vc == "vllm:generation_tokens_total"
             vr == "vllm:num_requests_running"
             sc == "sglang:generation_tokens_total"
             sr == "sglang:num_running_reqs"
  <1> DEFINE n == counts[FALSE]
             m == counts[TRUE]
  <1>1. n \in Nat /\ m \in Nat OBVIOUS
  <1> HIDE DEF n, m
  <1>2. n + m \in Nat BY <1>1
  <1>3. CASE backend = "vllm"
    <2>1. text = <<Series(vc, n + m), Series(vr, running)>> BY <1>3 DEF Metrics, n, m
    <2> HIDE DEF text
    <2>2. DOMAIN text = {1, 2} /\ text[1] = Series(vc, n + m) /\ text[2] = Series(vr, running)
      BY <2>1
    <2>3. /\ MetricValues(text, vc) = {1, 1} /\ MetricValues(text, vr) = {2}
          /\ MetricValues(text, sc) = {}
      BY <2>2 DEF MetricValues, Series
    <2>4. Value(text, 1) = n + m BY <2>2 DEF Series, Value
    <2>5. MetricSum(text, vc) = n + m BY SumOfTwo, <1>2, <2>3, <2>4
    <2>6. {i \in DOMAIN Known : /\ MetricValues(text, Known[i].counter) # {}
                                /\ MetricValues(text, Known[i].running) # {}} = {1}
      BY <2>3 DEF Known
    <2>7. Known[1].counter = vc BY DEF Known
    <2>8. DecodeMetrics(text) # <<>> /\ Total(text) = MetricSum(text, vc)
      BY KindRead, <2>6, <2>7
    <2>9. DecodeMetrics(text) # <<>> /\ Total(text) = n + m BY <2>5, <2>8
    <2> QED BY <1>3, <2>9 DEF text, n, m
  <1>4. CASE backend \in {"sglang", "gauged"}
    <2>1. /\ DOMAIN text \in {1 .. 4, 1 .. 6}
          /\ text[1] = Series(sc, n) /\ text[2] = Series(sc, m)
          /\ text[3] = Series(sr, running)
          /\ \A i \in DOMAIN text \ {1, 2} : text[i].name \in {sr, "sglang:gen_throughput"}
      <3>1. CASE backend = "sglang" BY <3>1 DEF Metrics, Series, n, m
      <3>2. CASE backend = "gauged" BY <3>2 DEF Metrics, Series, n, m
      <3> QED BY <1>4, <3>1, <3>2
    <2> HIDE DEF text
    <2>2. DecodeMetrics(text) # <<>> /\ Total(text) = n + m BY SglangRead, <1>1, <2>1
    <2> QED BY <1>4, <2>2 DEF text, n, m
  <1>5. CASE backend = "other"
    BY <1>5 DEF Metrics
  <1> QED BY <1>3, <1>4, <1>5 DEF Kinds

\* No text, no reading.
LEMMA NothingRead == DecodeMetrics(<<>>) = <<>>
  <1>1. \A name : MetricValues(<<>>, name) = {} BY DEF MetricValues
  <1> QED BY <1>1 DEF DecodeMetrics

-----------------------------------------------------------------------------
(* The order of the scrapes. *)

\* A poll that ends leaves the others in their order.
LEMMA RemovedOne ==
    ASSUME NEW S, NEW s \in Seq(S), IsInjective(s), NEW p
    PROVE  LET r == RemoveFirst(s, p)
           IN  /\ r \in Seq(S) /\ IsInjective(r) /\ ToSet(r) = ToSet(s) \ {p}
               /\ \A i, j \in DOMAIN r : i < j =>
                     \E k, l \in DOMAIN s : k < l /\ r[i] = s[k] /\ r[j] = s[l]
  <1>1. CASE \A i \in DOMAIN s : s[i] # p
    <2>1. RemoveFirst(s, p) = s BY <1>1 DEF RemoveFirst
    <2>2. ToSet(s) = ToSet(s) \ {p} BY <1>1 DEF ToSet
    <2> QED BY <2>1, <2>2
  <1>2. CASE \E i \in DOMAIN s : s[i] = p
    <2> DEFINE I == {i \in 1 .. Len(s) : s[i] = p}
               k == Min(I)
               r == RemoveFirst(s, p)
    <2>1. PICK h \in 1 .. Len(s) : s[h] = p BY <1>2
    <2>2. I = {h} BY <2>1 DEF IsInjective
    <2>3. k = h BY <2>2 DEF Min
    <2>4. r = RemoveAt(s, k) BY <2>1, <2>2 DEF RemoveFirst, SelectInSeq
    <2> HIDE DEF k, I
    <2>5. r = SubSeq(s, 1, h - 1) \o SubSeq(s, h + 1, Len(s)) BY <2>3, <2>4 DEF RemoveAt
    <2> HIDE DEF r
    <2>6. /\ r \in Seq(S) /\ Len(r) = Len(s) - 1
          /\ \A i \in 1 .. Len(s) - 1 : r[i] = IF i < h THEN s[i] ELSE s[i + 1]
      <3> DEFINE u == SubSeq(s, 1, h - 1)
                 v == SubSeq(s, h + 1, Len(s))
      <3>1. u \in Seq(S) /\ Len(u) = h - 1 /\ \A i \in 1 .. h - 1 : u[i] = s[i] OBVIOUS
      <3>2. /\ v \in Seq(S) /\ Len(v) = Len(s) - h
            /\ \A i \in 1 .. Len(s) - h : v[i] = s[i + h]
        OBVIOUS
      <3> HIDE DEF u, v
      <3>3. r = u \o v BY <2>5 DEF u, v
      <3>4. Len(s) \in Nat /\ h \in 1 .. Len(s) OBVIOUS
      <3>5. /\ r \in Seq(S) /\ Len(r) = Len(s) - 1
            /\ \A i \in 1 .. Len(s) - 1 : r[i] = IF i <= h - 1 THEN u[i] ELSE v[i - (h - 1)]
        <4>1. /\ r \in Seq(S) /\ Len(r) = Len(u) + Len(v)
              /\ \A i \in 1 .. Len(u) + Len(v) :
                    r[i] = IF i <= Len(u) THEN u[i] ELSE v[i - Len(u)]
          BY ONLY ConcatProperties, <3>1, <3>2, <3>3
        <4>2. Len(u) = h - 1 /\ Len(u) + Len(v) = Len(s) - 1 BY <3>1, <3>2, <3>4
        <4> QED BY <4>1, <4>2
      <3>6. ASSUME NEW i \in 1 .. Len(s) - 1 PROVE r[i] = IF i < h THEN s[i] ELSE s[i + 1]
        <4>1. CASE i < h BY <3>1, <3>4, <3>5, <4>1
        <4>2. CASE i >= h
          <5>1. i - (h - 1) \in 1 .. Len(s) - h /\ i - (h - 1) + h = i + 1 BY <3>4, <4>2
          <5>2. r[i] = v[i - (h - 1)] BY <3>4, <3>5, <4>2
          <5> QED BY <3>2, <3>4, <4>2, <5>1, <5>2
        <4> QED BY <3>4, <4>1, <4>2
      <3> QED BY <3>5, <3>6
    <2>7. DOMAIN r = 1 .. Len(s) - 1 /\ DOMAIN s = 1 .. Len(s) /\ Len(s) \in Nat BY <2>6
    <2> DEFINE at(i) == IF i < h THEN i ELSE i + 1
    <2>8. \A i \in DOMAIN r : at(i) \in DOMAIN s /\ r[i] = s[at(i)] /\ at(i) # h
      BY <2>6, <2>7
    <2>9. \A i, j \in DOMAIN r : i < j => at(i) < at(j) BY <2>7
    <2>10. \A j \in DOMAIN s : j # h => \E i \in DOMAIN r : at(i) = j
      <3> SUFFICES ASSUME NEW j \in DOMAIN s, j # h PROVE \E i \in DOMAIN r : at(i) = j
        OBVIOUS
      <3>1. CASE j < h BY <2>7, <3>1
      <3>2. CASE j > h
        <4>1. j - 1 \in DOMAIN r /\ at(j - 1) = j BY <2>7, <3>2
        <4> QED BY <4>1
      <3> QED BY <2>7, <3>1, <3>2
    <2>11. \A i, j \in DOMAIN r : i # j => at(i) # at(j) BY <2>7
    <2> HIDE DEF at
    <2>12. IsInjective(r) BY <2>8, <2>11 DEF IsInjective
    <2>13. ToSet(r) = ToSet(s) \ {p}
      BY <2>1, <2>7, <2>8, <2>10 DEF ToSet, IsInjective
    <2> QED BY <2>6, <2>8, <2>9, <2>12, <2>13 DEF r
  <1> QED BY <1>1, <1>2

-----------------------------------------------------------------------------
(* The numbers of the readings. *)

LEMMA Numbers ==
    ASSUME SpeedInv, backend # "other"
    PROVE  /\ generated \in Nat /\ reported \in Nat /\ Counted \in Nat
           /\ \A p \in Polls : Gen(p) \in Nat /\ (Scraped(p) => Tot(p) \in Nat)
           /\ Stored => StoredTot \in Nat /\ StoredGen \in Nat
  <1>1. total[FALSE] \in Nat /\ total[TRUE] \in Nat BY DEF SpeedInv, Shape
  <1>2. generated \in Nat /\ reported \in Nat /\ Counted \in Nat
    <2> DEFINE n == total[FALSE]
               m == total[TRUE]
    <2>1. n \in Nat /\ m \in Nat BY <1>1
    <2>2. Counted = n + m BY DEF Counted
    <2> HIDE DEF n, m
    <2>3. Counted \in Nat BY <2>1, <2>2
    <2> QED BY <2>3 DEF SpeedInv, Shape
  <1>3. \A p \in Polls : Gen(p) \in Nat BY DEF SpeedInv, Shape, Gen
  <1>4. \A p \in Polls : Scraped(p) => Tot(p) \in Nat BY DEF SpeedInv, Readable
  <1>5. Stored => sample[1] \in Readings BY DEF SpeedInv, Shape, Stored
  <1> QED BY <1>2, <1>3, <1>4, <1>5 DEF StoredTot, StoredGen, Readings

LEMMA Later ==
    ASSUME NEW t \in Nat, NEW g \in Nat, NEW c \in Nat, NEW d \in Nat,
           NEW c1 \in Nat, NEW d1 \in Nat, d <= d1, c1 - c <= d1 - d, Grows(t, g, c, d)
    PROVE  Grows(t, g, c1, d1)
  BY DEF Grows

\* The readings that wait after a step waited before it and show what they
\* showed; the step generates what it counts, or outdates them.
KeepsReadings ==
    /\ UNCHANGED <<reported, backend>> /\ (crossed => crossed')
    /\ \A p \in Polls : Scraped(p)' =>
          /\ Scraped(p) /\ Tot(p)' = Tot(p) /\ Gen(p)' = Gen(p)
          /\ Now(p)' => Now(p)
    /\ Stored' = Stored
    /\ Stored => StoredTot' = StoredTot /\ StoredGen' = StoredGen /\ (StoredNow' => StoredNow)
    /\ \A p, q \in Polls : Before(p, q)' => Scraped(p)' /\ Scraped(q)' /\ Before(p, q)
    /\ generated' \in Nat /\ Counted' \in Nat
    /\ generated <= generated' /\ Counted' - Counted <= generated' - generated
    /\ up' => \/ up /\ Counted' - generated' = Counted - generated
              \/ (\A p \in Polls : Scraped(p)' => ~Now(p)') /\ (Stored => ~StoredNow')

LEMMA ReadingsKept ==
    ASSUME SpeedInv, backend # "other", KeepsReadings
    PROVE  Ordered' /\ SameRun'
  <1>1. Ordered /\ SameRun /\ Queued BY DEF SpeedInv
  <1>2. /\ generated \in Nat /\ reported \in Nat /\ Counted \in Nat
        /\ \A p \in Polls : Gen(p) \in Nat /\ (Scraped(p) => Tot(p) \in Nat)
        /\ Stored => StoredTot \in Nat /\ StoredGen \in Nat
    BY Numbers
  <1>3. /\ generated' \in Nat /\ Counted' \in Nat
        /\ generated <= generated' /\ Counted' - Counted <= generated' - generated
    BY DEF KeepsReadings
  <1>4. ASSUME NEW p \in Polls, Scraped(p)'
        PROVE  Grows(Tot(p)', Gen(p)', Counted', generated')
    <2>1. Scraped(p) /\ Tot(p)' = Tot(p) /\ Gen(p)' = Gen(p) BY <1>4 DEF KeepsReadings
    <2>2. Grows(Tot(p), Gen(p), Counted, generated) BY <1>1, <2>1 DEF Ordered
    <2>3. Tot(p) \in Nat /\ Gen(p) \in Nat BY <1>2, <2>1
    <2>4. Grows(Tot(p), Gen(p), Counted', generated') BY Later, <1>2, <1>3, <2>2, <2>3
    <2> QED BY <2>1, <2>4
  <1>5. \A p, q \in Polls : Before(p, q)' => Grows(Tot(p)', Gen(p)', Tot(q)', Gen(q)')
    BY <1>1 DEF KeepsReadings, Ordered
  <1>6. ASSUME Stored' PROVE Grows(StoredTot', StoredGen', Counted', generated')
    <2>1. Stored /\ StoredTot' = StoredTot /\ StoredGen' = StoredGen
      BY <1>6 DEF KeepsReadings
    <2>2. Grows(StoredTot, StoredGen, Counted, generated) BY <1>1, <2>1 DEF Ordered
    <2> QED BY Later, <1>2, <1>3, <2>1, <2>2
  <1>7. Stored' /\ ~crossed' => \A p \in Polls : Scraped(p)' =>
           Grows(StoredTot', StoredGen', Tot(p)', Gen(p)')
    BY <1>1 DEF KeepsReadings, Ordered
  <1>8. ~crossed' => reported' <= IF Stored' THEN StoredGen' ELSE 0
    BY <1>1 DEF KeepsReadings, Ordered
  <1>9. Ordered' BY <1>4, <1>5, <1>6, <1>7, <1>8 DEF Ordered
  <1>10. SameRun' BY <1>1 DEF KeepsReadings, SameRun
  <1> QED BY <1>9, <1>10

-----------------------------------------------------------------------------
(* The requests of a poll. *)

LEMMA NotScraped ==
    ASSUME generated \in Nat
    PROVE  /\ NoScrape = [text |-> NoScrape.text, gen |-> NoScrape.gen,
                          current |-> NoScrape.current]
           /\ NoScrape.text = <<>> /\ NoScrape.gen \in 0 .. generated
           /\ NoScrape.current \in BOOLEAN
  <1>1. NoScrape.text = <<>> /\ NoScrape.gen = 0 /\ NoScrape.current = TRUE BY DEF NoScrape
  <1>2. NoScrape = [text |-> NoScrape.text, gen |-> NoScrape.gen, current |-> NoScrape.current]
    BY DEF NoScrape
  <1>3. 0 \in 0 .. generated OBVIOUS
  <1> QED BY <1>1, <1>2, <1>3

\* What the end of a poll leaves of the other polls.
LEMMA PollEnds ==
    ASSUME SpeedInv, NEW p \in Polls, End(p)
    PROVE  /\ Queued' /\ stage' \in [Polls -> Stages]
           /\ listed' \in [Polls -> BOOLEAN] /\ upDuring' \in [Polls -> BOOLEAN]
           /\ scrape' = [q \in Polls |-> scrape'[q]] /\ scrape'[p] = NoScrape
           /\ stage'[p] = "idle" /\ ~listed'[p]
           /\ \A q \in Polls : q # p =>
                 /\ stage'[q] = stage[q] /\ scrape'[q] = scrape[q]
                 /\ listed'[q] = listed[q] /\ upDuring'[q] = upDuring[q]
           /\ \A q \in Polls : Scraped(q)' => Scraped(q) /\ q # p
           /\ \A q, r \in Polls :
                 Before(q, r)' => Scraped(q)' /\ Scraped(r)' /\ Before(q, r)
  <1>1. /\ stage \in [Polls -> Stages] /\ listed \in [Polls -> BOOLEAN]
        /\ upDuring \in [Polls -> BOOLEAN] /\ scrape = [q \in Polls |-> scrape[q]]
    BY DEF SpeedInv, Shape
  <1>2. /\ stage' = [stage EXCEPT ![p] = "idle"] /\ listed' = [listed EXCEPT ![p] = FALSE]
        /\ scrape' = [scrape EXCEPT ![p] = NoScrape] /\ served' = RemoveFirst(served, p)
        /\ upDuring' = [upDuring EXCEPT ![p] = FALSE]
    BY DEF End
  <1>3. /\ stage' \in [Polls -> Stages] /\ stage'[p] = "idle"
        /\ \A q \in Polls : q # p => stage'[q] = stage[q]
    BY <1>1, <1>2 DEF Stages
  <1>4. /\ listed' \in [Polls -> BOOLEAN] /\ ~listed'[p]
        /\ \A q \in Polls : q # p => listed'[q] = listed[q]
    BY <1>1, <1>2
  <1>5. /\ upDuring' \in [Polls -> BOOLEAN]
        /\ \A q \in Polls : q # p => upDuring'[q] = upDuring[q]
    BY <1>1, <1>2
  <1>6. /\ scrape' = [q \in Polls |-> scrape'[q]] /\ scrape'[p] = NoScrape
        /\ \A q \in Polls : q # p => scrape'[q] = scrape[q]
    BY <1>1, <1>2
  <1>7. served \in Seq(Polls) /\ IsInjective(served)
        /\ ToSet(served) = {q \in Polls : stage[q] = "scraped"}
    BY DEF SpeedInv, Queued
  <1>8. /\ served' \in Seq(Polls) /\ IsInjective(served') /\ ToSet(served') = ToSet(served) \ {p}
        /\ \A i, j \in DOMAIN served' : i < j =>
              \E k, l \in DOMAIN served : k < l /\ served'[i] = served[k] /\ served'[j] = served[l]
    BY <1>2, <1>7, RemovedOne
  <1>9. ToSet(served') = {q \in Polls : stage'[q] = "scraped"} BY <1>3, <1>7, <1>8
  <1>10. Queued' BY <1>8, <1>9 DEF Queued
  <1>11. \A q \in Polls : Scraped(q)' => Scraped(q) /\ q # p BY <1>3 DEF Scraped
  <1>12. ASSUME NEW q \in Polls, NEW r \in Polls, Before(q, r)'
         PROVE  Scraped(q)' /\ Scraped(r)' /\ Before(q, r)
    <2>1. PICK i \in DOMAIN served', j \in DOMAIN served' :
             i < j /\ served'[i] = q /\ served'[j] = r
      BY <1>12 DEF Before
    <2>2. q \in ToSet(served') /\ r \in ToSet(served') BY <2>1 DEF ToSet
    <2>3. Before(q, r) BY <1>8, <2>1 DEF Before
    <2> QED BY <1>9, <2>2, <2>3 DEF Scraped
  <1> QED BY <1>3, <1>4, <1>5, <1>6, <1>10, <1>11, <1>12

LEMMA EndKeeps ==
    ASSUME SpeedInv, NEW p \in Polls, End(p), UNCHANGED <<sample, swapVars, reported>>,
           crossed' \in BOOLEAN, crossed => crossed'
    PROVE  SpeedInv'
  <1>1. /\ Queued' /\ stage' \in [Polls -> Stages]
        /\ listed' \in [Polls -> BOOLEAN] /\ upDuring' \in [Polls -> BOOLEAN]
        /\ scrape' = [q \in Polls |-> scrape'[q]] /\ scrape'[p] = NoScrape
        /\ stage'[p] = "idle" /\ ~listed'[p]
        /\ \A q \in Polls : q # p =>
              /\ stage'[q] = stage[q] /\ scrape'[q] = scrape[q]
              /\ listed'[q] = listed[q] /\ upDuring'[q] = upDuring[q]
        /\ \A q \in Polls : Scraped(q)' => Scraped(q) /\ q # p
        /\ \A q, r \in Polls :
              Before(q, r)' => Scraped(q)' /\ Scraped(r)' /\ Before(q, r)
    BY PollEnds
  <1>2. Shape /\ Woken /\ Readable /\ UNCHANGED <<backend, up, total, inflight, generated>>
    BY DEF SpeedInv, swapVars
  <1>3. \A q \in Polls : Scraped(q)' =>
           /\ Scraped(q) /\ Tot(q)' = Tot(q) /\ Gen(q)' = Gen(q) /\ Now(q)' = Now(q)
           /\ Reads(q)' = Reads(q)
    BY <1>1 DEF Tot, Gen, Now, Reads
  <1>4. Shape'
    <2>1. ASSUME NEW q \in Polls
          PROVE  /\ scrape'[q] = [text |-> scrape'[q].text, gen |-> scrape'[q].gen,
                                  current |-> scrape'[q].current]
                 /\ scrape'[q].gen \in 0 .. generated /\ scrape'[q].current \in BOOLEAN
                 /\ stage'[q] # "scraped" => scrape'[q] = NoScrape
      <3>1. CASE q = p
        <4>1. generated \in Nat BY <1>2 DEF Shape
        <4> QED BY <1>1, <3>1, <4>1, NotScraped
      <3>2. CASE q # p BY <1>1, <1>2, <3>2 DEF Shape
      <3> QED BY <3>1, <3>2
    <2> QED BY <1>1, <1>2, <2>1 DEF Shape
  <1>5. Woken' BY <1>1, <1>2 DEF Woken
  <1>6. Stored' = Stored /\ StoredTot' = StoredTot /\ StoredGen' = StoredGen
        /\ StoredNow' = StoredNow /\ Counted' = Counted
    BY <1>2 DEF Stored, StoredTot, StoredGen, StoredNow, Counted
  <1>7. Readable'
    <2>1. \A q \in Polls : scrape[q].text = <<>> => scrape'[q].text = <<>>
      BY <1>1 DEF NoScrape
    <2> QED BY <1>2, <1>3, <1>6, <2>1 DEF Readable
  <1>8. ASSUME backend # "other" PROVE Ordered' /\ SameRun'
    <2>1. generated \in Nat /\ Counted \in Nat BY <1>8, Numbers
    <2>2. KeepsReadings BY <1>1, <1>2, <1>3, <1>6, <2>1 DEF KeepsReadings
    <2> QED BY <1>8, <2>2, ReadingsKept
  <1> QED BY <1>1, <1>2, <1>4, <1>5, <1>7, <1>8 DEF SpeedInv

\* A step of a poll whose scrape has not been served: only Woken can suffer.
LEMMA MoveKeeps ==
    ASSUME SpeedInv, NEW p \in Polls, NEW to \in {"running", "listed", "scrape"},
           stage[p] # "scraped", Goes(p, to), Woken',
           listed' \in [Polls -> BOOLEAN], upDuring' \in [Polls -> BOOLEAN],
           UNCHANGED <<scrape, sample, swapVars, reported, served, crossed>>
    PROVE  SpeedInv'
  <1>1. /\ Shape /\ Queued /\ Readable
        /\ UNCHANGED <<backend, up, total, inflight, generated>>
    BY DEF SpeedInv, swapVars
  <1>2. /\ stage' \in [Polls -> Stages]
        /\ \A q \in Polls : stage'[q] = "scraped" <=> stage[q] = "scraped"
    BY <1>1 DEF Shape, Goes, Stages
  <1>3. Shape' BY <1>1, <1>2 DEF Shape
  <1>4. Queued' BY <1>1, <1>2 DEF Queued
  <1>5. \A q \in Polls : /\ Scraped(q)' = Scraped(q) /\ Tot(q)' = Tot(q)
                         /\ Gen(q)' = Gen(q) /\ Now(q)' = Now(q) /\ Reads(q)' = Reads(q)
    BY <1>2 DEF Scraped, Tot, Gen, Now, Reads
  <1>6. Stored' = Stored /\ StoredTot' = StoredTot /\ StoredGen' = StoredGen
        /\ StoredNow' = StoredNow /\ Counted' = Counted
    BY <1>1 DEF Stored, StoredTot, StoredGen, StoredNow, Counted
  <1>7. Readable' BY <1>1, <1>5, <1>6 DEF Readable
  <1>8. ASSUME backend # "other" PROVE Ordered' /\ SameRun'
    <2>1. \A q, r \in Polls : Before(q, r)' => Scraped(q) /\ Scraped(r) /\ Before(q, r)
      BY <1>1 DEF Before, Queued, ToSet, Scraped
    <2>2. generated \in Nat /\ Counted \in Nat BY <1>8, Numbers
    <2>3. KeepsReadings BY <1>1, <1>5, <1>6, <2>1, <2>2 DEF KeepsReadings
    <2> QED BY <1>8, <2>3, ReadingsKept
  <1> QED BY <1>1, <1>3, <1>4, <1>7, <1>8 DEF SpeedInv

LEMMA StartKeeps ==
    ASSUME SpeedInv, NEW p \in Polls, Start(p) PROVE SpeedInv'
  <1>1. /\ stage[p] = "idle" /\ Goes(p, "running") /\ upDuring' = [upDuring EXCEPT ![p] = up]
        /\ UNCHANGED <<listed, scrape, sample, swapVars, reported, served, crossed>>
    BY DEF Start
  <1>2. Shape /\ Woken /\ up' = up BY <1>1 DEF SpeedInv, swapVars
  <1>3. upDuring' \in [Polls -> BOOLEAN] /\ listed' \in [Polls -> BOOLEAN]
    BY <1>1, <1>2 DEF Shape
  <1>4. Woken' BY <1>1, <1>2 DEF Woken, Goes, Shape
  <1> QED BY <1>1, <1>3, <1>4, MoveKeeps

LEMMA ServeRunningKeeps ==
    ASSUME SpeedInv, NEW p \in Polls, ServeRunning(p) PROVE SpeedInv'
  <1>1. /\ stage[p] = "running" /\ Goes(p, "listed") /\ listed' = [listed EXCEPT ![p] = up]
        /\ UNCHANGED <<scrape, sample, swapVars, reported, served, crossed, upDuring>>
    BY DEF ServeRunning
  <1>2. Shape /\ Woken /\ up' = up BY <1>1 DEF SpeedInv, swapVars
  <1>3. upDuring' \in [Polls -> BOOLEAN] /\ listed' \in [Polls -> BOOLEAN]
    BY <1>1, <1>2 DEF Shape
  <1>4. Woken' BY <1>1, <1>2 DEF Woken, Goes, Shape
  <1> QED BY <1>1, <1>3, <1>4, MoveKeeps

LEMMA ReadRunningKeeps ==
    ASSUME SpeedInv, NEW p \in Polls, ReadRunning(p) PROVE SpeedInv'
  <1>1. stage[p] = "listed" /\ UNCHANGED <<sample, swapVars, reported, crossed>>
    BY DEF ReadRunning
  <1>2. CASE End(p)
    <2>1. crossed \in BOOLEAN BY DEF SpeedInv, Shape
    <2> QED BY <1>1, <1>2, <2>1, EndKeeps
  <1>3. CASE /\ listed[p] /\ Goes(p, "scrape") /\ listed' = [listed EXCEPT ![p] = FALSE]
             /\ UNCHANGED <<scrape, served, upDuring>>
    <2>1. Shape /\ Woken /\ up' = up BY <1>1 DEF SpeedInv, swapVars
    <2>2. upDuring' \in [Polls -> BOOLEAN] /\ listed' \in [Polls -> BOOLEAN]
      BY <1>3, <2>1 DEF Shape
    <2>3. Woken' BY <1>1, <1>3, <2>1 DEF Woken, Goes, Shape
    <2> QED BY <1>1, <1>3, <2>2, <2>3, MoveKeeps
  <1> QED BY <1>2, <1>3 DEF ReadRunning

-----------------------------------------------------------------------------
(* What happens around the polls. *)

\* A step that leaves the polls and their scrapes as they are.
LEMMA AroundKeeps ==
    ASSUME SpeedInv, Shape', Woken', backend' = backend,
           UNCHANGED <<stage, served, reported, crossed>>,
           \A q \in Polls : /\ scrape'[q].text = scrape[q].text
                            /\ scrape'[q].gen = scrape[q].gen
                            /\ scrape'[q].current => scrape[q].current,
           Stored' = Stored,
           Stored => /\ StoredTot' = StoredTot /\ StoredGen' = StoredGen
                     /\ StoredNow' => StoredNow,
           backend # "other" =>
              /\ generated' \in Nat /\ Counted' \in Nat
              /\ generated <= generated' /\ Counted' - Counted <= generated' - generated
              /\ up' => \/ up /\ Counted' - generated' = Counted - generated
                        \/ (\A p \in Polls : Scraped(p) => ~Now(p)') /\ (Stored => ~StoredNow')
    PROVE  SpeedInv'
  <1>1. Queued /\ Readable BY DEF SpeedInv
  <1>2. Queued' BY <1>1 DEF Queued
  <1>3. \A q \in Polls : /\ Scraped(q)' = Scraped(q) /\ Tot(q)' = Tot(q)
                         /\ Gen(q)' = Gen(q) /\ (Now(q)' => Now(q)) /\ Reads(q)' = Reads(q)
    BY DEF Scraped, Tot, Gen, Now, Reads
  <1>4. Readable' BY <1>1, <1>3 DEF Readable
  <1>5. ASSUME backend # "other" PROVE Ordered' /\ SameRun'
    <2>1. \A q, r \in Polls : Before(q, r)' => Scraped(q) /\ Scraped(r) /\ Before(q, r)
      BY <1>1 DEF Before, Queued, ToSet, Scraped
    <2>2. KeepsReadings BY <1>3, <1>5, <2>1 DEF KeepsReadings
    <2> QED BY <1>5, <2>2, ReadingsKept
  <1> QED BY <1>2, <1>4, <1>5 DEF SpeedInv

LEMMA GenerateKeeps ==
    ASSUME SpeedInv, Generate PROVE SpeedInv'
  <1>1. /\ up /\ generated' = generated + 1
        /\ UNCHANGED <<stage, listed, scrape, sample, backend, up, inflight, reported, served,
                       crossed, upDuring>>
    BY DEF Generate
  <1>2. PICK b \in BOOLEAN : total' = [total EXCEPT ![b] = @ + 1] BY DEF Generate
  <1>3. Shape /\ Woken /\ generated \in Nat /\ total \in [BOOLEAN -> Nat]
    BY DEF SpeedInv, Shape
  <1>4. generated' \in Nat /\ generated <= generated' BY <1>1, <1>3
  <1>5. total' \in [BOOLEAN -> Nat] /\ \A c \in BOOLEAN : total'[c] <= generated'
    BY <1>1, <1>2, <1>3 DEF Shape
  <1>6. Shape'
    <2>1. \A q \in Polls : scrape'[q].gen \in 0 .. generated' BY <1>1, <1>3, <1>4 DEF Shape
    <2> QED BY <1>1, <1>3, <1>4, <1>5, <2>1 DEF Shape
  <1>7. Woken' BY <1>1, <1>3 DEF Woken
  <1>8. Stored' = Stored /\ StoredTot' = StoredTot /\ StoredGen' = StoredGen
        /\ StoredNow' = StoredNow
    BY <1>1 DEF Stored, StoredTot, StoredGen, StoredNow
  <1>9. Counted' = Counted + 1 /\ Counted \in Nat
    <2> DEFINE n == total[FALSE]
               m == total[TRUE]
               n1 == total'[FALSE]
               m1 == total'[TRUE]
    <2>1. n \in Nat /\ m \in Nat BY <1>3
    <2>2. Counted = n + m /\ Counted' = n1 + m1 BY DEF Counted
    <2>3. (n1 = n + 1 /\ m1 = m) \/ (n1 = n /\ m1 = m + 1) BY <1>2, <1>3
    <2> HIDE DEF n, m, n1, m1
    <2> QED BY <2>1, <2>2, <2>3
  <1> QED BY <1>1, <1>3, <1>4, <1>6, <1>7, <1>8, <1>9, AroundKeeps

LEMMA ChatKeeps ==
    ASSUME SpeedInv, ChatBeginsOrEnds PROVE SpeedInv'
  <1>1. /\ inflight' = 1 - inflight
        /\ UNCHANGED <<stage, listed, scrape, sample, backend, up, total, generated, reported,
                       served, crossed, upDuring>>
    BY DEF ChatBeginsOrEnds
  <1>2. Shape /\ Woken BY DEF SpeedInv
  <1>3. Shape' /\ Woken' BY <1>1, <1>2 DEF Shape, Woken
  <1>4. Stored' = Stored /\ StoredTot' = StoredTot /\ StoredGen' = StoredGen
        /\ StoredNow' = StoredNow /\ Counted' = Counted
    BY <1>1 DEF Stored, StoredTot, StoredGen, StoredNow, Counted
  <1>5. backend # "other" => generated \in Nat /\ Counted \in Nat BY Numbers
  <1> QED BY <1>1, <1>3, <1>4, <1>5, AroundKeeps

LEMMA UnloadKeeps ==
    ASSUME SpeedInv, Unload PROVE SpeedInv'
  <1>1. /\ up' = FALSE /\ inflight' = 0 /\ total' = [streaming \in BOOLEAN |-> 0]
        /\ UNCHANGED <<stage, listed, scrape, sample, backend, generated, reported, served,
                       crossed, upDuring>>
    BY DEF Unload
  <1>2. Shape /\ Woken /\ generated \in Nat BY DEF SpeedInv, Shape
  <1>3. total' \in [BOOLEAN -> Nat] /\ \A b \in BOOLEAN : total'[b] <= generated
    BY <1>1, <1>2
  <1>4. Shape' BY <1>1, <1>2, <1>3 DEF Shape
  <1>5. Woken' BY <1>1, <1>2 DEF Woken
  <1>6. Stored' = Stored /\ StoredTot' = StoredTot /\ StoredGen' = StoredGen
        /\ StoredNow' = StoredNow
    BY <1>1 DEF Stored, StoredTot, StoredGen, StoredNow
  <1>7. Counted' = 0 BY <1>1 DEF Counted
  <1>8. backend # "other" => generated \in Nat /\ Counted \in Nat BY Numbers
  <1> QED BY <1>1, <1>6, <1>7, <1>8, <1>4, <1>5, AroundKeeps

\* A backend that starts outdates the sample and the scrapes on their way.
LEMMA OutdatedScrape ==
    ASSUME SpeedInv, NEW q \in Polls
    PROVE  /\ Outdated(q).text = scrape[q].text /\ Outdated(q).gen = scrape[q].gen
           /\ Outdated(q).current => scrape[q].current
           /\ stage[q] = "scraped" => ~Outdated(q).current
           /\ stage[q] # "scraped" => Outdated(q) = scrape[q]
           /\ Outdated(q) = [text |-> Outdated(q).text, gen |-> Outdated(q).gen,
                             current |-> Outdated(q).current]
           /\ Outdated(q).gen \in 0 .. generated /\ Outdated(q).current \in BOOLEAN
  <1> DEFINE t == scrape[q].text
             g == scrape[q].gen
             c == scrape[q].current
  <1>1. scrape[q] = [text |-> t, gen |-> g, current |-> c] /\ g \in 0 .. generated
        /\ c \in BOOLEAN
    BY DEF SpeedInv, Shape
  <1> HIDE DEF t, g, c
  <1>2. Outdated(q) = [text |-> t, gen |-> g, current |-> c /\ stage[q] # "scraped"]
    BY <1>1 DEF Outdated
  <1> DEFINE o == Outdated(q)
  <1> HIDE DEF o
  <1>3. CASE stage[q] = "scraped"
    <2>1. o = [text |-> t, gen |-> g, current |-> FALSE] BY <1>2, <1>3 DEF o
    <2> QED BY <1>1, <1>3, <2>1 DEF o, t, g, c
  <1>4. CASE stage[q] # "scraped"
    <2>1. o = [text |-> t, gen |-> g, current |-> c] BY <1>1, <1>2, <1>4 DEF o
    <2>2. o = scrape[q] BY <1>1, <2>1
    <2> QED BY <1>1, <1>4, <2>1, <2>2 DEF o, t, g, c
  <1> QED BY <1>3, <1>4

LEMMA OutdatedSample ==
    ASSUME SpeedInv,
           sample' = [i \in DOMAIN sample |-> [sample[i] EXCEPT !.current = FALSE]]
    PROVE  /\ sample' = <<>> \/ (sample' = <<sample'[1]>> /\ sample'[1] \in Readings)
           /\ Stored' = Stored
           /\ Stored => /\ StoredTot' = StoredTot /\ StoredGen' = StoredGen /\ ~StoredNow'
  <1>1. CASE sample = <<>>
    <2>1. sample' = <<>> BY <1>1
    <2> QED BY <1>1, <2>1 DEF Stored
  <1>2. CASE sample = <<sample[1]>> /\ sample[1] \in Readings
    <2> DEFINE x == sample[1]
               y == [x EXCEPT !.current = FALSE]
    <2>1. sample = <<x>> /\ x \in Readings BY <1>2
    <2>2. y \in Readings /\ y.total = x.total /\ y.gen = x.gen /\ ~y.current
      BY <2>1 DEF Readings
    <2>3. sample' = <<y>>
      <3>1. DOMAIN sample = 1 .. 1 BY <2>1
      <3>2. sample' = [i \in 1 .. 1 |-> [sample[i] EXCEPT !.current = FALSE]] BY <3>1
      <3>3. \A i \in 1 .. 1 : [sample[i] EXCEPT !.current = FALSE] = y OBVIOUS
      <3> HIDE DEF y
      <3>4. sample' = [i \in 1 .. 1 |-> y] BY <3>2, <3>3
      <3>5. <<y>> = [i \in 1 .. 1 |-> y] OBVIOUS
      <3> QED BY <3>4, <3>5
    <2> HIDE DEF x, y
    <2>4. sample'[1] = y /\ sample[1] = x /\ sample # <<>> /\ sample' # <<>>
      BY <2>1, <2>3
    <2> QED BY <2>2, <2>3, <2>4 DEF Stored, StoredTot, StoredGen, StoredNow
  <1> QED BY <1>1, <1>2 DEF SpeedInv, Shape

LEMMA LoadKeeps ==
    ASSUME SpeedInv, Load PROVE SpeedInv'
  <1>1. /\ ~up /\ up' = TRUE /\ scrape' = [q \in Polls |-> Outdated(q)]
        /\ upDuring' = [p \in Polls |-> stage[p] \notin {"idle", "scraped"}]
        /\ sample' = [i \in DOMAIN sample |-> [sample[i] EXCEPT !.current = FALSE]]
        /\ UNCHANGED <<stage, listed, backend, total, inflight, generated, reported, served,
                       crossed>>
    BY DEF Load, Starts
  <1>2. Shape /\ Woken BY DEF SpeedInv
  <1>3. \A q \in Polls : scrape'[q] = Outdated(q) BY <1>1
  <1>4. /\ sample' = <<>> \/ (sample' = <<sample'[1]>> /\ sample'[1] \in Readings)
        /\ Stored' = Stored
        /\ Stored => /\ StoredTot' = StoredTot /\ StoredGen' = StoredGen /\ ~StoredNow'
    BY <1>1, OutdatedSample
  <1>5. Shape'
    <2>1. ASSUME NEW q \in Polls
          PROVE  /\ scrape'[q] = [text |-> scrape'[q].text, gen |-> scrape'[q].gen,
                                  current |-> scrape'[q].current]
                 /\ scrape'[q].gen \in 0 .. generated /\ scrape'[q].current \in BOOLEAN
                 /\ stage[q] # "scraped" => scrape'[q] = NoScrape
      BY <1>2, <1>3, OutdatedScrape DEF Shape
    <2>2. scrape' = [q \in Polls |-> scrape'[q]] BY <1>1
    <2>3. upDuring' \in [Polls -> BOOLEAN] BY <1>1
    <2> QED BY <1>1, <1>2, <1>4, <2>1, <2>2, <2>3 DEF Shape
  <1>6. Woken' BY <1>1, <1>2 DEF Woken
  <1>7. \A q \in Polls : /\ scrape'[q].text = scrape[q].text
                         /\ scrape'[q].gen = scrape[q].gen
                         /\ scrape'[q].current => scrape[q].current
                         /\ Scraped(q) => ~Now(q)'
    BY <1>3, OutdatedScrape DEF Scraped, Now
  <1>8. Counted' = Counted BY <1>1 DEF Counted
  <1>9. backend # "other" => generated \in Nat /\ Counted \in Nat BY Numbers
  <1> QED BY <1>1, <1>4, <1>5, <1>6, <1>7, <1>8, <1>9, AroundKeeps

LEMMA ClockKeeps ==
    ASSUME SpeedInv, ClockMoves PROVE SpeedInv'
  <1>1. /\ sample # <<>> /\ sample' = <<[sample[1] EXCEPT !.older = TRUE]>>
        /\ UNCHANGED <<stage, listed, scrape, swapVars, reported, served, crossed, upDuring>>
    BY DEF ClockMoves
  <1>2. Shape /\ Woken /\ UNCHANGED <<backend, up, total, inflight, generated>>
    BY <1>1 DEF SpeedInv, swapVars
  <1> DEFINE x == sample[1]
             y == [x EXCEPT !.older = TRUE]
  <1>3. x \in Readings /\ sample' = <<y>> BY <1>1, <1>2 DEF Shape
  <1>4. y \in Readings /\ y.total = x.total /\ y.gen = x.gen /\ y.current = x.current
    BY <1>3 DEF Readings
  <1> HIDE DEF y
  <1>5. sample' # <<>> /\ sample'[1] = y BY <1>3
  <1>6. Stored' = Stored /\ StoredTot' = StoredTot /\ StoredGen' = StoredGen
        /\ StoredNow' = StoredNow
    BY <1>1, <1>4, <1>5 DEF Stored, StoredTot, StoredGen, StoredNow
  <1>7. Shape' BY <1>1, <1>2, <1>3, <1>4, <1>5 DEF Shape
  <1>8. Woken' BY <1>1, <1>2 DEF Woken
  <1>9. Counted' = Counted BY <1>2 DEF Counted
  <1>10. backend # "other" => generated \in Nat /\ Counted \in Nat BY Numbers
  <1> QED BY <1>1, <1>2, <1>6, <1>7, <1>8, <1>9, <1>10, AroundKeeps

-----------------------------------------------------------------------------
(* A scrape is served. *)

\* The order of the scrapes, with one more at its end.
LEMMA ScrapeQueued ==
    ASSUME SpeedInv, NEW p \in Polls, stage[p] = "scrape", Goes(p, "scraped"),
           served' = Append(served, p)
    PROVE  /\ Queued'
           /\ \A q, r \in Polls : Before(q, r)' =>
                 q # p /\ Scraped(q) /\ (r # p => Scraped(r) /\ Before(q, r))
  <1>1. /\ served \in Seq(Polls) /\ IsInjective(served) /\ stage \in [Polls -> Stages]
        /\ ToSet(served) = {q \in Polls : stage[q] = "scraped"}
    BY DEF SpeedInv, Queued, Shape
  <1> DEFINE n == Len(served)
  <1>2. n \in Nat /\ DOMAIN served = 1 .. n BY <1>1
  <1>3. /\ served' \in Seq(Polls) /\ DOMAIN served' = 1 .. n + 1 /\ served'[n + 1] = p
        /\ \A i \in 1 .. n : served'[i] = served[i]
    BY <1>1
  <1>4. \A i \in 1 .. n : Scraped(served[i]) /\ served[i] # p
    BY <1>1, <1>2 DEF ToSet, Scraped
  <1> HIDE DEF n
  <1>5. IsInjective(served')
    BY <1>1, <1>2, <1>3, <1>4 DEF IsInjective
  <1>6. \A q \in Polls : stage'[q] = IF q = p THEN "scraped" ELSE stage[q]
    BY <1>1 DEF Goes
  <1>7. ToSet(served') = ToSet(served) \cup {p} BY <1>2, <1>3 DEF ToSet
  <1>8. ToSet(served') = {q \in Polls : stage'[q] = "scraped"} BY <1>1, <1>6, <1>7
  <1>9. ASSUME NEW q \in Polls, NEW r \in Polls, Before(q, r)'
        PROVE  q # p /\ Scraped(q) /\ (r # p => Scraped(r) /\ Before(q, r))
    <2>1. PICK i \in 1 .. n + 1, j \in 1 .. n + 1 :
             i < j /\ served'[i] = q /\ served'[j] = r
      BY <1>3, <1>9 DEF Before
    <2>2. i \in 1 .. n /\ served[i] = q BY <1>2, <1>3, <2>1
    <2>3. r # p => j \in 1 .. n /\ served[j] = r BY <1>2, <1>3, <2>1
    <2> QED BY <1>2, <1>4, <2>1, <2>2, <2>3 DEF Before
  <1> QED BY <1>3, <1>5, <1>8, <1>9 DEF Queued

LEMMA ServeScrapeKeeps ==
    ASSUME SpeedInv, NEW p \in Polls, ServeScrape(p) PROVE SpeedInv'
  <1>1. /\ stage[p] = "scrape" /\ Goes(p, "scraped") /\ served' = Append(served, p)
        /\ scrape' = [q \in Polls |->
                        IF q = p THEN [text |-> Metrics(total, inflight),
                                       gen |-> generated, current |-> TRUE]
                        ELSE IF up THEN scrape[q] ELSE Outdated(q)]
        /\ UNCHANGED <<listed, backend, total, inflight, generated, reported, crossed>>
    BY DEF ServeScrape
  <1>2. \/ /\ up /\ upDuring' = [upDuring EXCEPT ![p] = FALSE] /\ UNCHANGED <<up, sample>>
        \/ /\ ~up /\ up' = TRUE
           /\ upDuring' = [q \in Polls |-> stage[q] \notin {"idle", "scraped"}]
           /\ sample' = [i \in DOMAIN sample |-> [sample[i] EXCEPT !.current = FALSE]]
    BY DEF ServeScrape, Starts
  <1>3. Shape /\ Woken /\ Readable /\ (backend # "other" => Ordered /\ SameRun) BY DEF SpeedInv
  <1>4. /\ stage' \in [Polls -> Stages]
        /\ \A q \in Polls : stage'[q] = IF q = p THEN "scraped" ELSE stage[q]
    BY <1>1, <1>3 DEF Shape, Goes, Stages
  <1>5. scrape'[p] = [text |-> Metrics(total, inflight), gen |-> generated, current |-> TRUE]
    BY <1>1
  <1>6. \A q \in Polls : q # p =>
           /\ scrape'[q].text = scrape[q].text /\ scrape'[q].gen = scrape[q].gen
           /\ scrape'[q].current => scrape[q].current
           /\ Scraped(q) /\ ~up => ~scrape'[q].current
           /\ stage[q] # "scraped" => scrape'[q] = scrape[q]
           /\ scrape'[q] = [text |-> scrape'[q].text, gen |-> scrape'[q].gen,
                            current |-> scrape'[q].current]
           /\ scrape'[q].gen \in 0 .. generated /\ scrape'[q].current \in BOOLEAN
    <2>1. CASE up BY <1>1, <1>3, <2>1 DEF Shape
    <2>2. CASE ~up
      <3>1. \A q \in Polls : q # p => scrape'[q] = Outdated(q) BY <1>1, <2>2
      <3> QED BY <3>1, OutdatedScrape DEF Scraped
    <2> QED BY <2>1, <2>2
  <1>7. /\ sample' = <<>> \/ (sample' = <<sample'[1]>> /\ sample'[1] \in Readings)
        /\ Stored' = Stored
        /\ Stored => /\ StoredTot' = StoredTot /\ StoredGen' = StoredGen
                     /\ (StoredNow' => StoredNow) /\ (~up => ~StoredNow')
    <2>1. CASE up
      <3>1. sample' = sample BY <1>2, <2>1
      <3> QED BY <1>3, <2>1, <3>1 DEF Shape, Stored, StoredTot, StoredGen, StoredNow
    <2>2. CASE ~up BY <1>2, <2>2, OutdatedSample
    <2> QED BY <2>1, <2>2
  <1>8. /\ Queued'
        /\ \A q, r \in Polls : Before(q, r)' =>
              q # p /\ Scraped(q) /\ (r # p => Scraped(r) /\ Before(q, r))
    BY <1>1, ScrapeQueued
  <1>9. upDuring' \in [Polls -> BOOLEAN] /\ up' = TRUE BY <1>2, <1>3 DEF Shape
  <1>10. Shape'
    <2>1. ASSUME NEW q \in Polls
          PROVE  /\ scrape'[q] = [text |-> scrape'[q].text, gen |-> scrape'[q].gen,
                                  current |-> scrape'[q].current]
                 /\ scrape'[q].gen \in 0 .. generated /\ scrape'[q].current \in BOOLEAN
                 /\ stage'[q] # "scraped" => scrape'[q] = NoScrape
      <3>1. CASE q = p
        <4> DEFINE m == Metrics(total, inflight)
                   x == scrape'[p]
        <4>1. generated \in 0 .. generated BY <1>3 DEF Shape
        <4>2. x = [text |-> m, gen |-> generated, current |-> TRUE] BY <1>5
        <4> HIDE DEF m, x
        <4>3. /\ x = [text |-> x.text, gen |-> x.gen, current |-> x.current]
              /\ x.gen \in 0 .. generated /\ x.current \in BOOLEAN
          BY <4>1, <4>2
        <4>4. stage'[p] = "scraped" BY <1>4
        <4> QED BY <3>1, <4>3, <4>4 DEF x
      <3>2. CASE q # p BY <1>3, <1>4, <1>6, <3>2 DEF Shape
      <3> QED BY <3>1, <3>2
    <2>2. scrape' = [q \in Polls |-> scrape'[q]] BY <1>1
    <2> QED BY <1>1, <1>3, <1>4, <1>7, <1>9, <2>1, <2>2 DEF Shape
  <1>11. Woken'
    <2>1. ~listed[p] BY <1>1, <1>3 DEF Woken
    <2>2. \A q \in Polls : q # p /\ stage[q] \in {"running", "listed", "scrape"} =>
             (up => upDuring[q]) /\ (up \/ upDuring[q] => upDuring'[q])
                 /\ (~up => upDuring'[q])
      BY <1>2, <1>3 DEF Woken, Shape
    <2> QED BY <1>1, <1>3, <1>4, <2>1, <2>2 DEF Woken
  <1>12. Counted' = Counted BY <1>1 DEF Counted
  <1>13. \A q \in Polls : q # p /\ Scraped(q)' =>
            /\ Scraped(q) /\ Tot(q)' = Tot(q) /\ Gen(q)' = Gen(q) /\ Reads(q)' = Reads(q)
            /\ Now(q)' => Now(q) /\ up
    BY <1>4, <1>6 DEF Scraped, Tot, Gen, Reads, Now
  <1>14. CASE backend = "other"
    <2>1. Metrics(total, inflight) = <<>> BY <1>14 DEF Metrics
    <2>2. \A q \in Polls : scrape'[q].text = <<>>
      <3>1. scrape'[p].text = <<>> BY <1>5, <2>1
      <3> QED BY <1>3, <1>6, <1>14, <3>1 DEF Readable
    <2>3. Readable' BY <1>1, <1>3, <1>7, <1>14, <2>2 DEF Readable
    <2> QED BY <1>1, <1>8, <1>10, <1>11, <1>14, <2>3 DEF SpeedInv
  <1>15. CASE backend # "other"
    <2>1. /\ generated \in Nat /\ Counted \in Nat /\ \A q \in Polls : Gen(q) \in Nat
          /\ \A q \in Polls : Scraped(q) => Tot(q) \in Nat
          /\ Stored => StoredTot \in Nat /\ StoredGen \in Nat
      BY <1>15, Numbers
    <2>2. Reads(p)' /\ Tot(p)' = Counted /\ Gen(p)' = generated /\ Now(p)' /\ Scraped(p)'
      <3> DEFINE text == Metrics(total, inflight)
      <3>1. backend \in Kinds /\ total \in [BOOLEAN -> Nat] /\ inflight \in {0, 1}
        BY <1>3 DEF Shape
      <3>2. DecodeMetrics(text) # <<>> /\ Total(text) = total[FALSE] + total[TRUE]
        BY <1>15, <3>1, MetricsRead
      <3> HIDE DEF text
      <3>3. scrape'[p].text = text /\ scrape'[p].gen = generated /\ scrape'[p].current
        BY <1>5 DEF text
      <3> QED BY <1>4, <3>2, <3>3 DEF Reads, Tot, Gen, Now, Scraped, Counted
    <2>3. Readable'
      <3>1. ASSUME NEW q \in Polls, Scraped(q)' PROVE Reads(q)' /\ Tot(q)' \in Nat
        <4>1. CASE q = p BY <2>1, <2>2, <4>1
        <4>2. CASE q # p BY <1>3, <1>13, <1>15, <3>1, <4>2 DEF Readable
        <4> QED BY <4>1, <4>2
      <3>2. backend' # "other" BY <1>1, <1>15
      <3> QED BY <3>1, <3>2 DEF Readable
    <2>4. Ordered /\ SameRun BY <1>3, <1>15
    <2>5. \A q \in Polls : Scraped(q)' => Grows(Tot(q)', Gen(q)', Counted', generated')
      BY <1>1, <1>12, <1>13, <2>1, <2>2, <2>4 DEF Ordered, Grows
    <2>6. \A q, r \in Polls : Before(q, r)' => Grows(Tot(q)', Gen(q)', Tot(r)', Gen(r)')
      <3> SUFFICES ASSUME NEW q \in Polls, NEW r \in Polls, Before(q, r)'
                   PROVE  Grows(Tot(q)', Gen(q)', Tot(r)', Gen(r)')
        OBVIOUS
      <3>1. q # p /\ Scraped(q) /\ Scraped(q)' BY <1>4, <1>8 DEF Scraped
      <3>2. Tot(q)' = Tot(q) /\ Gen(q)' = Gen(q) BY <1>13, <3>1
      <3>3. CASE r = p BY <1>1, <1>12, <2>2, <2>5, <3>1, <3>3
      <3>4. CASE r # p
        <4>1. Scraped(r) /\ Scraped(r)' /\ Before(q, r) BY <1>4, <1>8, <3>4 DEF Scraped
        <4>2. Tot(r)' = Tot(r) /\ Gen(r)' = Gen(r) BY <1>13, <3>4, <4>1
        <4> QED BY <2>4, <3>2, <4>1, <4>2 DEF Ordered
      <3> QED BY <3>3, <3>4
    <2>7. Stored' => /\ Grows(StoredTot', StoredGen', Counted', generated')
                     /\ ~crossed' => \A q \in Polls : Scraped(q)' =>
                           Grows(StoredTot', StoredGen', Tot(q)', Gen(q)')
      BY <1>1, <1>7, <1>12, <1>13, <2>2, <2>4 DEF Ordered
    <2>8. ~crossed' => reported' <= IF Stored' THEN StoredGen' ELSE 0
      BY <1>1, <1>7, <2>4 DEF Ordered
    <2>9. Ordered' BY <2>5, <2>6, <2>7, <2>8 DEF Ordered
    <2>10. SameRun'
      <3>1. \A q \in Polls : Scraped(q)' /\ Now(q)' => Tot(q)' - Gen(q)' = Counted - generated
        BY <1>13, <2>2, <2>4 DEF SameRun
      <3>2. Stored' /\ StoredNow' => StoredTot' - StoredGen' = Counted - generated
        BY <1>7, <2>4 DEF SameRun
      <3> QED BY <1>1, <1>12, <3>1, <3>2 DEF SameRun
    <2> QED BY <1>1, <1>8, <1>10, <1>11, <1>15, <2>3, <2>9, <2>10 DEF SpeedInv
  <1> QED BY <1>14, <1>15

-----------------------------------------------------------------------------
(* A scrape arrives. *)

LEMMA FailsKeeps ==
    ASSUME SpeedInv, NEW p \in Polls, RunningFails(p) \/ ScrapeFails(p) PROVE SpeedInv'
  <1>1. End(p) /\ UNCHANGED <<sample, swapVars, reported, crossed>>
    BY DEF RunningFails, ScrapeFails
  <1>2. crossed \in BOOLEAN BY DEF SpeedInv, Shape
  <1> QED BY <1>1, <1>2, EndKeeps

\* The first scrape of the order was served before every other.
LEMMA FirstServed ==
    ASSUME SpeedInv, NEW p \in Polls, Scraped(p), Head(served) = p,
           NEW q \in Polls, Scraped(q), q # p
    PROVE  Before(p, q)
  <1>1. served \in Seq(Polls) /\ p \in ToSet(served) /\ q \in ToSet(served)
    BY DEF SpeedInv, Queued, Scraped
  <1>2. PICK j \in DOMAIN served : served[j] = q BY <1>1 DEF ToSet
  <1>3. Len(served) \in Nat /\ DOMAIN served = 1 .. Len(served) BY <1>1
  <1>4. 1 \in DOMAIN served /\ served[1] = p BY <1>1, <1>2, <1>3
  <1>5. 1 < j BY <1>2, <1>3, <1>4
  <1> QED BY <1>2, <1>4, <1>5 DEF Before

LEMMA AnswerKeeps ==
    ASSUME SpeedInv, NEW p \in Polls, AnswerScrape(p) PROVE SpeedInv'
  <1>1. /\ Scraped(p) /\ crossed' = (crossed \/ Head(served) # p) /\ crossed \in BOOLEAN
        /\ UNCHANGED swapVars
    BY DEF AnswerScrape, Scraped, SpeedInv, Shape
  <1>2. CASE ~Reads(p)
    <2>1. End(p) /\ UNCHANGED <<sample, reported>> BY <1>2 DEF AnswerScrape, Reads
    <2> QED BY <1>1, <2>1, EndKeeps
  <1>3. CASE Reads(p)
    <2> DEFINE reading == Head(DecodeMetrics(scrape[p].text))
    <2>1. /\ Store(reading, p) /\ End(p)
          /\ reported' = IF crossed' THEN 0
                         ELSE IF SpeedSource(reading) = "counter"
                         THEN reported + SpeedTokens(reading)
                         ELSE reported
      BY <1>3 DEF AnswerScrape, Reads
    <2>2. backend # "other" /\ Ordered /\ SameRun
      <3>1. backend = "other" => scrape[p].text = <<>> BY DEF SpeedInv, Readable
      <3>2. backend # "other" BY <1>3, <3>1, NothingRead DEF Reads
      <3> QED BY <3>2 DEF SpeedInv
    <2>3. /\ generated \in Nat /\ reported \in Nat /\ Counted \in Nat
          /\ \A q \in Polls : Gen(q) \in Nat /\ (Scraped(q) => Tot(q) \in Nat)
          /\ Stored => StoredTot \in Nat /\ StoredGen \in Nat
      BY <2>2, Numbers
    <2>4. reading.total = Tot(p) BY DEF Tot, Total
    <2>5. Tot(p) \in Nat /\ Gen(p) \in Nat BY <1>1, <2>3
    <2>6. Shape /\ Woken /\ Readable /\ UNCHANGED <<backend, up, total, inflight, generated>>
      BY <1>1 DEF SpeedInv, swapVars
    <2> HIDE DEF reading
    <2>7. /\ Stored' /\ StoredTot' = Tot(p) /\ StoredGen' = Gen(p) /\ StoredNow' = Now(p)
          /\ sample' = <<sample'[1]>> /\ sample'[1] \in Readings
      <3> DEFINE y == [total |-> Tot(p), older |-> FALSE, gen |-> Gen(p), current |-> Now(p)]
      <3>1. sample' = <<y>> BY <2>1, <2>4 DEF Store, Gen, Now
      <3>2. Now(p) \in BOOLEAN BY <2>6 DEF Shape, Now
      <3>3. y \in Readings /\ y.total = Tot(p) /\ y.gen = Gen(p) /\ y.current = Now(p)
        BY <2>5, <3>2 DEF Readings
      <3> HIDE DEF y
      <3>4. sample' # <<>> /\ sample'[1] = y BY <3>1
      <3> QED BY <3>1, <3>3, <3>4 DEF Stored, StoredTot, StoredGen, StoredNow
    <2>8. /\ Queued' /\ stage' \in [Polls -> Stages]
          /\ listed' \in [Polls -> BOOLEAN] /\ upDuring' \in [Polls -> BOOLEAN]
          /\ scrape' = [q \in Polls |-> scrape'[q]] /\ scrape'[p] = NoScrape
          /\ stage'[p] = "idle" /\ ~listed'[p]
          /\ \A q \in Polls : q # p =>
                /\ stage'[q] = stage[q] /\ scrape'[q] = scrape[q]
                /\ listed'[q] = listed[q] /\ upDuring'[q] = upDuring[q]
          /\ \A q \in Polls : Scraped(q)' => Scraped(q) /\ q # p
          /\ \A q, r \in Polls :
                Before(q, r)' => Scraped(q)' /\ Scraped(r)' /\ Before(q, r)
      BY <2>1, PollEnds
    <2>9. \A q \in Polls : Scraped(q)' =>
             /\ Scraped(q) /\ q # p /\ Tot(q)' = Tot(q) /\ Gen(q)' = Gen(q)
             /\ Now(q)' = Now(q) /\ Reads(q)' = Reads(q)
      BY <2>8 DEF Tot, Gen, Now, Reads
    <2>10. Counted' = Counted BY <2>6 DEF Counted
    <2>11. ~crossed' => ~crossed /\ \A q \in Polls : Scraped(q) /\ q # p => Before(p, q)
      BY <1>1, FirstServed
    <2>12. SpeedTokens(reading) = IF Stored /\ sample[1].older /\ Tot(p) > StoredTot
                                  THEN Tot(p) - StoredTot ELSE 0
      BY <2>4 DEF SpeedTokens, Stored, StoredTot
    <2>13. SpeedTokens(reading) \in Nat BY <2>3, <2>5, <2>12
    <2>14. reported' \in Nat
      BY <2>1, <2>3, <2>13
    <2>15. ~crossed' => reported' <= Gen(p)
      <3> SUFFICES ASSUME ~crossed' PROVE reported' <= Gen(p) OBVIOUS
      <3>1. ~crossed BY <2>11
      <3>2. reported' <= reported + SpeedTokens(reading) BY <2>1, <2>3, <2>13
      <3>3. CASE ~Stored
        <4>1. reported <= 0 /\ SpeedTokens(reading) = 0 BY <2>2, <2>12, <3>1, <3>3 DEF Ordered
        <4> QED BY <2>3, <2>5, <2>14, <3>2, <4>1
      <3>4. CASE Stored
        <4>1. reported <= StoredGen BY <2>2, <3>1, <3>4 DEF Ordered
        <4>2. StoredGen <= Gen(p) /\ Tot(p) - StoredTot <= Gen(p) - StoredGen
          BY <1>1, <2>2, <3>1, <3>4 DEF Ordered, Grows
        <4>3. StoredTot \in Nat /\ StoredGen \in Nat BY <2>3, <3>4
        <4>4. SpeedTokens(reading) <= Gen(p) - StoredGen BY <2>5, <2>12, <4>2, <4>3
        <4> QED BY <2>3, <2>5, <2>13, <2>14, <3>2, <4>1, <4>3, <4>4
      <3> QED BY <3>3, <3>4
    <2>16. Shape'
      <3>1. ASSUME NEW q \in Polls
            PROVE  /\ scrape'[q] = [text |-> scrape'[q].text, gen |-> scrape'[q].gen,
                                    current |-> scrape'[q].current]
                   /\ scrape'[q].gen \in 0 .. generated /\ scrape'[q].current \in BOOLEAN
                   /\ stage'[q] # "scraped" => scrape'[q] = NoScrape
        <4>1. CASE q = p BY <2>3, <2>8, <4>1, NotScraped
        <4>2. CASE q # p BY <2>6, <2>8, <4>2 DEF Shape
        <4> QED BY <4>1, <4>2
      <3>2. crossed' \in BOOLEAN BY <1>1
      <3> QED BY <2>6, <2>7, <2>8, <2>14, <3>1, <3>2 DEF Shape
    <2>17. Woken' BY <2>6, <2>8 DEF Woken
    <2>18. Readable' BY <2>2, <2>6, <2>9 DEF Readable
    <2>19. Ordered'
      <3>1. \A q \in Polls : Scraped(q)' => Grows(Tot(q)', Gen(q)', Counted', generated')
        BY <2>2, <2>6, <2>9, <2>10 DEF Ordered
      <3>2. \A q, r \in Polls : Before(q, r)' => Grows(Tot(q)', Gen(q)', Tot(r)', Gen(r)')
        BY <2>2, <2>8, <2>9 DEF Ordered
      <3>3. Grows(StoredTot', StoredGen', Counted', generated')
        BY <1>1, <2>2, <2>6, <2>7, <2>10 DEF Ordered
      <3>4. ~crossed' => \A q \in Polls : Scraped(q)' =>
               Grows(StoredTot', StoredGen', Tot(q)', Gen(q)')
        BY <2>2, <2>7, <2>9, <2>11 DEF Ordered
      <3> QED BY <2>7, <2>15, <3>1, <3>2, <3>3, <3>4 DEF Ordered
    <2>20. SameRun' BY <1>1, <2>2, <2>6, <2>7, <2>9, <2>10 DEF SameRun
    <2> QED BY <2>2, <2>6, <2>8, <2>16, <2>17, <2>18, <2>19, <2>20 DEF SpeedInv
  <1> QED BY <1>2, <1>3

-----------------------------------------------------------------------------
(* The invariant of the specification, and the properties. *)

LEMMA InitSpeed == SpeedInit => SpeedInv
  <1> SUFFICES ASSUME SpeedInit PROVE SpeedInv
    OBVIOUS
  <1>1. /\ stage = [p \in Polls |-> "idle"] /\ listed = [p \in Polls |-> FALSE]
        /\ scrape = [p \in Polls |-> NoScrape] /\ sample = <<>> /\ served = <<>>
        /\ backend \in Kinds /\ up \in BOOLEAN /\ inflight = 0
        /\ total = [streaming \in BOOLEAN |-> 0] /\ generated = 0 /\ reported = 0
        /\ crossed = FALSE /\ upDuring = [p \in Polls |-> FALSE]
    BY SpeedConstants DEF SpeedInit
  <1>2. \A p \in Polls : ~Scraped(p) BY <1>1 DEF Scraped
  <1>3. ~Stored BY <1>1 DEF Stored
  <1>4. \A p \in Polls : scrape[p] = NoScrape BY <1>1
  <1>5. generated \in Nat BY <1>1
  <1>6. Shape
    <2>1. \A p \in Polls : /\ scrape[p] = [text |-> scrape[p].text, gen |-> scrape[p].gen,
                                           current |-> scrape[p].current]
                           /\ scrape[p].gen \in 0 .. generated /\ scrape[p].current \in BOOLEAN
      BY <1>4, <1>5, NotScraped
    <2>2. scrape = [p \in Polls |-> scrape[p]] BY <1>1
    <2>3. total \in [BOOLEAN -> Nat] /\ \A b \in BOOLEAN : total[b] <= generated BY <1>1
    <2>4. /\ stage \in [Polls -> Stages] /\ listed \in [Polls -> BOOLEAN]
          /\ upDuring \in [Polls -> BOOLEAN]
      BY <1>1 DEF Stages
    <2> QED BY <1>1, <1>4, <2>1, <2>2, <2>3, <2>4 DEF Shape
  <1>7. Queued BY <1>1 DEF Queued, IsInjective, ToSet
  <1>8. Woken BY <1>1 DEF Woken
  <1>9. Readable BY <1>1, <1>2, <1>3, <1>4, <1>5, NotScraped DEF Readable
  <1>10. Ordered BY <1>1, <1>2, <1>3 DEF Ordered, Before
  <1>11. SameRun BY <1>2, <1>3 DEF SameRun
  <1> QED BY <1>6, <1>7, <1>8, <1>9, <1>10, <1>11 DEF SpeedInv

LEMMA NextSpeed == SpeedInv /\ [SpeedNext]_speedVars => SpeedInv'
  <1> SUFFICES ASSUME SpeedInv, [SpeedNext]_speedVars PROVE SpeedInv'
    OBVIOUS
  <1>1. ASSUME NEW p \in Polls,
               \/ Start(p) \/ ServeRunning(p) \/ ReadRunning(p) \/ RunningFails(p)
               \/ ServeScrape(p) \/ AnswerScrape(p) \/ ScrapeFails(p)
        PROVE  SpeedInv'
    BY <1>1, StartKeeps, ServeRunningKeeps, ReadRunningKeeps, FailsKeeps, ServeScrapeKeeps,
       AnswerKeeps
  <1>2. CASE Generate \/ ChatBeginsOrEnds \/ Unload \/ Load \/ ClockMoves
    BY <1>2, GenerateKeeps, ChatKeeps, UnloadKeeps, LoadKeeps, ClockKeeps
  <1>3. CASE UNCHANGED speedVars
    <2>1. UNCHANGED <<stage, listed, scrape, sample, backend, up, total, inflight, generated,
                      reported, served, crossed, upDuring>>
      BY <1>3 DEF speedVars, swapVars
    <2>2. Shape' BY <2>1 DEF SpeedInv, Shape
    <2>3. Woken' BY <2>1 DEF SpeedInv, Woken
    <2>4. /\ Stored' = Stored /\ StoredTot' = StoredTot /\ StoredGen' = StoredGen
          /\ StoredNow' = StoredNow /\ Counted' = Counted
      BY <2>1 DEF Stored, StoredTot, StoredGen, StoredNow, Counted
    <2>5. generated \in Nat BY DEF SpeedInv, Shape
    <2>6. backend # "other" => generated \in Nat /\ Counted \in Nat BY Numbers
    <2> QED BY <2>1, <2>2, <2>3, <2>4, <2>5, <2>6, AroundKeeps
  <1> QED BY <1>1, <1>2, <1>3 DEF SpeedNext

LEMMA SpeedInvariant == SpeedSpec => []SpeedInv
  BY InitSpeed, NextSpeed, PTL DEF SpeedSpec

-----------------------------------------------------------------------------
(* What the numbers are bounded by. *)

Texts == Seq([name : SeriesNames, value : Nat])
Bounded ==
    /\ backend \in Backends /\ generated <= MaxTokens /\ Counted <= generated
    /\ inflight = 1 => up
    /\ \A p \in Polls : /\ scrape[p].text \in Texts
                        /\ Scraped(p) /\ Reads(p) => Tot(p) <= Gen(p)
    /\ Stored => StoredTot <= StoredGen /\ StoredGen <= generated

\* A text has the counters and gauges of its backend.
LEMMA MetricsText ==
    ASSUME backend \in Kinds, NEW counts \in [BOOLEAN -> Nat], NEW running \in {0, 1}
    PROVE  Metrics(counts, running) \in Texts
  <1> DEFINE n == counts[FALSE]
             m == counts[TRUE]
             R == [name : SeriesNames, value : Nat]
             c == Series("sglang:generation_tokens_total", n)
             d == Series("sglang:generation_tokens_total", m)
             r == Series("sglang:num_running_reqs", running)
             g == Series("sglang:gen_throughput", running)
             v == Series("vllm:generation_tokens_total", n + m)
             w == Series("vllm:num_requests_running", running)
  <1>1. n \in Nat /\ m \in Nat OBVIOUS
  <1>2. n + m \in Nat
    <2> HIDE DEF n, m
    <2> QED BY <1>1
  <1>3. {c, d, r, g, v, w} \subseteq R
    <2> DEFINE k == n + m
    <2> HIDE DEF n, m, k
    <2>1. n \in Nat /\ m \in Nat /\ k \in Nat /\ running \in Nat BY <1>1, <1>2 DEF k
    <2>2. c \in R /\ d \in R BY <2>1 DEF Series, SeriesNames
    <2>3. r \in R /\ g \in R /\ w \in R BY <2>1 DEF Series, SeriesNames
    <2>4. v \in R
      <3>1. v = Series("vllm:generation_tokens_total", k) BY DEF k
      <3> HIDE DEF v
      <3> QED BY <2>1, <3>1 DEF Series, SeriesNames
    <2> HIDE DEF R, c, d, r, g, v, w
    <2> QED BY <2>2, <2>3, <2>4
  <1>4. /\ backend = "vllm" => Metrics(counts, running) = <<v, w>>
        /\ backend = "sglang" => Metrics(counts, running) = <<c, d, r, r>> \o <<>>
        /\ backend = "gauged" => Metrics(counts, running) = <<c, d, r, r>> \o <<g, g>>
        /\ backend = "other" => Metrics(counts, running) = <<>>
    BY DEF Metrics
  <1> HIDE DEF R, c, d, r, g, v, w
  <1>5. /\ <<v, w>> \in Seq(R) /\ <<>> \in Seq(R) /\ <<c, d, r, r>> \in Seq(R)
        /\ <<g, g>> \in Seq(R)
    BY <1>3
  <1>6. <<c, d, r, r>> \o <<>> \in Seq(R) /\ <<c, d, r, r>> \o <<g, g>> \in Seq(R)
    BY <1>5
  <1>7. Metrics(counts, running) \in Seq(R) BY <1>4, <1>5, <1>6 DEF Kinds
  <1> QED BY <1>7 DEF R, Texts

\* A step that serves no scrape and stores no sample.
LEMMA BoundsKept ==
    ASSUME SpeedInv, Bounded, UNCHANGED backend, generated \in Nat, generated' \in Nat,
           generated <= generated', generated' <= MaxTokens, Counted' <= generated',
           inflight' = 1 => up',
           \A q \in Polls : scrape'[q].text \in {scrape[q].text, <<>>},
           \A q \in Polls : Scraped(q)' =>
              Scraped(q) /\ scrape'[q].text = scrape[q].text /\ scrape'[q].gen = scrape[q].gen,
           Stored' => Stored /\ StoredTot' = StoredTot /\ StoredGen' = StoredGen
    PROVE  Bounded'
  <1>1. \A q \in Polls : scrape'[q].text \in Texts
    <2>1. <<>> \in Texts BY DEF Texts
    <2> QED BY <2>1 DEF Bounded
  <1>2. \A q \in Polls : Scraped(q)' =>
           Scraped(q) /\ Tot(q)' = Tot(q) /\ Gen(q)' = Gen(q) /\ Reads(q)' = Reads(q)
    BY DEF Tot, Gen, Reads
  <1>3. \A q \in Polls : Scraped(q)' /\ Reads(q)' => Tot(q)' <= Gen(q)'
    BY <1>2 DEF Bounded
  <1>4. Stored' => StoredTot' <= StoredGen' /\ StoredGen' <= generated'
    <2> SUFFICES ASSUME Stored' PROVE StoredTot' <= StoredGen' /\ StoredGen' <= generated'
      OBVIOUS
    <2>1. Stored /\ StoredTot <= StoredGen /\ StoredGen <= generated BY DEF Bounded
    <2>2. StoredGen \in Nat
      BY <2>1 DEF SpeedInv, Shape, Stored, StoredGen, Readings
    <2> QED BY <2>1, <2>2
  <1> QED BY <1>1, <1>3, <1>4 DEF Bounded

LEMMA EndBounds ==
    ASSUME SpeedInv, Bounded, NEW p \in Polls, End(p), UNCHANGED <<sample, swapVars>>
    PROVE  Bounded'
  <1>1. UNCHANGED <<backend, up, total, inflight, generated>> BY DEF swapVars
  <1>2. \A q \in Polls : IF q = p THEN scrape'[q] = NoScrape ELSE scrape'[q] = scrape[q]
    BY PollEnds
  <1>3. \A q \in Polls : Scraped(q)' => Scraped(q) /\ q # p BY PollEnds
  <1>4. NoScrape.text = <<>> BY DEF NoScrape
  <1>5. generated \in Nat BY DEF SpeedInv, Shape
  <1>6. /\ Stored' = Stored /\ StoredTot' = StoredTot /\ StoredGen' = StoredGen
        /\ Counted' = Counted
    BY <1>1 DEF Stored, StoredTot, StoredGen, Counted
  <1>7. generated <= MaxTokens /\ Counted <= generated /\ (inflight = 1 => up)
    BY DEF Bounded
  <1>8. \A q \in Polls : scrape'[q].text \in {scrape[q].text, <<>>} BY <1>2, <1>4
  <1>9. \A q \in Polls : Scraped(q)' =>
           Scraped(q) /\ scrape'[q].text = scrape[q].text /\ scrape'[q].gen = scrape[q].gen
    BY <1>2, <1>3
  <1> QED BY <1>1, <1>5, <1>6, <1>7, <1>8, <1>9, BoundsKept

LEMMA MoveBounds ==
    ASSUME SpeedInv, Bounded, NEW p \in Polls,
           \/ Start(p) \/ ServeRunning(p)
           \/ ReadRunning(p) /\ listed[p]
    PROVE  Bounded'
  <1>1. UNCHANGED <<scrape, sample, swapVars>> /\ \E to \in Stages \ {"scraped"} : Goes(p, to)
    BY DEF Start, ServeRunning, ReadRunning, Stages
  <1>2. UNCHANGED <<backend, up, total, inflight, generated>> BY <1>1 DEF swapVars
  <1>3. \A q \in Polls : Scraped(q)' => Scraped(q)
    BY <1>1 DEF Goes, Scraped, SpeedInv, Shape
  <1>4. generated \in Nat BY DEF SpeedInv, Shape
  <1>5. /\ Stored' = Stored /\ StoredTot' = StoredTot /\ StoredGen' = StoredGen
        /\ Counted' = Counted
    BY <1>1, <1>2 DEF Stored, StoredTot, StoredGen, Counted
  <1>6. generated <= MaxTokens /\ Counted <= generated /\ (inflight = 1 => up)
    BY DEF Bounded
  <1> QED BY <1>1, <1>2, <1>3, <1>4, <1>5, <1>6, BoundsKept

\* The backend works, stops and starts.
LEMMA BackendBounds ==
    ASSUME SpeedInv, Bounded,
           Generate \/ ChatBeginsOrEnds \/ Unload \/ Load \/ ClockMoves \/ UNCHANGED speedVars
    PROVE  Bounded'
  <1>1. /\ generated \in Nat /\ total \in [BOOLEAN -> Nat] /\ inflight \in {0, 1}
        /\ generated <= MaxTokens /\ Counted <= generated /\ (inflight = 1 => up)
    BY DEF SpeedInv, Shape, Bounded
  <1>2. UNCHANGED <<stage, backend>>
    BY DEF Generate, ChatBeginsOrEnds, Unload, Load, ClockMoves, speedVars, swapVars
  <1>3. \A q \in Polls : scrape'[q].text = scrape[q].text /\ scrape'[q].gen = scrape[q].gen
    <2>1. CASE Load
      <3>1. \A q \in Polls : scrape'[q] = Outdated(q) BY <2>1 DEF Load
      <3> QED BY <3>1, OutdatedScrape
    <2>2. CASE UNCHANGED scrape BY <2>2
    <2>3. Load \/ UNCHANGED scrape
      BY DEF Generate, ChatBeginsOrEnds, Unload, ClockMoves, speedVars
    <2> QED BY <2>1, <2>2, <2>3
  <1>4. Stored' => Stored /\ StoredTot' = StoredTot /\ StoredGen' = StoredGen
    <2>1. CASE Load BY <2>1, OutdatedSample DEF Load, Starts
    <2>2. CASE ClockMoves
      <3> DEFINE x == sample[1]
                 y == [x EXCEPT !.older = TRUE]
      <3>1. sample # <<>> /\ sample' = <<y>> BY <2>2 DEF ClockMoves
      <3>2. x \in Readings BY <3>1 DEF SpeedInv, Shape
      <3>3. y.total = x.total /\ y.gen = x.gen BY <3>2 DEF Readings
      <3> HIDE DEF y
      <3>4. sample'[1] = y BY <3>1
      <3> QED BY <3>1, <3>3, <3>4 DEF Stored, StoredTot, StoredGen
    <2>3. CASE UNCHANGED sample BY <2>3 DEF Stored, StoredTot, StoredGen
    <2>4. Load \/ ClockMoves \/ UNCHANGED sample
      BY DEF Generate, ChatBeginsOrEnds, Unload, speedVars
    <2> QED BY <2>1, <2>2, <2>3, <2>4
  <1>5. /\ generated' \in Nat /\ generated <= generated' /\ generated' <= MaxTokens
        /\ Counted' <= generated' /\ (inflight' = 1 => up')
    <2> DEFINE n == total[FALSE]
               m == total[TRUE]
    <2>1. n \in Nat /\ m \in Nat /\ Counted = n + m BY <1>1 DEF Counted
    <2>2. CASE Generate
      <3>1. /\ generated < MaxTokens /\ generated' = generated + 1 /\ UNCHANGED <<up, inflight>>
            /\ \E s \in BOOLEAN : total' = [total EXCEPT ![s] = @ + 1]
        BY <2>2 DEF Generate
      <3>2. \/ total'[FALSE] = n + 1 /\ total'[TRUE] = m
            \/ total'[FALSE] = n /\ total'[TRUE] = m + 1
        BY <1>1, <3>1
      <3> DEFINE n1 == total'[FALSE]
                 m1 == total'[TRUE]
      <3>3. Counted' = n1 + m1 BY DEF Counted
      <3>4. \/ n1 = n + 1 /\ m1 = m
            \/ n1 = n /\ m1 = m + 1
        BY <3>2
      <3> HIDE DEF n, m, n1, m1
      <3>5. Counted' = n + m + 1 BY <2>1, <3>3, <3>4
      <3>6. MaxTokens \in Nat BY SpeedConstants DEF SpeedConstants
      <3> QED BY <1>1, <2>1, <3>1, <3>5, <3>6
    <2>3. CASE Unload
      <3>1. Counted' = 0 /\ UNCHANGED generated /\ inflight' = 0
        BY <2>3 DEF Unload, Counted
      <3> QED BY <1>1, <3>1
    <2>4. CASE ChatBeginsOrEnds \/ Load \/ ClockMoves \/ UNCHANGED speedVars
      <3>1. UNCHANGED <<total, generated>> /\ (inflight' = 1 => up')
        BY <1>1, <2>4
        DEF ChatBeginsOrEnds, Load, Starts, ClockMoves, speedVars, swapVars
      <3>2. Counted' = Counted BY <3>1 DEF Counted
      <3> QED BY <1>1, <3>1, <3>2
    <2> QED BY <2>2, <2>3, <2>4
  <1>6. \A q \in Polls : Scraped(q)' => Scraped(q) BY <1>2 DEF Scraped
  <1> QED BY <1>1, <1>2, <1>3, <1>4, <1>5, <1>6, BoundsKept

LEMMA ServeBounds ==
    ASSUME SpeedInv, Bounded, NEW p \in Polls, ServeScrape(p)
    PROVE  Bounded'
  <1> DEFINE text == Metrics(total, inflight)
  <1>1. /\ stage[p] = "scrape" /\ Goes(p, "scraped")
        /\ scrape' = [q \in Polls |->
                        IF q = p THEN [text |-> text, gen |-> generated, current |-> TRUE]
                        ELSE IF up THEN scrape[q] ELSE Outdated(q)]
        /\ UNCHANGED <<backend, total, inflight, generated>>
    BY DEF ServeScrape
  <1>2. backend \in Kinds /\ total \in [BOOLEAN -> Nat] /\ inflight \in {0, 1} /\ generated \in Nat
    BY DEF SpeedInv, Shape
  <1>3. text \in Texts /\ (DecodeMetrics(text) # <<>> => Total(text) = Counted)
    BY <1>2, MetricsText, MetricsRead, NothingRead DEF Counted
  <1> HIDE DEF text
  <1>4. scrape'[p].text = text /\ scrape'[p].gen = generated BY <1>1
  <1>5. \A q \in Polls : q # p =>
           /\ scrape'[q].text = scrape[q].text /\ scrape'[q].gen = scrape[q].gen
           /\ Scraped(q)' => Scraped(q)
    <2> SUFFICES ASSUME NEW q \in Polls, q # p
                 PROVE  /\ scrape'[q].text = scrape[q].text /\ scrape'[q].gen = scrape[q].gen
                        /\ Scraped(q)' => Scraped(q)
      OBVIOUS
    <2>1. scrape'[q] = IF up THEN scrape[q] ELSE Outdated(q) BY <1>1
    <2>2. stage'[q] = stage[q] BY <1>1 DEF Goes, SpeedInv, Shape
    <2> QED BY <2>1, <2>2, OutdatedScrape DEF Scraped
  <1>6. Counted' = Counted /\ Counted <= generated BY <1>1 DEF Counted, Bounded
  <1>7. \A q \in Polls : scrape'[q].text \in Texts BY <1>3, <1>4, <1>5 DEF Bounded
  <1>8. ASSUME NEW q \in Polls, Scraped(q)', Reads(q)' PROVE Tot(q)' <= Gen(q)'
    <2>1. CASE q = p
      <3>1. Tot(q)' = Total(text) /\ Gen(q)' = generated /\ DecodeMetrics(text) # <<>>
        BY <1>4, <1>8, <2>1 DEF Tot, Gen, Reads
      <3> QED BY <1>3, <1>6, <3>1
    <2>2. CASE q # p
      <3>1. /\ Scraped(q) /\ Reads(q)' = Reads(q) /\ Tot(q)' = Tot(q) /\ Gen(q)' = Gen(q)
        BY <1>5, <1>8, <2>2 DEF Tot, Gen, Reads
      <3> QED BY <1>8, <3>1 DEF Bounded
    <2> QED BY <2>1, <2>2
  <1>9. /\ Stored' = Stored
        /\ Stored => StoredTot' = StoredTot /\ StoredGen' = StoredGen
    <2>1. CASE up BY <2>1 DEF ServeScrape, Stored, StoredTot, StoredGen
    <2>2. CASE ~up BY <2>2, OutdatedSample DEF ServeScrape, Starts
    <2> QED BY <2>1, <2>2
  <1>10. up' BY DEF ServeScrape, Starts
  <1> QED BY <1>1, <1>6, <1>7, <1>8, <1>9, <1>10 DEF Bounded

LEMMA AnswerBounds ==
    ASSUME SpeedInv, Bounded, NEW p \in Polls, AnswerScrape(p)
    PROVE  Bounded'
  <1>1. Scraped(p) /\ UNCHANGED swapVars BY DEF AnswerScrape, Scraped
  <1>2. CASE ~Reads(p)
    <2>1. End(p) /\ UNCHANGED sample BY <1>2 DEF AnswerScrape, Reads
    <2> QED BY <1>1, <2>1, EndBounds
  <1>3. CASE Reads(p)
    <2>1. Store(Head(DecodeMetrics(scrape[p].text)), p) /\ End(p)
      BY <1>3 DEF AnswerScrape, Reads
    <2> DEFINE y == [total |-> Tot(p), older |-> FALSE, gen |-> Gen(p),
                     current |-> scrape[p].current]
    <2>2. sample' = <<y>> BY <2>1 DEF Store, Tot, Total, Gen
    <2>3. y.total = Tot(p) /\ y.gen = Gen(p) OBVIOUS
    <2> HIDE DEF y
    <2>4. Stored' /\ StoredTot' = Tot(p) /\ StoredGen' = Gen(p)
      BY <2>2, <2>3 DEF Stored, StoredTot, StoredGen
    <2>5. /\ UNCHANGED <<backend, up, total, inflight, generated>>
          /\ Tot(p) <= Gen(p) /\ Gen(p) <= generated
      BY <1>1, <1>3 DEF swapVars, Bounded, SpeedInv, Shape, Gen
    <2>6. \A q \in Polls : IF q = p THEN scrape'[q] = NoScrape ELSE scrape'[q] = scrape[q]
      BY <2>1, PollEnds
    <2>7. \A q \in Polls : Scraped(q)' => Scraped(q) /\ q # p BY <2>1, PollEnds
    <2>8. \A q \in Polls : scrape'[q].text \in Texts
      <3>1. NoScrape.text = <<>> /\ <<>> \in Texts BY DEF NoScrape, Texts
      <3> QED BY <2>6, <3>1 DEF Bounded
    <2>9. \A q \in Polls : Scraped(q)' /\ Reads(q)' => Tot(q)' <= Gen(q)'
      <3>1. \A q \in Polls : Scraped(q)' =>
               Scraped(q) /\ Reads(q)' = Reads(q) /\ Tot(q)' = Tot(q) /\ Gen(q)' = Gen(q)
        BY <2>6, <2>7 DEF Reads, Tot, Gen
      <3> QED BY <3>1 DEF Bounded
    <2>10. Counted' = Counted BY <2>5 DEF Counted
    <2> QED BY <2>4, <2>5, <2>8, <2>9, <2>10 DEF Bounded
  <1> QED BY <1>2, <1>3

LEMMA BoundsInvariant == SpeedSpec => []Bounded
  <1>1. SpeedInit => Bounded
    <2> SUFFICES ASSUME SpeedInit PROVE Bounded OBVIOUS
    <2>1. /\ backend \in Backends /\ generated = 0 /\ inflight = 0 /\ sample = <<>>
          /\ total = [streaming \in BOOLEAN |-> 0]
          /\ stage = [p \in Polls |-> "idle"] /\ scrape = [p \in Polls |-> NoScrape]
      BY DEF SpeedInit
    <2>2. Counted = 0 BY <2>1 DEF Counted
    <2>3. 0 <= MaxTokens BY SpeedConstants DEF SpeedConstants
    <2>4. \A p \in Polls : scrape[p].text \in Texts
      <3>1. NoScrape.text = <<>> /\ <<>> \in Texts BY DEF NoScrape, Texts
      <3> QED BY <2>1, <3>1
    <2>5. \A p \in Polls : ~Scraped(p) BY <2>1 DEF Scraped
    <2> QED BY <2>1, <2>2, <2>3, <2>4, <2>5 DEF Bounded, Stored
  <1>2. SpeedInv /\ Bounded /\ [SpeedNext]_speedVars => Bounded'
    <2> SUFFICES ASSUME SpeedInv, Bounded, [SpeedNext]_speedVars PROVE Bounded' OBVIOUS
    <2>1. ASSUME NEW p \in Polls, Start(p) \/ ServeRunning(p) \/ ReadRunning(p) PROVE Bounded'
      <3>1. CASE ReadRunning(p) /\ ~listed[p] BY <3>1, EndBounds DEF ReadRunning
      <3> QED BY <2>1, <3>1, MoveBounds
    <2>2. ASSUME NEW p \in Polls, RunningFails(p) \/ ScrapeFails(p) PROVE Bounded'
      BY <2>2, EndBounds DEF RunningFails, ScrapeFails
    <2> QED BY <2>1, <2>2, ServeBounds, AnswerBounds, BackendBounds DEF SpeedNext
  <1> QED BY <1>1, <1>2, SpeedInvariant, PTL DEF SpeedSpec

\* The sample that is stored is the counter of one scrape and never more than the
\* backend had generated; scrapes are on their way to just the polls that wait for
\* one (LlamaSwapClient._decode_samples, _metric_sum).
THEOREM SpeedTypeCorrect == SpeedSpec => []SpeedTypeOK
  <1>1. SpeedInv /\ Bounded => SpeedTypeOK
    <2> SUFFICES ASSUME SpeedInv, Bounded PROVE SpeedTypeOK
      OBVIOUS
    <2>1. Shape /\ Queued /\ Woken BY DEF SpeedInv
    <2>2. total \in [BOOLEAN -> 0 .. generated] BY <2>1 DEF Shape
    <2>3. scrape \in [Polls -> Scrapes]
      <3> SUFFICES ASSUME NEW p \in Polls PROVE scrape[p] \in Scrapes BY <2>1 DEF Shape
      <3> DEFINE t == scrape[p].text
                 g == scrape[p].gen
                 c == scrape[p].current
      <3>1. scrape[p] = [text |-> t, gen |-> g, current |-> c] BY <2>1 DEF Shape
      <3>2. t \in Texts /\ g \in 0 .. generated /\ c \in BOOLEAN BY <2>1 DEF Shape, Bounded
      <3> HIDE DEF t, g, c
      <3> QED BY <3>1, <3>2 DEF Scrapes, Texts
    <2>4. sample = <<>> \/ \E last \in Samples : sample = <<last>> /\ last.total <= last.gen
      <3> SUFFICES ASSUME sample # <<>>
                   PROVE  \E last \in Samples : sample = <<last>> /\ last.total <= last.gen
        OBVIOUS
      <3> DEFINE x == sample[1]
      <3>1. sample = <<x>> /\ x \in Readings BY <2>1 DEF Shape
      <3>2. x.total <= x.gen /\ x.gen <= generated
        BY DEF Bounded, Stored, StoredTot, StoredGen
      <3>3. generated \in Nat BY <2>1 DEF Shape
      <3> HIDE DEF x
      <3>4. x \in Samples BY <3>1, <3>2, <3>3 DEF Readings, Samples
      <3> QED BY <3>1, <3>2, <3>4
    <2>5. backend \in Backends /\ generated \in 0 .. MaxTokens /\ (inflight = 1 => up)
      BY <2>1, SpeedConstants DEF Shape, Bounded, SpeedConstants
    <2>6. \A p \in Polls : listed[p] => stage[p] = "listed" BY <2>1 DEF Woken
    <2> QED BY <2>1, <2>2, <2>3, <2>4, <2>5, <2>6 DEF Shape, Queued, SpeedTypeOK
  <1> QED BY <1>1, SpeedInvariant, BoundsInvariant, PTL

\* A poll starts a model by its scrape only if the model ran at some time during
\* the poll: somebody stopped it after /running had listed it.
THEOREM WakesOnlyRacedHolds == SpeedSpec => WakesOnlyRaced
  <1>1. SpeedInv => \A p \in Polls : stage[p] = "scrape" /\ stage'[p] = "scraped" /\ ~up
                                     => upDuring[p]
    BY DEF SpeedInv, Woken
  <1> QED BY <1>1, SpeedInvariant, PTL DEF WakesOnlyRaced

\* While the answers arrive in the order of the scrapes, the speeds of all polls
\* together count no token twice, and none that was not generated.
THEOREM TokensCountedOnceHolds == SpeedSpec => []TokensCountedOnce
  <1>1. SpeedInv => TokensCountedOnce
    <2> SUFFICES ASSUME SpeedInv, ~crossed PROVE reported <= generated
      BY DEF TokensCountedOnce
    <2>1. generated \in Nat /\ reported \in Nat BY DEF SpeedInv, Shape
    <2>2. CASE backend = "other" BY <2>1, <2>2 DEF SpeedInv, Readable
    <2>3. CASE backend # "other"
      <3>1. Ordered /\ (Stored => StoredTot \in Nat /\ StoredGen \in Nat)
        BY <2>3, Numbers DEF SpeedInv
      <3>2. CASE ~Stored BY <2>1, <3>1, <3>2 DEF Ordered
      <3>3. CASE Stored
        <4>1. reported <= StoredGen /\ StoredGen <= generated BY <3>1, <3>3 DEF Ordered, Grows
        <4> QED BY <2>1, <3>1, <3>3, <4>1
      <3> QED BY <3>2, <3>3
    <2> QED BY <2>2, <2>3
  <1> QED BY <1>1, SpeedInvariant, PTL

\* When the clock has moved on since the sample and the backend has generated
\* tokens without a restart, a speed by the counter is shown.
THEOREM SpeedIsSeenHolds == SpeedSpec => []SpeedIsSeen
  <1>1. SpeedInv => SpeedIsSeen
    <2> DEFINE reading(p) == Head(DecodeMetrics(scrape[p].text))
    <2> SUFFICES ASSUME SpeedInv, NEW p \in Polls, Scraped(p), Reads(p), Stored,
                        sample[1].older, StoredNow, Now(p), Gen(p) > StoredGen
                 PROVE  SpeedTokens(reading(p)) > 0
      BY DEF SpeedIsSeen, Scraped, Reads, Stored, StoredNow, StoredGen, Now, Gen
    <2>1. backend # "other" BY DEF SpeedInv, Readable
    <2>2. Tot(p) \in Nat /\ Gen(p) \in Nat /\ StoredTot \in Nat /\ StoredGen \in Nat
      BY <2>1, Numbers
    <2>3. Tot(p) - Gen(p) = StoredTot - StoredGen BY <2>1 DEF SpeedInv, SameRun
    <2>4. Tot(p) > StoredTot BY <2>2, <2>3
    <2>5. reading(p).total = Tot(p) BY DEF Tot, Total
    <2> HIDE DEF reading
    <2>6. SpeedTokens(reading(p)) = Tot(p) - StoredTot
      BY <2>4, <2>5 DEF SpeedTokens, Stored, StoredTot
    <2> QED BY <2>2, <2>4, <2>6
  <1> QED BY <1>1, SpeedInvariant, PTL
=============================================================================
