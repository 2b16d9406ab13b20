----------------------------- MODULE DecodeSpeed -----------------------------
(***************************************************************************)
(* LlamaSwapClient.decode_speed for one model: the polls of several pages, *)
(* each with three requests to llama-swap one after the other, over the    *)
(* one sample per model that they share (_decode_samples).  A request is   *)
(* served at one moment and its answer arrives at a later one, so answers  *)
(* may overtake each other.  llama-swap and the backend behind it are      *)
(* external: the model is listed in /running or not, and a request for its *)
(* /upstream path starts it when it is not.                                *)
(***************************************************************************)
EXTENDS Integers, Sequences, SequencesExt, FiniteSets

CONSTANTS
    Polls,      \* polls in progress at once
    Backends,   \* the kinds of backend: a subset of Kinds
    MaxTokens   \* bound: tokens generated in a behaviour

\* "gauged" is an sglang with a throughput gauge.
Kinds == {"vllm", "sglang", "gauged", "other"}

ASSUME SpeedConstants == Backends \subseteq Kinds /\ MaxTokens \in Nat

VARIABLES
    stage,      \* what each poll waits for
    listed,     \* whether /running listed the model when the poll's request was served
    scrape,     \* the reading on its way to the poll
    sample,     \* _decode_samples[model]: <<>> or <<sample>>
    backend,    \* external: its kind
    up,         \* external: listed in /running
    total,      \* external: tokens counted, by the value of the label is_streaming
    inflight,   \* external: requests that the backend works on, 0 or 1
    generated,  \* history: tokens generated so far
    reported,   \* history: tokens that some speed was computed from
    served,     \* history: the polls with a scrape on its way, in the order of the scrapes
    crossed,    \* history: a scrape was answered before an earlier one
    upDuring    \* history: the model was up at some time during the poll

swapVars == <<backend, up, total, inflight, generated>>
speedVars == <<stage, listed, scrape, sample, swapVars, reported, served, crossed,
               upDuring>>

Stages == {"idle", "running", "listed", "scrape", "scraped"}
NoScrape == [text |-> <<>>, gen |-> 0, current |-> TRUE]

-----------------------------------------------------------------------------
(* The metrics text: its series, in order, each with a name and a value.   *)

Series(name, value) == [name |-> name, value |-> value]

\* External: sglang has a counter for each value of is_streaming, and repeats
\* its gauges for each rank; the throughput gauge, where there is one, moves with
\* the requests.
Metrics(counts, running) ==
    CASE backend = "vllm" ->
            <<Series("vllm:generation_tokens_total", counts[FALSE] + counts[TRUE]),
              Series("vllm:num_requests_running", running)>>
      [] backend \in {"sglang", "gauged"} ->
            <<Series("sglang:generation_tokens_total", counts[FALSE]),
              Series("sglang:generation_tokens_total", counts[TRUE]),
              Series("sglang:num_running_reqs", running),
              Series("sglang:num_running_reqs", running)>>
               \o IF backend = "sglang" THEN <<>>
                  ELSE <<Series("sglang:gen_throughput", running),
                         Series("sglang:gen_throughput", running)>>
      [] OTHER -> <<>>

\* As MetricValues, with a pattern that goes on matching after the name.
MetricValuesLoose(text, name) ==
    IF \E i \in DOMAIN text : text[i].name = name THEN DOMAIN text ELSE {}

\* _metric_values, by the places of the series in the text.
MetricValues(text, name) == {i \in DOMAIN text : text[i].name = name}

\* As MetricSum, with the first series only.
MetricFirst(text, name) == text[Min(MetricValues(text, name))].value

\* _metric_sum, for a name that occurs
MetricSum(text, name) == MapThenSumSet(LAMBDA i : text[i].value, MetricValues(text, name))

\* _metric_max, for a name that occurs
MetricMax(text, name) == Max({text[i].value : i \in MetricValues(text, name)})

Known == << [counter |-> "vllm:generation_tokens_total",
             running |-> "vllm:num_requests_running", gauge |-> "none"],
            [counter |-> "sglang:generation_tokens_total",
             running |-> "sglang:num_running_reqs",
             gauge |-> "sglang:gen_throughput"] >>

\* _decode_metrics: the first kind of backend that has both series; none is an
\* error.  The gauge is <<>> for None.
DecodeMetrics(text) ==
    LET Has(name) == MetricValues(text, name) # {}
        kinds == {i \in DOMAIN Known : Has(Known[i].counter) /\ Has(Known[i].running)}
        Reading(k) == [total |-> MetricSum(text, k.counter),
                       running |-> MetricMax(text, k.running),
                       throughput |-> IF Has(k.gauge) THEN <<MetricMax(text, k.gauge)>>
                                      ELSE <<>>]
    IN  IF kinds = {} THEN <<>> ELSE <<Reading(Known[Min(kinds)])>>

-----------------------------------------------------------------------------
SpeedInit ==
    /\ stage = [p \in Polls |-> "idle"]
    /\ listed = [p \in Polls |-> FALSE]
    /\ scrape = [p \in Polls |-> NoScrape]
    /\ sample = <<>>
    /\ backend \in Backends
    /\ up \in BOOLEAN
    /\ total = [streaming \in BOOLEAN |-> 0]
    /\ inflight = 0
    /\ generated = 0
    /\ reported = 0
    /\ served = <<>>
    /\ crossed = FALSE
    /\ upDuring = [p \in Polls |-> FALSE]

\* The poll returns or raises; what it knew is forgotten.
End(p) ==
    /\ stage' = [stage EXCEPT ![p] = "idle"]
    /\ listed' = [listed EXCEPT ![p] = FALSE]
    /\ scrape' = [scrape EXCEPT ![p] = NoScrape]
    /\ served' = RemoveFirst(served, p)
    /\ upDuring' = [upDuring EXCEPT ![p] = FALSE]

Goes(p, to) == stage' = [stage EXCEPT ![p] = to]

\* The activity request finds no positive speed of this model, and /running is
\* asked.  A poll that ends with the first request changes nothing here.
Start(p) ==
    /\ stage[p] = "idle"
    /\ Goes(p, "running")
    /\ upDuring' = [upDuring EXCEPT ![p] = up]
    /\ UNCHANGED <<listed, scrape, sample, swapVars, reported, served, crossed>>

\* A failed or late answer; the model may have been started all the same.
ScrapeFails(p) ==
    /\ stage[p] \in {"scrape", "scraped"}
    /\ End(p)
    /\ UNCHANGED <<sample, swapVars, reported, crossed>>

RunningFails(p) ==
    /\ stage[p] \in {"running", "listed"}
    /\ End(p)
    /\ UNCHANGED <<sample, swapVars, reported, crossed>>

\* External: llama-swap answers what is true now.
ServeRunning(p) ==
    /\ stage[p] = "running"
    /\ Goes(p, "listed")
    /\ listed' = [listed EXCEPT ![p] = up]
    /\ UNCHANGED <<scrape, sample, swapVars, reported, served, crossed,
                   upDuring>>

\* As ReadRunning, without a look at the list.
ReadRunningBlindly(p) ==
    /\ stage[p] = "listed"
    /\ Goes(p, "scrape")
    /\ UNCHANGED <<listed, scrape, sample, swapVars, reported, served,
                   crossed, upDuring>>

\* Only a model that is in the list is asked for its metrics.
ReadRunning(p) ==
    /\ stage[p] = "listed"
    /\ \/ /\ listed[p]
          /\ Goes(p, "scrape")
          /\ listed' = [listed EXCEPT ![p] = FALSE]
          /\ UNCHANGED <<scrape, served, upDuring>>
       \/ /\ ~listed[p]
          /\ End(p)
    /\ UNCHANGED <<sample, swapVars, reported, crossed>>

\* History: a restart of the backend outdates what was read before it.
Outdated(q) == [scrape[q] EXCEPT !.current = @ /\ stage[q] # "scraped"]

\* External: the backend starts; upDuring is asked for until the scrape.
Starts ==
    /\ up' = TRUE
    /\ upDuring' = [p \in Polls |-> stage[p] \notin {"idle", "scraped"}]
    /\ sample' = [i \in DOMAIN sample |-> [sample[i] EXCEPT !.current = FALSE]]

\* External: the metrics as they are now, of a model that is started for the
\* purpose when it does not run.
ServeScrape(p) ==
    /\ stage[p] = "scrape"
    /\ Goes(p, "scraped")
    /\ scrape' = [q \in Polls |->
                    IF q = p THEN [text |-> Metrics(total, inflight),
                                   gen |-> generated, current |-> TRUE]
                    ELSE IF up THEN scrape[q] ELSE Outdated(q)]
    /\ served' = Append(served, p)
    /\ IF up THEN /\ upDuring' = [upDuring EXCEPT ![p] = FALSE]
                  /\ UNCHANGED <<up, sample>>
       ELSE Starts
    /\ UNCHANGED <<listed, backend, total, inflight, generated, reported, crossed>>

\* The tokens a speed is computed from, 0 for None: the time has to have moved
\* on and the counter to have grown since the stored sample.
SpeedTokens(reading) ==
    IF sample # <<>> /\ sample[1].older /\ reading.total > sample[1].total
    THEN reading.total - sample[1].total ELSE 0

\* A gauge needs no second sample; without requests the backend is idle.
SpeedSource(reading) ==
    CASE reading.throughput # <<>> ->
            IF reading.throughput[1] > 0 THEN "throughput" ELSE "idle"
      [] reading.throughput = <<>> ->
            IF reading.running > 0 THEN "counter" ELSE "idle"

\* As Store, but an existing sample stays.
StoreFirst(reading, p) ==
    sample' = IF sample # <<>> THEN sample
              ELSE <<[total |-> reading.total, older |-> FALSE,
                      gen |-> scrape[p].gen, current |-> scrape[p].current]>>

\* _decode_samples[model_id] = (now, reading.total)
Store(reading, p) ==
    sample' = <<[total |-> reading.total, older |-> FALSE,
                 gen |-> scrape[p].gen, current |-> scrape[p].current]>>

\* The last part of decode_speed, which runs without a pause: the sample is
\* replaced in any case, then a gauge, an idle backend and the counter.
AnswerScrape(p) ==
    /\ stage[p] = "scraped"
    /\ crossed' = (crossed \/ Head(served) # p)
    /\ IF DecodeMetrics(scrape[p].text) = <<>>
       THEN End(p) /\ UNCHANGED <<sample, reported>>
       ELSE LET reading == Head(DecodeMetrics(scrape[p].text))
            IN  /\ Store(reading, p)
                /\ End(p)
                /\ reported' = IF crossed' THEN 0
                               ELSE IF SpeedSource(reading) = "counter"
                               THEN reported + SpeedTokens(reading)
                               ELSE reported
    /\ UNCHANGED swapVars

-----------------------------------------------------------------------------
(* External: the backend works, and the model is loaded and unloaded. *)

Generate ==
    /\ up /\ inflight = 1 /\ generated < MaxTokens
    /\ \E streaming \in IF backend \in {"sglang", "gauged"} THEN BOOLEAN ELSE {FALSE} :
          total' = [total EXCEPT ![streaming] = @ + 1]
    /\ generated' = generated + 1
    /\ UNCHANGED <<stage, listed, scrape, sample, backend, up, inflight,
                   reported, served, crossed, upDuring>>

\* The counters of a backend without metrics are not followed.
ChatBeginsOrEnds ==
    /\ up /\ backend # "other"
    /\ inflight' = 1 - inflight
    /\ UNCHANGED <<stage, listed, scrape, sample, backend, up, total,
                   generated, reported, served, crossed, upDuring>>

\* The process of the backend ends, and its counters with it.
Unload ==
    /\ up
    /\ up' = FALSE
    /\ inflight' = 0
    /\ total' = [streaming \in BOOLEAN |-> 0]
    /\ UNCHANGED <<stage, listed, scrape, sample, backend, generated, reported,
                   served, crossed, upDuring>>

Load ==
    /\ ~up
    /\ Starts
    /\ scrape' = [q \in Polls |-> Outdated(q)]
    /\ UNCHANGED <<stage, listed, backend, total, inflight, generated, reported,
                   served, crossed>>

\* The monotonic clock moves on.
ClockMoves ==
    /\ sample # <<>> /\ ~sample[1].older
    /\ sample' = <<[sample[1] EXCEPT !.older = TRUE]>>
    /\ UNCHANGED <<stage, listed, scrape, swapVars, reported, served,
                   crossed, upDuring>>

SpeedNext ==
    \/ \E p \in Polls :
          \/ Start(p) \/ ServeRunning(p) \/ ReadRunning(p) \/ RunningFails(p)
          \/ ServeScrape(p) \/ AnswerScrape(p) \/ ScrapeFails(p)
    \/ Generate \/ ChatBeginsOrEnds \/ Unload \/ Load \/ ClockMoves

-----------------------------------------------------------------------------
SeriesNames ==
    {"vllm:generation_tokens_total", "vllm:num_requests_running",
     "sglang:generation_tokens_total", "sglang:num_running_reqs", "sglang:gen_throughput"}
Scrapes ==
    [text : Seq([name : SeriesNames, value : Nat]), gen : 0 .. generated, current : BOOLEAN]
Samples == [total : 0 .. generated, older : BOOLEAN, gen : 0 .. generated, current : BOOLEAN]

\* What each variable holds: a scrape is on its way to just the polls that wait for
\* one, in some order, and the stored sample is the counter of one scrape, which
\* no sum over its series makes larger than what was generated by then.
SpeedTypeOK ==
    /\ stage \in [Polls -> Stages]
    /\ listed \in [Polls -> BOOLEAN] /\ \A p \in Polls : listed[p] => stage[p] = "listed"
    /\ scrape \in [Polls -> Scrapes]
    /\ \A p \in Polls : stage[p] # "scraped" => scrape[p] = NoScrape
    /\ served \in Seq(Polls) /\ IsInjective(served)
    /\ ToSet(served) = {p \in Polls : stage[p] = "scraped"}
    /\ sample = <<>> \/ \E last \in Samples : sample = <<last>> /\ last.total <= last.gen
    /\ backend \in Backends /\ up \in BOOLEAN
    /\ inflight \in {0, 1} /\ (inflight = 1 => up)
    /\ total \in [BOOLEAN -> 0 .. generated]
    /\ generated \in 0 .. MaxTokens
    /\ reported \in Nat /\ crossed \in BOOLEAN /\ upDuring \in [Polls -> BOOLEAN]

\* "Never probe /upstream/* for a stopped model": a poll starts a model only if
\* that model was running at some time during the poll, that is, when somebody
\* stopped it between the two answers.
WakesOnlyRaced ==
    [][\A p \in Polls : stage[p] = "scrape" /\ stage'[p] = "scraped" /\ ~up
        => upDuring[p]]_speedVars

\* As long as answers arrive in the order of the scrapes, no token is counted
\* in two speeds, and none that was not generated, whoever polls and however
\* often the backend restarts with its counter at zero.
TokensCountedOnce == ~crossed => reported <= generated

\* A busy backend is never shown without a speed while its counter moves: there
\* is no earlier sample, the clock has not moved since, the backend restarted,
\* or it generated nothing between the two scrapes, in any of its series.
SpeedIsSeen ==
    \A p \in Polls :
        LET readings == DecodeMetrics(scrape[p].text)
        IN  /\ stage[p] = "scraped" /\ readings # <<>>
            /\ SpeedSource(Head(readings)) = "counter"
            /\ sample # <<>> /\ sample[1].older
            /\ sample[1].current /\ scrape[p].current
            /\ scrape[p].gen > sample[1].gen
            => SpeedTokens(Head(readings)) > 0
=============================================================================
