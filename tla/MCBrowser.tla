------------------------------ MODULE MCBrowser ------------------------------
(***************************************************************************)
(* The page and the GPU monitor, for TLC: the parts with timers.  They     *)
(* share no state, so each behaviour runs one of them (see MCServices).    *)
(***************************************************************************)
EXTENDS WebClient, GpuMonitor

VARIABLE part

vars == <<part, webVars, gpuVars>>

Init ==
    /\ part \in {"page", "gpu"}
    /\ WebInit /\ GpuInit

Next ==
    \/ part = "page" /\ WebNext /\ UNCHANGED <<part, gpuVars>>
    \/ part = "gpu" /\ GpuNext /\ UNCHANGED <<part, webVars>>

Spec == Init /\ [][Next]_vars /\ WebFairness /\ GpuFairness

\* The page alone, without fairness.
PageSpec == part = "page" /\ Init /\ [][Next]_vars

-----------------------------------------------------------------------------
\* No device, one, two cards of a kind, two different ones.
Device(name, used) == [name |-> name, used |-> used]
Nvidia == {<<>>, <<Device("x", 5)>>, <<Device("x", 5), Device("x", 5)>>,
           <<Device("x", 5), Device("y", 4)>>}

\* Two counters of one process, the system, a service, and rows that do not
\* count; adapters that are not in order; and an output without anything.
Counter(pid, adapter, value) == [pid |-> pid, adapter |-> adapter, value |-> value]
Windows ==
    {[counters |-> <<Counter(1, 1, 2), Counter(7, 2, 3), Counter(1, 1, 4), Counter(4, 1, 1),
                     Counter(0, 1, 9), Counter(7, 0, 9), Counter(7, 1, 0), Counter(8, 1, 5)>>,
      processes |-> <<[pid |-> 1, name |-> "python"], [pid |-> 7, name |-> "dwm"]>>,
      services |-> {[pid |-> 7, name |-> "s"]},
      adapters |-> {[id |-> 2, dedicated |-> 5], [id |-> 1, dedicated |-> 7],
                    [id |-> 0, dedicated |-> 5]}],
     [counters |-> <<>>, processes |-> <<>>, services |-> {},
      adapters |-> {[id |-> 1, dedicated |-> 3]}]}
==============================================================================
