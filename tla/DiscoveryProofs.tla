--------------------------- MODULE DiscoveryProofs ---------------------------
(***************************************************************************)
(* Proofs about Discovery, for every tree of directories, any number of    *)
(* overlapping scans and of registrations, and every initial configuration.*)
(***************************************************************************)
EXTENDS Discovery, FiniteSetTheorems, SequenceTheorems, TLAPS

\* f is a function over S, whatever its values are.
IsOver(f, S) == f = [x \in S |-> f[x]]

Shape ==
    /\ step \in [Scans -> 0 .. Len(Tree) + 1]
    /\ IsOver(files, Scans) /\ IsOver(exclude, Scans) /\ IsOver(found, Scans)
    /\ \A s \in Scans : found[s] \in Seq(ToSet(found[s]))
    /\ \A s \in Scans : ~Walking(s) => files[s] = {} /\ found[s] = <<>> /\ exclude[s] = {}
    /\ config \in Seq(ToSet(config))
    /\ edits \in 0 .. MaxEdits
    /\ IsFiniteSet(gone) /\ IsFiniteSet(odd)
    /\ Cardinality(gone) + Cardinality(odd) <= MaxGone
\* A registration has the gate: one of them at most waits for llama-swap.
OneWrites ==
    /\ IsOver(writing, Registrations)
    /\ \A r \in Registrations : writing[r] = Idle \/ writing[r] = <<writing[r][1]>>
    /\ \A q, r \in Registrations : writing[q] # Idle /\ writing[r] # Idle => q = r
\* What is configured by now and a scan did not know of is excepted.
Known == \A s \in Scans : Walking(s) => RegisteredPaths \subseteq exclude[s] \cup raced
NewFound == \A s \in Scans : \A c \in ToSet(found[s]) : c.path \notin exclude[s]

DiscoveryInv == Shape /\ OneWrites /\ Known /\ NewFound /\ NotDuplicated

\* How far a scan of directories that nobody changed is: it has found what the
\* directories behind it hold, but for the files that are left of the last one.
FoundOnce ==
    \A s \in Scans : \A i, j \in DOMAIN found[s] :
        found[s][i].path = found[s][j].path => i = j
Behind(s) == UNION {HfPaths(Tree[k]) \cup GgufPaths(Tree[k]) : k \in 1 .. step[s] - 1}
Left(s) == {Listing(s)[i].path : i \in {j \in files[s] : IsMain(Listing(s)[j])}}
Progress(s) ==
    /\ files[s] # {} => step[s] >= 2 /\ files[s] \subseteq Present(Tree[step[s] - 1])
    /\ Paths(found[s]) \subseteq Behind(s) \ exclude[s]
    /\ Behind(s) \ exclude[s] \subseteq Paths(found[s]) \cup Left(s)
ExactInv ==
    /\ FoundOnce /\ IsOver(steady, Scans)
    /\ \A s \in Scans : Walking(s) /\ steady[s] => Progress(s)

-----------------------------------------------------------------------------
(* Sequences, and what is configured. *)

\* A sequence that grows at its end has one element more.
LEMMA Appended ==
    ASSUME NEW s, s \in Seq(ToSet(s)), NEW x
    PROVE  /\ Append(s, x) \in Seq(ToSet(Append(s, x)))
           /\ ToSet(Append(s, x)) = ToSet(s) \cup {x}
           /\ Len(s) \in Nat /\ DOMAIN s = 1 .. Len(s)
           /\ DOMAIN Append(s, x) = 1 .. Len(s) + 1
           /\ \A i \in DOMAIN s : Append(s, x)[i] = s[i]
           /\ Append(s, x)[Len(s) + 1] = x
  <1> DEFINE new == Append(s, x)
             S == ToSet(s)
  <1>1. s \in Seq(S) OBVIOUS
  <1> HIDE DEF S
  <1>2. /\ Len(s) \in Nat /\ DOMAIN s = 1 .. Len(s)
        /\ DOMAIN new = 1 .. Len(s) + 1 /\ Len(new) = Len(s) + 1
        /\ \A i \in DOMAIN s : new[i] = s[i]
        /\ new[Len(s) + 1] = x
        /\ new \in Seq(S \cup {x})
    BY <1>1
  <1> HIDE DEF new
  <1>3. \A i \in DOMAIN new : i \in DOMAIN s \/ i = Len(s) + 1 BY <1>2
  <1>4. \A i \in DOMAIN s : i \in DOMAIN new BY <1>2
  <1>5. Len(s) + 1 \in DOMAIN new BY <1>2
  <1>6. ToSet(new) = ToSet(s) \cup {x} BY <1>2, <1>3, <1>4, <1>5 DEF ToSet
  <1>7. new \in Seq(ToSet(new)) BY <1>2, <1>6 DEF S
  <1> QED BY <1>2, <1>6, <1>7 DEF new

\* One that loses an element holds nothing new.
LEMMA Removed ==
    ASSUME NEW s, s \in Seq(ToSet(s)), NEW i \in DOMAIN s
    PROVE  /\ RemoveAt(s, i) \in Seq(ToSet(RemoveAt(s, i)))
           /\ ToSet(RemoveAt(s, i)) \subseteq ToSet(s)
  <1> DEFINE new == RemoveAt(s, i)
             S == ToSet(s)
  <1>1. s \in Seq(S) OBVIOUS
  <1> HIDE DEF S
  <1>2. new \in Seq(S) BY <1>1 DEF RemoveAt
  <1> HIDE DEF new
  <1>3. Len(new) \in Nat /\ DOMAIN new = 1 .. Len(new) /\ \A j \in 1 .. Len(new) : new[j] \in S
    BY <1>2
  <1>4. ToSet(new) \subseteq S BY <1>3 DEF ToSet
  <1>5. \A j \in 1 .. Len(new) : new[j] \in ToSet(new) BY <1>3 DEF ToSet
  <1>6. new = [j \in 1 .. Len(new) |-> new[j]] BY <1>2
  <1>7. new \in Seq(ToSet(new)) BY <1>3, <1>5, <1>6, SeqDef
  <1> QED BY <1>4, <1>7 DEF new, S

\* What the console counts as configured: entries of the file that can be
\* decoded, and what registrations have written.
RegisteredIn(entries, written) ==
    {e.path : e \in {x \in ToSet(entries)
                          \cup {Entry(c, TRUE) : c \in UNION {ToSet(written[r]) : r \in Registrations}} :
                        x.decodable}}

LEMMA RegisteredMeans ==
    ASSUME NEW entries, NEW written,
           \A r \in Registrations : written[r] = <<>> \/ written[r] = <<written[r][1]>>
    PROVE  \A p : p \in RegisteredIn(entries, written) <=>
                    \/ \E e \in ToSet(entries) : e.decodable /\ e.path = p
                    \/ \E r \in Registrations : written[r] # <<>> /\ written[r][1].path = p
  <1>1. \A c : ToSet(<<c>>) = {c}
    <2> SUFFICES ASSUME NEW c PROVE ToSet(<<c>>) = {c} OBVIOUS
    <2>1. DOMAIN <<c>> = {1} /\ <<c>>[1] = c OBVIOUS
    <2> QED BY <2>1 DEF ToSet
  <1>2. ToSet(<<>>) = {} BY DEF ToSet
  <1>3. ASSUME NEW r \in Registrations, NEW c
        PROVE  c \in ToSet(written[r]) <=> written[r] # <<>> /\ c = written[r][1]
    <2>1. CASE written[r] = <<>> BY <1>2, <2>1
    <2>2. CASE written[r] # <<>>
      <3>1. ToSet(written[r]) = {written[r][1]} BY <1>1, <2>2
      <3> QED BY <2>2, <3>1
    <2> QED BY <2>1, <2>2
  <1>4. \A c : c \in UNION {ToSet(written[r]) : r \in Registrations}
                  <=> \E r \in Registrations : written[r] # <<>> /\ c = written[r][1]
    BY <1>3
  <1>5. \A c : Entry(c, TRUE).decodable /\ Entry(c, TRUE).path = c.path BY DEF Entry
  <1> SUFFICES ASSUME NEW p
               PROVE  p \in RegisteredIn(entries, written) <=>
                        \/ \E e \in ToSet(entries) : e.decodable /\ e.path = p
                        \/ \E r \in Registrations : written[r] # <<>> /\ written[r][1].path = p
    OBVIOUS
  <1> HIDE DEF Entry
  <1>6. ASSUME p \in RegisteredIn(entries, written)
        PROVE  \/ \E e \in ToSet(entries) : e.decodable /\ e.path = p
               \/ \E r \in Registrations : written[r] # <<>> /\ written[r][1].path = p
    <2>1. PICK x : /\ \/ x \in ToSet(entries)
                      \/ x \in {Entry(c, TRUE) : c \in UNION {ToSet(written[r]) : r \in Registrations}}
                   /\ x.decodable /\ p = x.path
      BY <1>6 DEF RegisteredIn
    <2>2. CASE x \in ToSet(entries) BY <2>1, <2>2
    <2>3. CASE x \in {Entry(c, TRUE) : c \in UNION {ToSet(written[r]) : r \in Registrations}}
      <3>1. PICK c \in UNION {ToSet(written[r]) : r \in Registrations} : x = Entry(c, TRUE)
        BY <2>3
      <3>2. PICK r \in Registrations : written[r] # <<>> /\ c = written[r][1] BY <1>4, <3>1
      <3>3. written[r][1].path = p BY <1>5, <2>1, <3>1, <3>2
      <3> QED BY <3>2, <3>3
    <2> QED BY <2>1, <2>2, <2>3
  <1>7. ASSUME NEW e \in ToSet(entries), e.decodable, e.path = p
        PROVE  p \in RegisteredIn(entries, written)
    BY <1>7 DEF RegisteredIn
  <1>8. ASSUME NEW r \in Registrations, written[r] # <<>>, written[r][1].path = p
        PROVE  p \in RegisteredIn(entries, written)
    <2>1. written[r][1] \in UNION {ToSet(written[q]) : q \in Registrations} BY <1>4, <1>8
    <2> QED BY <1>5, <1>8, <2>1 DEF RegisteredIn
  <1> QED BY <1>6, <1>7, <1>8

LEMMA RegisteredNow == RegisteredPaths = RegisteredIn(config, writing)
  BY DEF RegisteredPaths, RegisteredIn, Entries, Pending

-----------------------------------------------------------------------------
(* One lemma for each kind of step, with what the step shows. *)

\* A step of one scan.
LEMMA ScanKept ==
    ASSUME DiscoveryInv, NEW s \in Scans,
           NEW n \in 0 .. Len(Tree) + 1, NEW l, NEW x, NEW f, f \in Seq(ToSet(f)),
           step' = [step EXCEPT ![s] = n], files' = [files EXCEPT ![s] = l],
           exclude' = [exclude EXCEPT ![s] = x], found' = [found EXCEPT ![s] = f],
           UNCHANGED <<diskVars, config, writing, edits, raced>>,
           n = 0 => l = {} /\ x = {} /\ f = <<>>,
           n # 0 => RegisteredPaths \subseteq x \cup raced,
           \A c \in ToSet(f) : c.path \notin x,
           NotDuplicated'
    PROVE  DiscoveryInv'
  <1>1. /\ step' \in [Scans -> 0 .. Len(Tree) + 1]
        /\ IsOver(files', Scans) /\ IsOver(exclude', Scans) /\ IsOver(found', Scans)
        /\ step'[s] = n /\ files'[s] = l /\ exclude'[s] = x /\ found'[s] = f
    BY DEF DiscoveryInv, Shape, IsOver
  <1>2. \A t \in Scans \ {s} : /\ step'[t] = step[t] /\ files'[t] = files[t]
                               /\ exclude'[t] = exclude[t] /\ found'[t] = found[t]
    BY DEF DiscoveryInv, Shape, IsOver
  <1>3. Shape'
    <2>1. \A t \in Scans : found'[t] \in Seq(ToSet(found'[t]))
      BY <1>1, <1>2 DEF DiscoveryInv, Shape
    <2>2. \A t \in Scans : step'[t] = 0 => files'[t] = {} /\ found'[t] = <<>> /\ exclude'[t] = {}
      BY <1>1, <1>2 DEF DiscoveryInv, Shape, Walking
    <2> QED BY <1>1, <2>1, <2>2 DEF DiscoveryInv, Shape, Walking, diskVars
  <1>4. OneWrites' BY DEF DiscoveryInv, OneWrites
  <1>5. RegisteredPaths' = RegisteredPaths BY DEF RegisteredPaths, Entries, Pending
  <1>6. Known' BY <1>1, <1>2, <1>5 DEF DiscoveryInv, Known, Walking
  <1>7. NewFound' BY <1>1, <1>2 DEF DiscoveryInv, NewFound
  <1> QED BY <1>3, <1>4, <1>6, <1>7 DEF DiscoveryInv

\* A step that changes what is configured.
LEMMA ConfigKept ==
    ASSUME DiscoveryInv, UNCHANGED <<step, files, exclude, found, diskVars>>,
           config' \in Seq(ToSet(config')), edits' \in 0 .. MaxEdits, OneWrites',
           raced \subseteq raced',
           \A s \in Scans : Walking(s) => RegisteredPaths' \subseteq RegisteredPaths \cup raced',
           NotDuplicated'
    PROVE  DiscoveryInv'
  <1>1. Shape' BY DEF DiscoveryInv, Shape, Walking, diskVars
  <1>2. Known' BY DEF DiscoveryInv, Known, Walking
  <1>3. NewFound' BY DEF DiscoveryInv, NewFound
  <1> QED BY <1>1, <1>2, <1>3 DEF DiscoveryInv

LEMMA AddedOnce ==
    ASSUME DiscoveryInv, NEW s \in Scans, NEW c, NEW f, f = Added(s, c)
    PROVE  /\ f \in Seq(ToSet(f))
           /\ \A d \in ToSet(f) : d.path \notin exclude[s]
  <1>1. found[s] \in Seq(ToSet(found[s])) BY DEF DiscoveryInv, Shape
  <1>2. \A d \in ToSet(found[s]) : d.path \notin exclude[s] BY DEF DiscoveryInv, NewFound
  <1>3. CASE IsAuxiliary(c) \/ c.path \in Seen(s) BY <1>1, <1>2, <1>3 DEF Added
  <1>4. CASE ~(IsAuxiliary(c) \/ c.path \in Seen(s))
    <2>1. f = Append(found[s], c) /\ c.path \notin exclude[s] BY <1>4 DEF Added, Seen
    <2>2. f \in Seq(ToSet(f)) /\ ToSet(f) = ToSet(found[s]) \cup {c}
      BY <1>1, <2>1, Appended
    <2> QED BY <1>2, <2>1, <2>2
  <1> QED BY <1>3, <1>4

LEMMA TreeLength == DiscoveryConstants => Len(Tree) \in Nat /\ DOMAIN Tree = 1 .. Len(Tree)
  <1> DEFINE S == ToSet(Tree)
  <1> SUFFICES ASSUME Tree \in Seq(S) PROVE Len(Tree) \in Nat /\ DOMAIN Tree = 1 .. Len(Tree)
    BY DEF DiscoveryConstants
  <1> HIDE DEF S
  <1> QED OBVIOUS

\* A scan leaves _discovered alone until it ends.
LEMMA WalkKept ==
    ASSUME DiscoveryConstants, DiscoveryInv, NEW s \in Scans,
           StartScan(s) \/ WalkDirectory(s) \/ WalkFile(s) \/ ScanFails(s)
    PROVE  DiscoveryInv' /\ UNCHANGED <<discovered, writing>>
  <1>0. Len(Tree) \in Nat BY TreeLength
  <1>1. /\ IsOver(files, Scans) /\ IsOver(exclude, Scans) /\ IsOver(found, Scans)
        /\ step \in [Scans -> 0 .. Len(Tree) + 1]
        /\ \A t \in Scans : found[t] \in Seq(ToSet(found[t]))
        /\ \A c \in ToSet(found[s]) : c.path \notin exclude[s]
        /\ step[s] # 0 => RegisteredPaths \subseteq exclude[s] \cup raced
        /\ ~Walking(s) => files[s] = {} /\ found[s] = <<>> /\ exclude[s] = {}
    BY DEF DiscoveryInv, Shape, NewFound, Known, Walking
  <1>2. [files EXCEPT ![s] = files[s]] = files /\ [exclude EXCEPT ![s] = exclude[s]] = exclude
        /\ [found EXCEPT ![s] = found[s]] = found /\ [step EXCEPT ![s] = step[s]] = step
    BY <1>1 DEF IsOver
  <1>3. UNCHANGED <<discovered, writing, diskVars, config, edits, raced>>
    BY DEF StartScan, WalkDirectory, WalkFile, ScanFails
  <1>4. NotDuplicated' BY <1>3 DEF DiscoveryInv, NotDuplicated
  <1>5. CASE StartScan(s)
    <2>1. /\ step' = [step EXCEPT ![s] = 1] /\ files' = [files EXCEPT ![s] = files[s]]
          /\ exclude' = [exclude EXCEPT ![s] = RegisteredPaths]
          /\ found' = [found EXCEPT ![s] = found[s]] /\ found[s] = <<>>
      BY <1>1, <1>2, <1>5 DEF StartScan
    <2>2. \A c \in ToSet(found[s]) : c.path \notin RegisteredPaths BY <2>1 DEF ToSet
    <2> DEFINE n == 1
               f == found[s]
    <2>3. n \in 0 .. Len(Tree) + 1 /\ n # 0 /\ step' = [step EXCEPT ![s] = n] BY <1>0, <2>1
    <2>4. f \in Seq(ToSet(f)) /\ found' = [found EXCEPT ![s] = f]
          /\ \A c \in ToSet(f) : c.path \notin RegisteredPaths
      BY <1>1, <2>1, <2>2
    <2> HIDE DEF n, f
    <2>5. DiscoveryInv' BY <1>3, <1>4, <2>1, <2>3, <2>4, ScanKept
    <2> QED BY <1>3, <2>5
  <1>6. CASE WalkDirectory(s)
    <2> DEFINE d == Tree[step[s]]
               f == IF IsHf(d) THEN Added(s, ScanHf(d)) ELSE found[s]
    <2>1. /\ step' = [step EXCEPT ![s] = step[s] + 1] /\ files' = [files EXCEPT ![s] = Present(d)]
          /\ exclude' = [exclude EXCEPT ![s] = exclude[s]]
          /\ found' = [found EXCEPT ![s] = f] /\ step[s] <= Len(Tree) /\ step[s] # 0
      BY <1>2, <1>6 DEF WalkDirectory, Walking
    <2>2. f \in Seq(ToSet(f)) /\ \A c \in ToSet(f) : c.path \notin exclude[s]
      BY <1>1, AddedOnce
    <2>3. step[s] + 1 \in 0 .. Len(Tree) + 1 /\ step[s] + 1 # 0 BY <1>0, <1>1, <2>1
    <2> DEFINE n == step[s] + 1
               l == Present(d)
    <2>4. n \in 0 .. Len(Tree) + 1 /\ n # 0 /\ RegisteredPaths \subseteq exclude[s] \cup raced
          /\ step' = [step EXCEPT ![s] = n] /\ files' = [files EXCEPT ![s] = l]
      BY <1>1, <2>1, <2>3
    <2> HIDE DEF d, f, n, l
    <2>5. DiscoveryInv' BY <1>3, <1>4, <2>1, <2>2, <2>4, ScanKept
    <2> QED BY <1>3, <2>5
  <1>7. CASE WalkFile(s)
    <2>1. PICK i \in files[s] : /\ found' = [found EXCEPT ![s] = Added(s, ScanGguf(Listing(s)[i]))]
                                /\ files' = [files EXCEPT ![s] = files[s] \ {i}]
      BY <1>7 DEF WalkFile
    <2>2. step' = [step EXCEPT ![s] = step[s]] /\ exclude' = [exclude EXCEPT ![s] = exclude[s]]
      BY <1>2, <1>7 DEF WalkFile
    <2> DEFINE f == Added(s, ScanGguf(Listing(s)[i]))
    <2>3. f \in Seq(ToSet(f)) /\ \A c \in ToSet(f) : c.path \notin exclude[s] BY AddedOnce
    <2>4. step[s] # 0 BY <1>1, <2>1 DEF Walking
    <2>5. found' = [found EXCEPT ![s] = f] BY <2>1
    <2> HIDE DEF f
    <2>6. DiscoveryInv' BY <1>1, <1>3, <1>4, <2>1, <2>2, <2>3, <2>4, <2>5, ScanKept
    <2> QED BY <1>3, <2>6
  <1>8. CASE ScanFails(s)
    <2>1. Reset(s) BY <1>8 DEF ScanFails
    <2>2. 0 \in 0 .. Len(Tree) + 1 /\ <<>> \in Seq(ToSet(<<>>)) BY <1>0
    <2>3. \A c \in ToSet(<<>>) : c.path \notin {} OBVIOUS
    <2>4. DiscoveryInv' BY <1>3, <1>4, <2>1, <2>2, <2>3, ScanKept DEF Reset
    <2> QED BY <1>3, <2>4
  <1> QED BY <1>5, <1>6, <1>7, <1>8

\* The candidates of a scan that ends replace all others, none of them known to
\* be configured.
LEMMA PublishKept ==
    ASSUME DiscoveryConstants, DiscoveryInv, NEW s \in Scans, Publish(s)
    PROVE  DiscoveryInv' /\ UNCHANGED writing /\ Finished(s) /\ step'[s] = 0
  <1>0. Len(Tree) \in Nat BY TreeLength
  <1>1. Reset(s) /\ UNCHANGED <<diskVars, config, writing, edits, raced>> /\ Finished(s)
        /\ discovered' = ToSet(found[s])
    BY DEF Publish
  <1>2. step[s] # 0 BY <1>0, <1>1 DEF Finished
  <1>3. RegisteredPaths \subseteq exclude[s] \cup raced
    BY <1>2 DEF DiscoveryInv, Known, Walking
  <1>4. NotDuplicated'
    <2> SUFFICES ASSUME NEW c \in discovered', NEW e \in ToSet(config), e.decodable, e.path = c.path
                 PROVE  c.path \in raced
      BY <1>1 DEF NotDuplicated
    <2>1. c.path \in RegisteredPaths BY DEF RegisteredPaths, Entries
    <2>2. c.path \notin exclude[s] BY <1>1 DEF DiscoveryInv, NewFound
    <2> QED BY <1>3, <2>1, <2>2
  <1>5. 0 \in 0 .. Len(Tree) + 1 /\ <<>> \in Seq(ToSet(<<>>)) BY <1>0
  <1>6. \A c \in ToSet(<<>>) : c.path \notin {} BY DEF ToSet
  <1>7. DiscoveryInv' BY <1>1, <1>4, <1>5, <1>6, ScanKept DEF Reset
  <1>8. step'[s] = 0 BY <1>1 DEF Reset, DiscoveryInv, Shape
  <1> QED BY <1>1, <1>7, <1>8

\* What others do to the directories is no step of the console.
LEMMA DiskKept ==
    ASSUME DiscoveryConstants, DiscoveryInv, Vanish \/ Spoil
    PROVE  DiscoveryInv' /\ UNCHANGED <<discovered, writing>>
  <1>1. /\ UNCHANGED <<step, files, exclude, found, discovered, config, writing, edits, raced>>
        /\ Cardinality(gone) + Cardinality(odd) < MaxGone
    BY DEF Vanish, Spoil, scanVars
  <1>2. PICK p : \/ gone' = gone \cup {p} /\ odd' = odd
                 \/ odd' = odd \cup {p} /\ gone' = gone
    BY DEF Vanish, Spoil
  <1>3. /\ IsFiniteSet(gone) /\ Cardinality(gone) \in Nat
        /\ IsFiniteSet(odd) /\ Cardinality(odd) \in Nat
    BY FS_CardinalityType DEF DiscoveryInv, Shape
  <1>4. MaxGone \in Nat BY DEF DiscoveryConstants
  <1>5. IsFiniteSet(gone') /\ IsFiniteSet(odd')
        /\ Cardinality(gone') + Cardinality(odd') <= MaxGone
    <2>1. \A S : IsFiniteSet(S) =>
             /\ IsFiniteSet(S \cup {p})
             /\ Cardinality(S \cup {p}) = IF p \in S THEN Cardinality(S) ELSE Cardinality(S) + 1
      BY FS_AddElement
    <2>2. /\ IsFiniteSet(gone \cup {p}) /\ IsFiniteSet(odd \cup {p})
          /\ Cardinality(gone \cup {p}) \in {Cardinality(gone), Cardinality(gone) + 1}
          /\ Cardinality(odd \cup {p}) \in {Cardinality(odd), Cardinality(odd) + 1}
      BY <1>3, <2>1
    <2>3. CASE gone' = gone \cup {p} /\ odd' = odd BY <1>1, <1>3, <1>4, <2>2, <2>3
    <2>4. CASE odd' = odd \cup {p} /\ gone' = gone BY <1>1, <1>3, <1>4, <2>2, <2>4
    <2> QED BY <1>2, <2>3, <2>4
  <1>6. Shape' BY <1>1, <1>5 DEF DiscoveryInv, Shape, Walking
  <1>7. RegisteredPaths' = RegisteredPaths BY <1>1 DEF RegisteredPaths, Entries, Pending
  <1>8. OneWrites' BY <1>1 DEF DiscoveryInv, OneWrites
  <1>9. Known' BY <1>1, <1>7 DEF DiscoveryInv, Known, Walking
  <1>10. NewFound' /\ NotDuplicated' BY <1>1 DEF DiscoveryInv, NewFound, NotDuplicated
  <1> QED BY <1>1, <1>6, <1>8, <1>9, <1>10 DEF DiscoveryInv

\* A registration writes a candidate that is not configured, as far as a scan
\* could know, and keeps it among the candidates.
LEMMA RegisterKept ==
    ASSUME DiscoveryConstants, DiscoveryInv, NEW r \in Registrations, Register(r)
    PROVE  DiscoveryInv' /\ UNCHANGED discovered
  <1>1. PICK c \in discovered : /\ MayRegister(c) /\ Miss(c)
                                /\ writing' = [writing EXCEPT ![r] = <<c>>]
    BY DEF Register
  <1>2. UNCHANGED <<step, files, exclude, found, diskVars, discovered, config, edits>>
    BY DEF Register, scanVars
  <1>3. IsOver(writing, Registrations)
        /\ \A q \in Registrations : writing[q] = <<>> \/ writing[q] = <<writing[q][1]>>
    BY DEF DiscoveryInv, OneWrites, Idle
  <1>4. \A q \in Registrations : writing[q] = <<>>
    <2> SUFFICES ASSUME NEW q \in Registrations, writing[q] # <<>> PROVE FALSE OBVIOUS
    <2>1. writing[q] = <<writing[q][1]>> BY <1>3
    <2>2. \A x : x \in ToSet(<<x>>)
      <3> SUFFICES ASSUME NEW x PROVE x \in ToSet(<<x>>) OBVIOUS
      <3>1. 1 \in DOMAIN <<x>> /\ <<x>>[1] = x OBVIOUS
      <3> QED BY <3>1 DEF ToSet
    <2>3. writing[q][1] \in ToSet(writing[q]) BY <2>1, <2>2
    <2>4. writing[q][1] \in Pending BY <2>3 DEF Pending
    <2> QED BY <1>1, <2>4 DEF MayRegister
  <1>5. writing' = [q \in Registrations |-> IF q = r THEN <<c>> ELSE <<>>]
    BY <1>1, <1>3, <1>4 DEF IsOver
  <1>6. OneWrites'
    <2>1. \A q \in Registrations : writing'[q] = <<>> \/ writing'[q] = <<writing'[q][1]>>
      <3>1. <<c>> = << <<c>>[1] >> OBVIOUS
      <3> QED BY <1>5, <3>1
    <2>2. \A q \in Registrations : writing'[q] # <<>> => q = r BY <1>5
    <2>3. IsOver(writing', Registrations) BY <1>5 DEF IsOver
    <2> QED BY <2>1, <2>2, <2>3 DEF OneWrites, Idle
  <1>7. raced \subseteq raced' /\ ((\E s \in Scans : Walking(s)) => c.path \in raced')
    BY <1>1 DEF Miss
  <1>8. \A p \in RegisteredPaths' : p \in RegisteredPaths \/ p = c.path
    <2>1. RegisteredPaths' = RegisteredIn(config, writing')
      BY <1>2 DEF RegisteredPaths, RegisteredIn, Entries, Pending
    <2>2. \A q \in Registrations : writing'[q] = <<>> \/ writing'[q] = <<writing'[q][1]>>
      BY <1>6 DEF OneWrites, Idle
    <2>3. \A p \in RegisteredPaths' :
             \/ \E e \in ToSet(config) : e.decodable /\ e.path = p
             \/ \E q \in Registrations : writing'[q] # <<>> /\ writing'[q][1].path = p
      BY <2>1, <2>2, RegisteredMeans
    <2>4. \A q \in Registrations : writing'[q] # <<>> => writing'[q][1] = c BY <1>5
    <2>5. \A e \in ToSet(config) : e.decodable => e.path \in RegisteredPaths
      BY DEF RegisteredPaths, Entries
    <2> QED BY <2>3, <2>4, <2>5
  <1>9. \A s \in Scans : Walking(s) => RegisteredPaths' \subseteq RegisteredPaths \cup raced'
    BY <1>7, <1>8
  <1>10. NotDuplicated' BY <1>2, <1>7 DEF DiscoveryInv, NotDuplicated
  <1>11. config' \in Seq(ToSet(config')) /\ edits' \in 0 .. MaxEdits
    BY <1>2 DEF DiscoveryInv, Shape
  <1>12. DiscoveryInv' BY <1>2, <1>6, <1>7, <1>9, <1>10, <1>11, ConfigKept
  <1> QED BY <1>2, <1>12

\* A registration that ends: its entry stays in the file, when new is <<e>> with
\* the entry e, or not.
LEMMA EndKept ==
    ASSUME DiscoveryInv, NEW r \in Registrations, Ends(r),
           config' \in {config, Append(config, Entry(writing[r][1], TRUE))},
           UNCHANGED <<step, files, exclude, found, diskVars, edits>>,
           raced \subseteq raced', discovered' \subseteq discovered,
           \/ config' = config
           \/ writing[r][1].path \in raced'
           \/ \A d \in discovered' : d.path # writing[r][1].path
    PROVE  DiscoveryInv'
  <1> DEFINE w == writing[r][1]
  <1>1. /\ writing[r] # <<>> /\ writing' = [writing EXCEPT ![r] = <<>>]
        /\ IsOver(writing, Registrations)
    BY DEF Ends, Idle, DiscoveryInv, OneWrites
  <1>2. /\ IsOver(writing', Registrations) /\ writing'[r] = <<>>
        /\ \A q \in Registrations \ {r} : writing'[q] = writing[q]
    BY <1>1 DEF IsOver
  <1>3. OneWrites' BY <1>2 DEF DiscoveryInv, OneWrites, Idle
  <1>4. config \in Seq(ToSet(config)) BY DEF DiscoveryInv, Shape
  <1>5. Entry(w, TRUE).path = w.path BY DEF Entry
  <1>6. /\ config' \in Seq(ToSet(config'))
        /\ \A e \in ToSet(config') : e \in ToSet(config) \/ (e = Entry(w, TRUE) /\ config' # config)
        /\ config' # config => Entry(w, TRUE) \in ToSet(config')
    <2>1. CASE config' = config BY <1>4, <2>1
    <2>2. CASE config' # config
      <3>1. config' = Append(config, Entry(w, TRUE)) BY <2>2
      <3> HIDE DEF w
      <3>2. config' \in Seq(ToSet(config')) /\ ToSet(config') = ToSet(config) \cup {Entry(w, TRUE)}
        BY <1>4, <3>1, Appended
      <3> QED BY <2>2, <3>2
    <2> QED BY <2>1, <2>2
  <1>7. RegisteredPaths' \subseteq RegisteredPaths
    <2>1. \A q \in Registrations : writing[q] = <<>> \/ writing[q] = <<writing[q][1]>>
      BY DEF DiscoveryInv, OneWrites, Idle
    <2>2. \A q \in Registrations : writing'[q] = <<>> \/ writing'[q] = <<writing'[q][1]>>
      BY <1>3 DEF OneWrites, Idle
    <2>3. RegisteredPaths' = RegisteredIn(config', writing')
      BY DEF RegisteredPaths, RegisteredIn, Entries, Pending
    <2> SUFFICES ASSUME NEW p \in RegisteredPaths' PROVE p \in RegisteredPaths OBVIOUS
    <2>4. \/ \E e \in ToSet(config') : e.decodable /\ e.path = p
          \/ \E q \in Registrations : writing'[q] # <<>> /\ writing'[q][1].path = p
      BY <2>2, <2>3, RegisteredMeans
    <2>5. \/ \E e \in ToSet(config) : e.decodable /\ e.path = p
          \/ \E q \in Registrations : writing[q] # <<>> /\ writing[q][1].path = p
      <3>1. CASE \E q \in Registrations : writing'[q] # <<>> /\ writing'[q][1].path = p
        BY <1>2, <3>1
      <3>2. CASE \E e \in ToSet(config') : e.decodable /\ e.path = p
        <4>1. PICK e \in ToSet(config') : e.decodable /\ e.path = p BY <3>2
        <4>2. e \in ToSet(config) \/ w.path = p BY <1>5, <1>6, <4>1
        <4> QED BY <1>1, <4>1, <4>2
      <3> QED BY <2>4, <3>1, <3>2
    <2> QED BY <2>1, <2>5, RegisteredNow, RegisteredMeans
  <1>8. NotDuplicated'
    <2> SUFFICES ASSUME NEW c \in discovered', NEW e \in ToSet(config'), e.decodable, e.path = c.path
                 PROVE  c.path \in raced'
      BY DEF NotDuplicated
    <2>1. CASE e \in ToSet(config) BY <2>1 DEF DiscoveryInv, NotDuplicated
    <2>2. CASE e = Entry(w, TRUE) /\ config' # config BY <1>5, <2>2
    <2> QED BY <1>6, <2>1, <2>2
  <1>9. edits' \in 0 .. MaxEdits BY DEF DiscoveryInv, Shape
  <1> HIDE DEF w
  <1> QED BY <1>3, <1>6, <1>7, <1>8, <1>9, ConfigKept

LEMMA EditKept ==
    ASSUME DiscoveryConstants, DiscoveryInv, Edit
    PROVE  DiscoveryInv' /\ UNCHANGED <<discovered, writing>>
  <1>1. UNCHANGED <<step, files, exclude, found, diskVars, discovered, writing>>
    BY DEF Edit, scanVars
  <1>2. edits' \in 0 .. MaxEdits
    BY DEF Edit, DiscoveryInv, Shape, DiscoveryConstants
  <1>3. config \in Seq(ToSet(config)) BY DEF DiscoveryInv, Shape
  <1>4. OneWrites' BY <1>1 DEF DiscoveryInv, OneWrites
  <1>5. ASSUME raced \subseteq raced', config' \in Seq(ToSet(config')),
               \A e \in ToSet(config') : e \in ToSet(config) \/ e.path \in raced'
        PROVE  DiscoveryInv'
    <2>1. RegisteredPaths' \subseteq RegisteredPaths \cup raced'
      BY <1>1, <1>5 DEF RegisteredPaths, Entries, Pending
    <2>2. NotDuplicated' BY <1>1, <1>5 DEF DiscoveryInv, NotDuplicated
    <2> QED BY <1>1, <1>2, <1>4, <1>5, <2>1, <2>2, ConfigKept
  <1>6. ASSUME NEW c \in discovered, NEW decodable \in BOOLEAN,
               config' = Append(config, Entry(c, decodable)), raced' = raced \cup {c.path}
        PROVE  DiscoveryInv'
    <2>1. Entry(c, decodable).path = c.path BY DEF Entry
    <2> HIDE DEF Entry
    <2>2. config' \in Seq(ToSet(config')) /\ ToSet(config') = ToSet(config) \cup {Entry(c, decodable)}
      BY <1>3, <1>6, Appended
    <2>3. \A e \in ToSet(config') : e \in ToSet(config) \/ e.path \in raced'
      BY <1>6, <2>1, <2>2
    <2>4. raced \subseteq raced' BY <1>6
    <2> QED BY <1>5, <2>2, <2>3, <2>4
  <1>7. ASSUME NEW i \in DOMAIN config, config' = RemoveAt(config, i), UNCHANGED raced
        PROVE  DiscoveryInv'
    <2>1. config' \in Seq(ToSet(config')) /\ ToSet(config') \subseteq ToSet(config)
      BY <1>3, <1>7, Removed
    <2> QED BY <1>5, <1>7, <2>1
  <1> QED BY <1>1, <1>6, <1>7 DEF Edit

-----------------------------------------------------------------------------
(* The invariant, and what every step shows. *)

\* CandidateKept, as a relation of a state and the next.
KeepsCandidates ==
    \A c \in discovered : c \notin discovered'
        => \/ \E s \in Scans : Finished(s) /\ step'[s] = 0
           \/ \E e \in ToSet(config') : e.path = c.path

LEMMA NextDiscovery ==
    ASSUME DiscoveryConstants, DiscoveryInv, DiscoveryNext
    PROVE  DiscoveryInv' /\ KeepsCandidates
  <1> DEFINE Fine == DiscoveryInv' /\ KeepsCandidates
  <1>a. UNCHANGED discovered => KeepsCandidates BY DEF KeepsCandidates
  <1>1. ASSUME NEW s \in Scans, StartScan(s) \/ WalkDirectory(s) \/ WalkFile(s) \/ ScanFails(s)
        PROVE  Fine
    BY <1>1, <1>a, WalkKept
  <1>2. ASSUME NEW s \in Scans, Publish(s) PROVE Fine
    <2>1. DiscoveryInv' /\ UNCHANGED writing /\ Finished(s) /\ step'[s] = 0
      BY <1>2, PublishKept
    <2>2. KeepsCandidates BY <2>1 DEF KeepsCandidates
    <2> QED BY <2>1, <2>2
  <1>3. ASSUME NEW r \in Registrations, Register(r) PROVE Fine
    <2>1. DiscoveryInv' /\ UNCHANGED discovered BY <1>3, RegisterKept
    <2> QED BY <1>a, <2>1
  <1>4. ASSUME NEW r \in Registrations, Confirm(r) \/ Restore(r) \/ RestoreFails(r)
        PROVE  Fine
    <2> DEFINE path == writing[r][1].path
    <2>1. /\ Ends(r) /\ UNCHANGED <<step, files, exclude, found, diskVars, edits>>
          /\ config' \in {config, Append(config, Entry(writing[r][1], TRUE))}
      BY <1>4 DEF Confirm, Restore, RestoreFails, scanVars
    <2>2. raced \subseteq raced' /\ discovered' \subseteq discovered
      BY <1>4 DEF Confirm, Restore, RestoreFails
    <2>3. \/ config' = config
          \/ path \in raced'
          \/ \A d \in discovered' : d.path # path
      BY <1>4 DEF Confirm, Restore, RestoreFails
    <2>4. DiscoveryInv' BY <2>1, <2>2, <2>3, EndKept
    <2>5. KeepsCandidates
      <3>1. CASE Confirm(r)
        <4>1. config' = Append(config, Entry(writing[r][1], TRUE))
              /\ \A c \in discovered : c \notin discovered' => c.path = path
          BY <3>1 DEF Confirm
        <4>2. config \in Seq(ToSet(config)) BY DEF DiscoveryInv, Shape
        <4> DEFINE e == Entry(writing[r][1], TRUE)
        <4>3. e.path = path BY DEF Entry
        <4> HIDE DEF e
        <4>4. config' = Append(config, e) BY <4>1 DEF e
        <4>5. ToSet(Append(config, e)) = ToSet(config) \cup {e} BY <4>2, Appended
        <4>6. e \in ToSet(config') BY <4>4, <4>5
        <4> QED BY <4>1, <4>3, <4>6 DEF KeepsCandidates
      <3>2. CASE Restore(r) \/ RestoreFails(r)
        BY <1>a, <3>2 DEF Restore, RestoreFails
      <3> QED BY <1>4, <3>1, <3>2
    <2> QED BY <2>4, <2>5
  <1>5. ASSUME Vanish \/ Spoil PROVE Fine BY <1>5, <1>a, DiskKept
  <1>6. ASSUME Edit PROVE Fine BY <1>6, <1>a, EditKept
  <1> HIDE DEF Fine
  <1>7. Fine BY <1>1, <1>2, <1>3, <1>4, <1>5, <1>6 DEF DiscoveryNext
  <1> QED BY <1>7 DEF Fine

LEMMA DiscoveryStutter ==
    ASSUME DiscoveryInv, UNCHANGED discoveryVars
    PROVE  DiscoveryInv'
  <1>1. UNCHANGED <<step, files, exclude, found, steady, gone, odd, discovered, config,
                    writing, edits, raced>>
    BY DEF discoveryVars, scanVars, diskVars
  <1>2. RegisteredPaths' = RegisteredPaths BY <1>1 DEF RegisteredPaths, Entries, Pending
  <1>3. Shape' BY <1>1 DEF DiscoveryInv, Shape, Walking
  <1>4. OneWrites' BY <1>1 DEF DiscoveryInv, OneWrites
  <1>5. Known' BY <1>1, <1>2 DEF DiscoveryInv, Known, Walking
  <1>6. NewFound' /\ NotDuplicated' BY <1>1 DEF DiscoveryInv, NewFound, NotDuplicated
  <1> QED BY <1>3, <1>4, <1>5, <1>6 DEF DiscoveryInv

LEMMA InitDiscovery ==
    ASSUME DiscoveryConstants, DiscoveryInit
    PROVE  DiscoveryInv
  <1>0. Len(Tree) \in Nat BY TreeLength
  <1>1. /\ step \in [Scans -> 0 .. Len(Tree) + 1]
        /\ \A s \in Scans : step[s] = 0 /\ files[s] = {} /\ exclude[s] = {} /\ found[s] = <<>>
        /\ IsOver(files, Scans) /\ IsOver(exclude, Scans) /\ IsOver(found, Scans)
    BY <1>0 DEF DiscoveryInit, IsOver
  <1>2. <<>> \in Seq(ToSet(<<>>)) OBVIOUS
  <1>3. \A s \in Scans : found[s] \in Seq(ToSet(found[s])) BY <1>1, <1>2
  <1>4. config \in Seq(ToSet(config)) BY DEF DiscoveryInit, DiscoveryConstants
  <1>5. edits \in 0 .. MaxEdits BY DEF DiscoveryInit, DiscoveryConstants
  <1>6. IsFiniteSet(gone) /\ IsFiniteSet(odd) /\ Cardinality(gone) + Cardinality(odd) <= MaxGone
    BY FS_EmptySet DEF DiscoveryInit, DiscoveryConstants
  <1>7. Shape BY <1>1, <1>3, <1>4, <1>5, <1>6 DEF Shape
  <1>8. OneWrites BY DEF DiscoveryInit, OneWrites, IsOver, Idle
  <1>9. Known BY <1>1 DEF Known, Walking
  <1>10. NewFound BY <1>1 DEF NewFound, ToSet
  <1>11. NotDuplicated BY DEF DiscoveryInit, NotDuplicated
  <1> QED BY <1>7, <1>8, <1>9, <1>10, <1>11 DEF DiscoveryInv

LEMMA DiscoveryInvariant == DiscoverySpec => []DiscoveryInv
  <1>1. DiscoveryInit => DiscoveryInv BY InitDiscovery, DiscoveryConstants
  <1>2. DiscoveryInv /\ [DiscoveryNext]_discoveryVars => DiscoveryInv'
    BY NextDiscovery, DiscoveryStutter, DiscoveryConstants
  <1> QED BY <1>1, <1>2, PTL DEF DiscoverySpec

\* What the variables hold, as DiscoveryTypeOK says it: no helper gets in.
Held ==
    /\ \A s \in Scans : files[s] # {} => step[s] >= 2 /\ files[s] \subseteq DOMAIN Listing(s)
    /\ found \in [Scans -> Seq(Candidates)]
    /\ exclude \in [Scans -> SUBSET KnownPaths]
    /\ steady \in [Scans -> BOOLEAN]
    /\ discovered \subseteq Candidates
    /\ config \in Seq(KnownEntries)
    /\ writing \in [Registrations -> {Idle} \cup {<<c>> : c \in {x \in Candidates : x.complete}}]
    /\ raced \subseteq KnownPaths

\* Only a main model is added, and only one of a directory of the tree.
LEMMA AddedHeld ==
    ASSUME Held, NEW s \in Scans, NEW c, IsAuxiliary(c) \/ c \in Candidates
    PROVE  Added(s, c) \in Seq(Candidates)
  <1>1. found[s] \in Seq(Candidates) BY DEF Held
  <1>2. CASE IsAuxiliary(c) \/ c.path \in Seen(s) BY <1>1, <1>2 DEF Added
  <1>3. CASE ~(IsAuxiliary(c) \/ c.path \in Seen(s))
    <2>1. Added(s, c) = Append(found[s], c) /\ c \in Candidates BY <1>3 DEF Added
    <2> HIDE DEF Candidates
    <2> QED BY <1>1, <2>1
  <1> QED BY <1>2, <1>3

LEMMA TreeCandidates ==
    ASSUME NEW k \in DOMAIN Tree
    PROVE  /\ IsAuxiliary(ScanHf(Tree[k])) \/ ScanHf(Tree[k]) \in Candidates
           /\ \A i \in DOMAIN Tree[k].ggufs :
                 \/ IsAuxiliary(ScanGguf(Tree[k].ggufs[i]))
                 \/ ScanGguf(Tree[k].ggufs[i]) \in Candidates
  <1> DEFINE d == Tree[k]
             ggufs == UNION {ToSet(x.ggufs) : x \in ToSet(Tree)}
             all == {ScanGguf(f) : f \in ggufs} \cup {ScanHf(x) : x \in ToSet(Tree)}
  <1>1. d \in ToSet(Tree) BY DEF ToSet
  <1>2. \A i \in DOMAIN d.ggufs : d.ggufs[i] \in ToSet(d.ggufs) BY DEF ToSet
  <1>3. Candidates = {c \in all : ~IsAuxiliary(c)} BY DEF Candidates
  <1> HIDE DEF d
  <1>4. \A i \in DOMAIN d.ggufs : d.ggufs[i] \in ggufs BY <1>1, <1>2
  <1> HIDE DEF ggufs
  <1>5. ScanHf(d) \in all /\ \A i \in DOMAIN d.ggufs : ScanGguf(d.ggufs[i]) \in all
    BY <1>1, <1>4
  <1> HIDE DEF all
  <1>6. ScanHf(d) \in all => IsAuxiliary(ScanHf(d)) \/ ScanHf(d) \in Candidates BY <1>3
  <1>7. ASSUME NEW i \in DOMAIN d.ggufs
        PROVE  IsAuxiliary(ScanGguf(d.ggufs[i])) \/ ScanGguf(d.ggufs[i]) \in Candidates
    BY <1>3, <1>5
  <1> QED BY <1>5, <1>6, <1>7 DEF d

\* The paths of what is configured are known ones.
LEMMA RegisteredKnown == Held => RegisteredPaths \subseteq KnownPaths
  <1> SUFFICES ASSUME Held, NEW p \in RegisteredPaths PROVE p \in KnownPaths OBVIOUS
  <1>1. \A e \in KnownEntries : e.path \in KnownPaths
    <2>1. \A c, decodable : Entry(c, decodable).path = c.path BY DEF Entry
    <2> HIDE DEF Candidates, Entry
    <2> QED BY <2>1 DEF KnownEntries, KnownPaths
  <1>2. \A q \in Registrations : writing[q] = <<>> \/ writing[q] = <<writing[q][1]>>
    <2> SUFFICES ASSUME NEW q \in Registrations PROVE writing[q] = <<>> \/ writing[q] = <<writing[q][1]>>
      OBVIOUS
    <2>1. writing[q] = <<>> \/ \E c : writing[q] = <<c>> BY DEF Held, Idle
    <2>2. \A c : <<c>>[1] = c OBVIOUS
    <2> QED BY <2>1, <2>2
  <1>3. \A q \in Registrations : writing[q] # <<>> => writing[q][1] \in Candidates
    <2> SUFFICES ASSUME NEW q \in Registrations, writing[q] # <<>> PROVE writing[q][1] \in Candidates
      OBVIOUS
    <2>1. PICK c \in Candidates : writing[q] = <<c>> BY DEF Held, Idle
    <2>2. <<c>>[1] = c OBVIOUS
    <2> QED BY <2>1, <2>2
  <1>4. \/ \E e \in ToSet(config) : e.decodable /\ e.path = p
        \/ \E q \in Registrations : writing[q] # <<>> /\ writing[q][1].path = p
    BY <1>2, RegisteredNow, RegisteredMeans
  <1>5. ToSet(config) \subseteq KnownEntries
    <2>1. config \in Seq(KnownEntries) BY DEF Held
    <2> HIDE DEF KnownEntries
    <2>2. \A i \in DOMAIN config : config[i] \in KnownEntries BY <2>1
    <2> QED BY <2>2 DEF ToSet
  <1>6. \A c \in Candidates : c.path \in KnownPaths
    <2> HIDE DEF Candidates
    <2> QED BY DEF KnownPaths
  <1> QED BY <1>1, <1>3, <1>4, <1>5, <1>6

LEMMA ScanHeld ==
    ASSUME DiscoveryConstants, DiscoveryInv, Held, NEW s \in Scans,
           \/ StartScan(s) \/ WalkDirectory(s) \/ WalkFile(s)
           \/ ScanFails(s) \/ Publish(s)
    PROVE  Held'
  <1>0. Len(Tree) \in Nat /\ DOMAIN Tree = 1 .. Len(Tree) BY TreeLength
  <1>1. step \in [Scans -> 0 .. Len(Tree) + 1] BY DEF DiscoveryInv, Shape
  <1>2. UNCHANGED <<config, writing, raced>>
    BY DEF StartScan, WalkDirectory, WalkFile, ScanFails, Publish
  <1>3. config' \in Seq(KnownEntries) /\ raced' \subseteq KnownPaths
        /\ writing' \in [Registrations -> {Idle} \cup {<<c>> : c \in {x \in Candidates : x.complete}}]
    BY <1>2 DEF Held
  <1> DEFINE Placed ==
         \A t \in Scans : files[t] # {} => step[t] >= 2 /\ files[t] \subseteq DOMAIN Listing(t)
  <1>4. CASE StartScan(s)
    <2>1. /\ step' = [step EXCEPT ![s] = 1] /\ UNCHANGED <<files, found, steady, discovered>>
          /\ exclude' = [exclude EXCEPT ![s] = RegisteredPaths] /\ files[s] = {}
      BY <1>4 DEF StartScan, DiscoveryInv, Shape
    <2>2. exclude' \in [Scans -> SUBSET KnownPaths] BY <2>1, RegisteredKnown DEF Held
    <2>3. Placed' BY <1>1, <2>1 DEF Held, Listing
    <2> QED BY <1>3, <2>1, <2>2, <2>3 DEF Held
  <1>5. CASE WalkDirectory(s)
    <2> DEFINE d == Tree[step[s]]
               f == IF IsHf(d) THEN Added(s, ScanHf(d)) ELSE found[s]
    <2>1. /\ step' = [step EXCEPT ![s] = step[s] + 1] /\ UNCHANGED <<exclude, steady, discovered>>
          /\ found' = [found EXCEPT ![s] = f] /\ files' = [files EXCEPT ![s] = Present(d)]
          /\ step[s] \in 1 .. Len(Tree)
      BY <1>0, <1>1, <1>5 DEF WalkDirectory, Walking
    <2>2. f \in Seq(Candidates)
      BY <1>0, <2>1, TreeCandidates, AddedHeld DEF Held
    <2>3. found' \in [Scans -> Seq(Candidates)]
      <3> HIDE DEF f, Candidates
      <3> QED BY <2>1, <2>2 DEF Held
    <2>4. Placed'
      <3> SUFFICES ASSUME NEW t \in Scans, files'[t] # {}
                   PROVE  step'[t] >= 2 /\ files'[t] \subseteq DOMAIN Tree[step'[t] - 1].ggufs
        BY DEF Listing
      <3>1. CASE t # s
        <4>1. step'[t] = step[t] /\ files'[t] = files[t]
          BY <1>1, <2>1, <3>1 DEF DiscoveryInv, Shape, IsOver
        <4>2. step[t] >= 2 /\ files[t] \subseteq DOMAIN Tree[step[t] - 1].ggufs
          BY <4>1 DEF Held, Listing
        <4> QED BY <4>1, <4>2
      <3>2. CASE t = s
        <4>1. step'[t] = step[s] + 1 /\ files'[t] = Present(d)
          BY <1>1, <2>1, <3>2 DEF DiscoveryInv, Shape, IsOver
        <4>2. step'[t] >= 2 /\ step'[t] - 1 = step[s] BY <2>1, <4>1
        <4>3. Tree[step'[t] - 1] = d BY <4>2
        <4>4. Present(d) \subseteq DOMAIN d.ggufs BY DEF Present
        <4> HIDE DEF d
        <4> QED BY <4>1, <4>2, <4>3, <4>4
      <3> QED BY <3>1, <3>2
    <2> QED BY <1>3, <2>1, <2>3, <2>4 DEF Held
  <1>6. CASE WalkFile(s)
    <2>1. PICK i \in files[s] :
             /\ found' = [found EXCEPT ![s] = Added(s, ScanGguf(Listing(s)[i]))]
             /\ files' = [files EXCEPT ![s] = files[s] \ {i}]
      BY <1>6 DEF WalkFile
    <2>2. UNCHANGED <<step, exclude, steady, discovered>> BY <1>6 DEF WalkFile
    <2>3. step[s] - 1 \in DOMAIN Tree /\ i \in DOMAIN Tree[step[s] - 1].ggufs
      <3>1. step[s] >= 2 /\ i \in DOMAIN Listing(s) BY DEF Held
      <3>2. step[s] \in 0 .. Len(Tree) + 1 BY <1>1
      <3> QED BY <1>0, <3>1, <3>2 DEF Listing
    <2> DEFINE f == Added(s, ScanGguf(Listing(s)[i]))
    <2>4. f \in Seq(Candidates) BY <2>3, TreeCandidates, AddedHeld DEF Listing
    <2>5. found' \in [Scans -> Seq(Candidates)]
      <3>1. found' = [found EXCEPT ![s] = f] BY <2>1
      <3> HIDE DEF f, Candidates
      <3> QED BY <2>4, <3>1 DEF Held
    <2>6. Placed' BY <2>1, <2>2 DEF Held, Listing, DiscoveryInv, Shape, IsOver
    <2> QED BY <1>3, <2>2, <2>5, <2>6 DEF Held
  <1>7. CASE ScanFails(s) \/ Publish(s)
    <2>1. /\ step' = [step EXCEPT ![s] = 0] /\ files' = [files EXCEPT ![s] = {}]
          /\ exclude' = [exclude EXCEPT ![s] = {}] /\ found' = [found EXCEPT ![s] = <<>>]
          /\ steady' = [steady EXCEPT ![s] = TRUE]
      BY <1>7 DEF ScanFails, Publish, Reset
    <2>2. discovered' \subseteq Candidates
      <3>1. discovered' = discovered \/ discovered' = ToSet(found[s])
        BY <1>7 DEF ScanFails, Publish
      <3>2. found[s] \in Seq(Candidates) BY DEF Held
      <3>3. ToSet(found[s]) \subseteq Candidates
        <4> HIDE DEF Candidates
        <4>1. \A i \in DOMAIN found[s] : found[s][i] \in Candidates BY <3>2
        <4> QED BY <4>1 DEF ToSet
      <3> QED BY <3>1, <3>3 DEF Held
    <2>3. found' \in [Scans -> Seq(Candidates)]
      <3> HIDE DEF Candidates
      <3> QED BY <2>1 DEF Held
    <2>4. exclude' \in [Scans -> SUBSET KnownPaths] /\ steady' \in [Scans -> BOOLEAN]
      BY <2>1 DEF Held
    <2>5. Placed' BY <2>1 DEF Held, Listing, DiscoveryInv, Shape, IsOver
    <2> QED BY <1>3, <2>2, <2>3, <2>4, <2>5 DEF Held
  <1> QED BY <1>4, <1>5, <1>6, <1>7

LEMMA ServiceHeld ==
    ASSUME DiscoveryConstants, DiscoveryInv, Held,
           \/ \E r \in Registrations :
                 Register(r) \/ Confirm(r) \/ Restore(r) \/ RestoreFails(r)
           \/ Vanish \/ Spoil \/ Edit
    PROVE  Held'
  <1>1. UNCHANGED <<step, files, exclude, found>>
    BY DEF Register, Confirm, Restore, RestoreFails, Vanish, Spoil, Edit, scanVars
  <1>2. /\ \A s \in Scans : files'[s] # {} =>
              step'[s] >= 2 /\ files'[s] \subseteq DOMAIN Listing(s)'
        /\ found' \in [Scans -> Seq(Candidates)] /\ exclude' \in [Scans -> SUBSET KnownPaths]
    BY <1>1 DEF Held, Listing
  <1>3. steady' \in [Scans -> BOOLEAN] /\ discovered' \subseteq Candidates
    BY DEF Register, Confirm, Restore, RestoreFails, Vanish, Spoil, Edit, scanVars, Held, Walking
  <1>4. \A c \in Candidates : c.path \in KnownPaths
        /\ \A decodable \in BOOLEAN : Entry(c, decodable) \in KnownEntries
    <2> HIDE DEF Candidates
    <2> QED BY DEF KnownPaths, KnownEntries
  <1>5. \A r \in Registrations : writing[r] # Idle => writing[r][1] \in Candidates
    <2> SUFFICES ASSUME NEW r \in Registrations, writing[r] # Idle PROVE writing[r][1] \in Candidates
      OBVIOUS
    <2>1. PICK c \in Candidates : writing[r] = <<c>> BY DEF Held
    <2>2. <<c>>[1] = c OBVIOUS
    <2> QED BY <2>1, <2>2
  <1>6. raced' \subseteq KnownPaths
    <2>1. UNCHANGED raced \/ \E c \in Candidates : raced' = raced \cup {c.path}
      <3>1. \A c \in discovered : c \in Candidates BY DEF Held
      <3>2. ASSUME NEW r \in Registrations, Register(r) PROVE <2>1!:
        BY <3>1, <3>2 DEF Register, Miss
      <3>3. ASSUME NEW r \in Registrations, Confirm(r) \/ Restore(r) \/ RestoreFails(r)
            PROVE  <2>1!:
        BY <1>5, <3>3 DEF Confirm, Restore, RestoreFails, Ends
      <3>4. Edit => <2>1!: BY <3>1 DEF Edit
      <3>5. Vanish \/ Spoil => UNCHANGED raced BY DEF Vanish, Spoil
      <3> QED BY <3>2, <3>3, <3>4, <3>5
    <2>2. raced \subseteq KnownPaths BY DEF Held
    <2> HIDE DEF Candidates, KnownPaths
    <2> QED BY <1>4, <2>1, <2>2
  <1>7. config' \in Seq(KnownEntries)
    <2> DEFINE E == KnownEntries
    <2>1. config \in Seq(E) BY DEF Held
    <2>2. \/ UNCHANGED config
          \/ \E e \in E : config' = Append(config, e)
          \/ \E i \in DOMAIN config : config' = RemoveAt(config, i)
      BY <1>4, <1>5 DEF Register, Confirm, Restore, RestoreFails, Ends, Vanish, Spoil, Edit, Held
    <2> HIDE DEF E
    <2>3. \A e \in E : Append(config, e) \in Seq(E) BY <2>1
    <2>4. \A i \in DOMAIN config : RemoveAt(config, i) \in Seq(E) BY <2>1 DEF RemoveAt
    <2>5. config' \in Seq(E) BY <2>1, <2>2, <2>3, <2>4
    <2> QED BY <2>5 DEF E
  <1>8. writing' \in [Registrations -> {Idle} \cup {<<c>> : c \in {x \in Candidates : x.complete}}]
    <2> DEFINE W == {Idle} \cup {<<c>> : c \in {x \in Candidates : x.complete}}
    <2>1. \/ UNCHANGED writing
          \/ \E r \in Registrations, w \in W : writing' = [writing EXCEPT ![r] = w]
      BY DEF Register, Confirm, Restore, RestoreFails, Ends, Vanish, Spoil, Edit, MayRegister, Held
    <2>2. writing \in [Registrations -> W] BY DEF Held
    <2> HIDE DEF W
    <2>3. writing' \in [Registrations -> W] BY <2>1, <2>2
    <2> QED BY <2>3 DEF W
  <1> QED BY <1>2, <1>3, <1>6, <1>7, <1>8 DEF Held

LEMMA HeldInvariant == DiscoverySpec => []Held
  <1>1. DiscoveryInit => Held
    <2> SUFFICES ASSUME DiscoveryInit PROVE Held OBVIOUS
    <2>1. config \in Seq(KnownEntries)
      <3> DEFINE S == ToSet(Initial)
      <3>1. Initial \in Seq(S) /\ S \subseteq KnownEntries
        BY DiscoveryConstants DEF DiscoveryConstants, KnownEntries
      <3> HIDE DEF S, KnownEntries
      <3>2. Initial \in Seq(KnownEntries) BY <3>1
      <3> QED BY <3>2 DEF DiscoveryInit
    <2>2. found \in [Scans -> Seq(Candidates)]
      <3> HIDE DEF Candidates
      <3> QED BY DEF DiscoveryInit
    <2> QED BY <2>1, <2>2 DEF DiscoveryInit, Held
  <1>2. Held /\ UNCHANGED discoveryVars => Held'
    BY DEF Held, discoveryVars, scanVars, Listing
  <1>3. DiscoveryInv /\ Held /\ DiscoveryNext => Held'
    BY ScanHeld, ServiceHeld, DiscoveryConstants DEF DiscoveryNext
  <1> QED BY <1>1, <1>2, <1>3, DiscoveryInvariant, PTL DEF DiscoverySpec

\* One registration writes at a time.
LEMMA OnePending == DiscoveryInv => Cardinality(Pending) <= 1
  <1> SUFFICES ASSUME DiscoveryInv PROVE Cardinality(Pending) <= 1 OBVIOUS
  <1>1. \A x : ToSet(<<x>>) = {x}
    <2> SUFFICES ASSUME NEW x PROVE ToSet(<<x>>) = {x} OBVIOUS
    <2>1. DOMAIN <<x>> = {1} /\ <<x>>[1] = x OBVIOUS
    <2> QED BY <2>1 DEF ToSet
  <1>2. CASE \A r \in Registrations : writing[r] = <<>>
    <2>1. \A r \in Registrations : ToSet(writing[r]) = {} BY <1>2 DEF ToSet
    <2>2. Pending = {} BY <2>1 DEF Pending
    <2>3. Cardinality({}) = 0 BY FS_EmptySet
    <2> QED BY <2>2, <2>3
  <1>3. ASSUME NEW r \in Registrations, writing[r] # <<>> PROVE Cardinality(Pending) <= 1
    <2>1. \A q \in Registrations : q # r => writing[q] = <<>>
      BY <1>3 DEF DiscoveryInv, OneWrites, Idle
    <2>2. \A q \in Registrations : q # r => ToSet(writing[q]) = {} BY <2>1 DEF ToSet
    <2>3. ToSet(writing[r]) = {writing[r][1]}
      BY <1>1, <1>3 DEF DiscoveryInv, OneWrites, Idle
    <2>4. Pending = {writing[r][1]} BY <2>2, <2>3 DEF Pending
    <2>5. Cardinality({writing[r][1]}) = 1 BY FS_Singleton
    <2> QED BY <2>4, <2>5
  <1> QED BY <1>2, <1>3

\* Candidates are main models of the tree, never helpers; what is written is a
\* complete one, and one at a time; a scan that has ended keeps nothing
\* (ModelScanner._add; ModelService.register under the gate; ModelService.scan).
THEOREM DiscoveryTypeCorrect == DiscoverySpec => []DiscoveryTypeOK
  <1>1. DiscoveryInv /\ Held => DiscoveryTypeOK
    BY OnePending DEF DiscoveryInv, Shape, Held, DiscoveryTypeOK
  <1> QED BY <1>1, DiscoveryInvariant, HeldInvariant, PTL

\* No candidate is configured, but for what the scan that found it could not
\* know (ModelService.scan reads the configuration before the walk).
THEOREM NotDuplicatedHolds == DiscoverySpec => []NotDuplicated
  <1>1. DiscoveryInv => NotDuplicated BY DEF DiscoveryInv
  <1> QED BY <1>1, DiscoveryInvariant, PTL

\* A candidate goes only when another scan has ended or when it is configured
\* (_discovered.pop after the confirmation, not before).
THEOREM CandidateKeptHolds == DiscoverySpec => CandidateKept
  <1>1. DiscoveryInv /\ [DiscoveryNext]_discoveryVars => [KeepsCandidates]_discoveryVars
    BY NextDiscovery, DiscoveryConstants
  <1> QED BY <1>1, DiscoveryInvariant, PTL DEF DiscoverySpec, CandidateKept, KeepsCandidates

-----------------------------------------------------------------------------
(* What a scan of directories that nobody changes has found. *)

\* A GGUF file and a directory are helpers by what the scanner reads in them.
LEMMA MainGguf == \A f : IsAuxiliary(ScanGguf(f)) <=> ~IsMain(f)
  BY DEF IsAuxiliary, ScanGguf, IsMain

LEMMA MainHf == \A d : IsAuxiliary(ScanHf(d)) <=> d.config \in AuxiliaryArchitectures
  <1> SUFFICES ASSUME NEW d
               PROVE  IsAuxiliary(ScanHf(d)) <=> d.config \in AuxiliaryArchitectures
    OBVIOUS
  <1>1. "none" \notin AuxiliaryArchitectures /\ "bad" \notin AuxiliaryArchitectures
    BY DEF AuxiliaryArchitectures
  <1>2. /\ ScanHf(d).kind = "huggingface"
        /\ ScanHf(d).architecture = IF d.config = "bad" THEN "none" ELSE d.config
    BY DEF ScanHf
  <1> QED BY <1>1, <1>2 DEF IsAuxiliary

\* _add adds a main model's path, unless it is configured, and no path twice.
LEMMA AddedPath ==
    ASSUME NEW s, found[s] \in Seq(ToSet(found[s])), NEW c, NEW f, f = Added(s, c),
           \A i, j \in DOMAIN found[s] : found[s][i].path = found[s][j].path => i = j
    PROVE  /\ IsAuxiliary(c) => f = found[s]
           /\ ~IsAuxiliary(c) => Paths(f) = Paths(found[s]) \cup ({c.path} \ exclude[s])
           /\ \A i, j \in DOMAIN f : f[i].path = f[j].path => i = j
  <1>1. CASE IsAuxiliary(c) BY <1>1 DEF Added
  <1>2. CASE ~IsAuxiliary(c) /\ c.path \in Seen(s)
    <2>1. f = found[s] BY <1>2 DEF Added
    <2> QED BY <1>2, <2>1 DEF Seen
  <1>3. CASE ~IsAuxiliary(c) /\ c.path \notin Seen(s)
    <2> DEFINE old == found[s]
    <2>1. f = Append(old, c) BY <1>3 DEF Added
    <2>2. c.path \notin exclude[s] /\ \A d \in ToSet(old) : d.path # c.path
      BY <1>3 DEF Seen, Paths
    <2>3. old \in Seq(ToSet(old)) /\ \A i, j \in DOMAIN old : old[i].path = old[j].path => i = j
      OBVIOUS
    <2>4. Paths(old) = {d.path : d \in ToSet(old)} /\ Paths(f) = {d.path : d \in ToSet(f)}
      BY DEF Paths
    <2> HIDE DEF old
    <2>5. /\ ToSet(f) = ToSet(old) \cup {c}
          /\ Len(old) \in Nat /\ DOMAIN old = 1 .. Len(old)
          /\ DOMAIN f = 1 .. Len(old) + 1
          /\ \A i \in DOMAIN old : f[i] = old[i]
          /\ f[Len(old) + 1] = c
      BY <2>1, <2>3, Appended
    <2>6. Paths(f) = Paths(old) \cup {c.path} BY <2>4, <2>5
    <2>7. \A i \in DOMAIN f : i \in DOMAIN old \/ i = Len(old) + 1 BY <2>5
    <2>8. \A i \in DOMAIN old : f[i].path # c.path BY <2>2, <2>5 DEF ToSet
    <2>9. \A i, j \in DOMAIN f : f[i].path = f[j].path => i = j
      BY <2>3, <2>5, <2>7, <2>8
    <2> QED BY <1>3, <2>2, <2>6, <2>9 DEF old
  <1> QED BY <1>1, <1>2, <1>3

\* What is behind a scan grows by the directory that it enters.
LEMMA BehindGrows ==
    ASSUME NEW n \in Nat
    PROVE  UNION {HfPaths(Tree[k]) \cup GgufPaths(Tree[k]) : k \in 1 .. n + 1}
             = (UNION {HfPaths(Tree[k]) \cup GgufPaths(Tree[k]) : k \in 1 .. n})
                 \cup HfPaths(Tree[n + 1]) \cup GgufPaths(Tree[n + 1])
  <1> DEFINE P(k) == HfPaths(Tree[k]) \cup GgufPaths(Tree[k])
  <1>1. \A k : k \in 1 .. n + 1 <=> k \in 1 .. n \/ k = n + 1 OBVIOUS
  <1> HIDE DEF P
  <1>2. UNION {P(k) : k \in 1 .. n + 1} = (UNION {P(k) : k \in 1 .. n}) \cup P(n + 1)
    BY <1>1
  <1> QED BY <1>2 DEF P

\* A scan that a step leaves alone, while no file goes.
LEMMA ProgressKept ==
    ASSUME NEW t, UNCHANGED gone, step'[t] = step[t], files'[t] = files[t],
           exclude'[t] = exclude[t], found'[t] = found[t], Progress(t)
    PROVE  Progress(t)'
  <1>1. \A d : Present(d)' = Present(d) BY DEF Present
  <1>2. \A f : IsMain(f)' = IsMain(f) BY DEF IsMain
  <1>3. \A d : HfPaths(d)' = HfPaths(d) BY DEF HfPaths
  <1>4. \A d : GgufPaths(d)' = GgufPaths(d) BY <1>1, <1>2 DEF GgufPaths
  <1>5. Listing(t)' = Listing(t) BY DEF Listing
  <1>6. Left(t)' = Left(t) BY <1>2, <1>5 DEF Left
  <1>7. Behind(t)' = Behind(t) BY <1>3, <1>4 DEF Behind
  <1>8. Paths(found[t])' = Paths(found[t]) BY DEF Paths
  <1>9. \A k : Present(Tree[k])' = Present(Tree[k]) BY <1>1
  <1> QED BY <1>6, <1>7, <1>8, <1>9 DEF Progress

LEMMA DirectoryProgress ==
    ASSUME DiscoveryConstants, DiscoveryInv, NEW s \in Scans, WalkDirectory(s),
           FoundOnce, Progress(s)
    PROVE  Progress(s)'
  <1>0. Len(Tree) \in Nat BY TreeLength
  <1> DEFINE d == Tree[step[s]]
             n == step[s] - 1
  <1>1. /\ step[s] \in 1 .. Len(Tree) /\ step'[s] = step[s] + 1
        /\ files[s] = {} /\ files'[s] = Present(d)
        /\ exclude'[s] = exclude[s] /\ gone' = gone
        /\ found'[s] = IF IsHf(d) THEN Added(s, ScanHf(d)) ELSE found[s]
    BY <1>0 DEF WalkDirectory, Walking, diskVars, DiscoveryInv, Shape, IsOver
  <1>2. n \in Nat /\ n + 1 = step[s] /\ step'[s] - 1 = n + 1 BY <1>1
  <1>3. Behind(s)' = Behind(s) \cup HfPaths(d) \cup GgufPaths(d)
    <2>1. Behind(s)' = UNION {HfPaths(Tree[k]) \cup GgufPaths(Tree[k]) : k \in 1 .. n + 1}
      <3>1. \A k : GgufPaths(Tree[k])' = GgufPaths(Tree[k]) /\ HfPaths(Tree[k])' = HfPaths(Tree[k])
        BY <1>1 DEF HfPaths, GgufPaths, Present, IsMain
      <3>2. 1 .. step'[s] - 1 = 1 .. n + 1 BY <1>2
      <3> QED BY <3>1, <3>2 DEF Behind
    <2>2. Behind(s) = UNION {HfPaths(Tree[k]) \cup GgufPaths(Tree[k]) : k \in 1 .. n}
      BY DEF Behind
    <2>3. n + 1 = step[s] BY <1>2
    <2> HIDE DEF n
    <2>4. d = Tree[n + 1] BY <2>3
    <2> HIDE DEF d
    <2> QED BY <1>2, <2>1, <2>2, <2>4, BehindGrows
  <1>4. Left(s)' = GgufPaths(d)
    <2>1. Listing(s)' = d.ggufs BY <1>1, <1>2 DEF Listing
    <2> QED BY <1>1, <2>1 DEF Left, GgufPaths, IsMain
  <1>5. Paths(found[s]) = Behind(s) \ exclude[s]
    <2>1. Left(s) = {} BY <1>1 DEF Left
    <2> QED BY <2>1 DEF Progress
  <1>6. Paths(found'[s]) = Paths(found[s]) \cup (HfPaths(d) \ exclude[s])
    <2>1. CASE IsHf(d) /\ d.config \notin AuxiliaryArchitectures
      <3>1. ScanHf(d).path = d.path BY DEF ScanHf
      <3>2. found[s] \in Seq(ToSet(found[s])) BY DEF DiscoveryInv, Shape
      <3>3. found'[s] = Added(s, ScanHf(d)) /\ ~IsAuxiliary(ScanHf(d))
        BY <1>1, <2>1, MainHf
      <3>4. Paths(found'[s]) = Paths(found[s]) \cup ({d.path} \ exclude[s])
        <4> HIDE DEF d
        <4> QED BY <3>1, <3>2, <3>3, AddedPath DEF FoundOnce
      <3> QED BY <2>1, <3>4 DEF HfPaths
    <2>2. CASE IsHf(d) /\ d.config \in AuxiliaryArchitectures
      <3>1. found'[s] = Added(s, ScanHf(d)) /\ IsAuxiliary(ScanHf(d))
        BY <1>1, <2>2, MainHf
      <3>2. found'[s] = found[s] BY <3>1 DEF Added
      <3> QED BY <2>2, <3>2 DEF HfPaths
    <2>3. CASE ~IsHf(d) BY <1>1, <2>3 DEF HfPaths
    <2> QED BY <2>1, <2>2, <2>3
  <1>7. step'[s] >= 2 /\ Present(Tree[step[s] - 1])' = Present(d)
    <2>1. step'[s] >= 2 /\ step'[s] - 1 = step[s] BY <1>1
    <2>2. Tree[step'[s] - 1] = d BY <2>1
    <2> QED BY <1>1, <2>1, <2>2 DEF Present
  <1>8. Paths(found[s])' = Paths(found'[s]) BY DEF Paths
  <1> HIDE DEF d, n
  <1> QED BY <1>1, <1>3, <1>4, <1>5, <1>6, <1>7, <1>8 DEF Progress

LEMMA FileProgress ==
    ASSUME DiscoveryConstants, DiscoveryInv, NEW s \in Scans, WalkFile(s),
           FoundOnce, Progress(s)
    PROVE  Progress(s)'
  <1>1. PICK i \in files[s] :
           /\ found' = [found EXCEPT ![s] = Added(s, ScanGguf(Listing(s)[i]))]
           /\ files' = [files EXCEPT ![s] = files[s] \ {i}]
    BY DEF WalkFile
  <1> DEFINE f == Listing(s)[i]
             d == Tree[step[s] - 1]
  <1>2. /\ step' = step /\ exclude' = exclude /\ gone' = gone
        /\ found'[s] = Added(s, ScanGguf(f)) /\ files'[s] = files[s] \ {i}
    BY <1>1 DEF WalkFile, diskVars, DiscoveryInv, Shape, IsOver
  <1>3. step[s] >= 2 /\ step[s] \in Nat /\ files[s] \subseteq Present(d)
    <2>1. step[s] >= 2 /\ files[s] \subseteq Present(d) BY <1>1 DEF Progress
    <2>2. step[s] \in 0 .. Len(Tree) + 1 BY DEF DiscoveryInv, Shape
    <2>3. Len(Tree) \in Nat BY TreeLength
    <2> QED BY <2>1, <2>2, <2>3
  <1>4. Behind(s)' = Behind(s) /\ Present(Tree[step[s] - 1])' = Present(d)
        /\ Listing(s)' = Listing(s)
    BY <1>2 DEF Behind, HfPaths, GgufPaths, IsMain, Present, Listing
  <1>5. Paths(found[s])' = Paths(found'[s]) BY DEF Paths
  <1>6. IsMain(f) => f.path \in Behind(s)
    <2> SUFFICES ASSUME IsMain(f) PROVE f.path \in Behind(s) OBVIOUS
    <2>1. f = d.ggufs[i] /\ i \in Present(d) BY <1>1, <1>3 DEF Listing
    <2>2. f.path \in GgufPaths(d) BY <2>1 DEF GgufPaths
    <2>3. step[s] - 1 \in 1 .. step[s] - 1 BY <1>3
    <2> QED BY <2>2, <2>3 DEF Behind
  <1>7. Left(s) \subseteq Left(s)' \cup (IF IsMain(f) THEN {f.path} ELSE {})
    <2>1. Left(s)' = {Listing(s)[k].path : k \in {j \in files[s] \ {i} : IsMain(Listing(s)[j])}}
      BY <1>2, <1>4 DEF Left, IsMain
    <2> QED BY <2>1 DEF Left
  <1>8. /\ IsMain(f) => Paths(found'[s]) = Paths(found[s]) \cup ({f.path} \ exclude[s])
        /\ ~IsMain(f) => Paths(found'[s]) = Paths(found[s])
    <2>1. ScanGguf(f).path = f.path BY DEF ScanGguf
    <2>2. found[s] \in Seq(ToSet(found[s])) BY DEF DiscoveryInv, Shape
    <2>3. IsAuxiliary(ScanGguf(f)) <=> ~IsMain(f) BY MainGguf
    <2>4. \A j, k \in DOMAIN found[s] : found[s][j].path = found[s][k].path => j = k
      BY DEF FoundOnce
    <2> DEFINE c == ScanGguf(f)
    <2>5. found'[s] = Added(s, c) /\ c.path = f.path /\ (IsAuxiliary(c) <=> ~IsMain(f))
      BY <1>2, <2>1, <2>3
    <2> HIDE DEF c, f
    <2> QED BY <2>2, <2>4, <2>5, AddedPath
  <1> HIDE DEF f, d
  <1>9. files'[s] \subseteq Present(d) BY <1>2, <1>3
  <1> QED BY <1>2, <1>3, <1>4, <1>5, <1>6, <1>7, <1>8, <1>9 DEF Progress

\* A step of one scan leaves what the others have found alone.
LEMMA OthersKept ==
    ASSUME DiscoveryInv, ExactInv, NEW s \in Scans, UNCHANGED gone,
           NEW n, NEW l, NEW x, NEW f, NEW b,
           step' = [step EXCEPT ![s] = n], files' = [files EXCEPT ![s] = l],
           exclude' = [exclude EXCEPT ![s] = x], found' = [found EXCEPT ![s] = f],
           steady' = [steady EXCEPT ![s] = b],
           \A i, j \in DOMAIN f : f[i].path = f[j].path => i = j,
           n # 0 /\ b => Progress(s)'
    PROVE  ExactInv'
  <1>1. /\ step'[s] = n /\ steady'[s] = b /\ found'[s] = f /\ IsOver(steady', Scans)
        /\ \A t \in Scans \ {s} : /\ step'[t] = step[t] /\ files'[t] = files[t]
                                  /\ exclude'[t] = exclude[t] /\ found'[t] = found[t]
                                  /\ steady'[t] = steady[t]
    BY DEF DiscoveryInv, Shape, IsOver, ExactInv
  <1>2. FoundOnce' BY <1>1 DEF ExactInv, FoundOnce
  <1>3. ASSUME NEW t \in Scans, step'[t] # 0, steady'[t] PROVE Progress(t)'
    <2>1. CASE t = s BY <1>1, <1>3, <2>1
    <2>2. CASE t # s
      <3>1. /\ step'[t] = step[t] /\ files'[t] = files[t] /\ exclude'[t] = exclude[t]
            /\ found'[t] = found[t] /\ steady'[t] = steady[t]
        BY <1>1, <2>2
      <3>2. Progress(t) BY <1>3, <3>1 DEF ExactInv, Walking
      <3> QED BY <3>1, <3>2, ProgressKept
    <2> QED BY <2>1, <2>2
  <1> QED BY <1>1, <1>2, <1>3 DEF ExactInv, Walking

\* Nothing changes for the scans.
LEMMA ScansKept ==
    ASSUME ExactInv, UNCHANGED <<step, files, exclude, found, steady, gone>>
    PROVE  ExactInv'
  <1>1. FoundOnce' /\ IsOver(steady', Scans) BY DEF ExactInv, FoundOnce, IsOver
  <1>2. ASSUME NEW t \in Scans, step'[t] # 0, steady'[t] PROVE Progress(t)'
    <2>1. Progress(t) BY <1>2 DEF ExactInv, Walking
    <2> QED BY <2>1, ProgressKept
  <1> QED BY <1>1, <1>2 DEF ExactInv, Walking

LEMMA NextExact ==
    ASSUME DiscoveryConstants, DiscoveryInv, ExactInv, DiscoveryNext
    PROVE  ExactInv'
  <1>0. Len(Tree) \in Nat BY TreeLength
  <1>1. /\ IsOver(files, Scans) /\ IsOver(exclude, Scans) /\ IsOver(found, Scans)
        /\ IsOver(steady, Scans) /\ step \in [Scans -> 0 .. Len(Tree) + 1]
    BY DEF DiscoveryInv, Shape, ExactInv
  <1>2. \A s \in Scans : /\ [files EXCEPT ![s] = files[s]] = files
                         /\ [exclude EXCEPT ![s] = exclude[s]] = exclude
                         /\ [found EXCEPT ![s] = found[s]] = found
                         /\ [steady EXCEPT ![s] = steady[s]] = steady
                         /\ [step EXCEPT ![s] = step[s]] = step
    BY <1>1 DEF IsOver
  <1>3. \A s \in Scans : /\ found[s] \in Seq(ToSet(found[s]))
                         /\ \A i, j \in DOMAIN found[s] :
                               found[s][i].path = found[s][j].path => i = j
    BY DEF DiscoveryInv, Shape, ExactInv, FoundOnce
  <1>4. ASSUME NEW s \in Scans, StartScan(s) PROVE ExactInv'
    <2>1. /\ step' = [step EXCEPT ![s] = 1] /\ files' = [files EXCEPT ![s] = files[s]]
          /\ exclude' = [exclude EXCEPT ![s] = RegisteredPaths]
          /\ found' = [found EXCEPT ![s] = found[s]] /\ steady' = [steady EXCEPT ![s] = steady[s]]
          /\ UNCHANGED gone
      BY <1>2, <1>4 DEF StartScan, diskVars
    <2>2. files[s] = {} /\ found[s] = <<>> BY <1>4 DEF StartScan, DiscoveryInv, Shape
    <2>3. step'[s] = 1 /\ files'[s] = {} /\ found'[s] = <<>>
      BY <1>1, <2>1, <2>2 DEF IsOver
    <2>4. Progress(s)'
      <3>1. Behind(s)' = {} BY <2>3 DEF Behind
      <3>2. Paths(found[s])' = {} BY <2>3 DEF Paths, ToSet
      <3> QED BY <2>3, <3>1, <3>2 DEF Progress
    <2> DEFINE n == 1
               l == files[s]
               x == RegisteredPaths
               f == found[s]
               b == steady[s]
    <2>5. /\ step' = [step EXCEPT ![s] = n] /\ files' = [files EXCEPT ![s] = l]
          /\ exclude' = [exclude EXCEPT ![s] = x] /\ found' = [found EXCEPT ![s] = f]
          /\ steady' = [steady EXCEPT ![s] = b] /\ UNCHANGED gone
          /\ \A i, j \in DOMAIN f : f[i].path = f[j].path => i = j
      BY <1>3, <2>1
    <2> HIDE DEF n, l, x, f, b
    <2> QED BY <2>4, <2>5, OthersKept
  <1>5. ASSUME NEW s \in Scans, WalkDirectory(s) \/ WalkFile(s) PROVE ExactInv'
    <2>1. PICK n, l, f : /\ step' = [step EXCEPT ![s] = n] /\ files' = [files EXCEPT ![s] = l]
                         /\ found' = [found EXCEPT ![s] = f]
                         /\ \A i, j \in DOMAIN f : f[i].path = f[j].path => i = j
      <3>1. CASE WalkDirectory(s)
        <4> DEFINE d == Tree[step[s]]
                   g == IF IsHf(d) THEN Added(s, ScanHf(d)) ELSE found[s]
        <4>1. /\ step' = [step EXCEPT ![s] = step[s] + 1]
              /\ files' = [files EXCEPT ![s] = Present(d)]
              /\ found' = [found EXCEPT ![s] = g]
          BY <3>1 DEF WalkDirectory
        <4>2. \A i, j \in DOMAIN g : g[i].path = g[j].path => i = j
          BY <1>3, AddedPath
        <4> HIDE DEF d, g
        <4> QED BY <4>1, <4>2
      <3>2. CASE WalkFile(s)
        <4>1. PICK i \in files[s] : /\ found' = [found EXCEPT ![s] = Added(s, ScanGguf(Listing(s)[i]))]
                                    /\ files' = [files EXCEPT ![s] = files[s] \ {i}]
          BY <3>2 DEF WalkFile
        <4> DEFINE g == Added(s, ScanGguf(Listing(s)[i]))
        <4>2. \A k, j \in DOMAIN g : g[k].path = g[j].path => k = j
          BY <1>3, AddedPath
        <4>3. step' = [step EXCEPT ![s] = step[s]] BY <1>2, <3>2 DEF WalkFile
        <4>4. found' = [found EXCEPT ![s] = g] BY <4>1
        <4> HIDE DEF g
        <4> QED BY <4>1, <4>2, <4>3, <4>4
      <3> QED BY <1>5, <3>1, <3>2
    <2>2. UNCHANGED <<exclude, steady, gone>> BY <1>5 DEF WalkDirectory, WalkFile, diskVars
    <2>3. step[s] # 0
      BY <1>5 DEF WalkDirectory, WalkFile, Walking, DiscoveryInv, Shape
    <2>4. steady[s] => Progress(s)'
      BY <1>5, <2>3, DirectoryProgress, FileProgress DEF ExactInv, Walking
    <2> DEFINE x == exclude[s]
               b == steady[s]
    <2>5. exclude' = [exclude EXCEPT ![s] = x] /\ steady' = [steady EXCEPT ![s] = b]
          /\ (b => Progress(s)')
      BY <1>2, <2>2, <2>4
    <2> HIDE DEF x, b
    <2> QED BY <2>1, <2>2, <2>5, OthersKept
  <1>6. ASSUME NEW s \in Scans, ScanFails(s) \/ Publish(s) PROVE ExactInv'
    <2>1. Reset(s) /\ UNCHANGED gone BY <1>6 DEF ScanFails, Publish, diskVars
    <2>2. /\ step' = [step EXCEPT ![s] = 0] /\ files' = [files EXCEPT ![s] = {}]
          /\ exclude' = [exclude EXCEPT ![s] = {}] /\ found' = [found EXCEPT ![s] = <<>>]
          /\ steady' = [steady EXCEPT ![s] = TRUE]
      BY <2>1 DEF Reset
    <2> DEFINE n == 0
               l == {}
               f == <<>>
               b == TRUE
    <2>3. \A i, j \in DOMAIN f : f[i].path = f[j].path => i = j OBVIOUS
    <2>4. /\ step' = [step EXCEPT ![s] = n] /\ files' = [files EXCEPT ![s] = l]
          /\ exclude' = [exclude EXCEPT ![s] = l] /\ found' = [found EXCEPT ![s] = f]
          /\ steady' = [steady EXCEPT ![s] = b] /\ UNCHANGED gone /\ ~(n # 0)
      BY <2>1, <2>2
    <2> HIDE DEF n, l, f, b
    <2> QED BY <2>3, <2>4, OthersKept
  <1>7. ASSUME Vanish PROVE ExactInv'
    <2>1. UNCHANGED <<step, found>> /\ steady' = [t \in Scans |-> ~Walking(t)]
      BY <1>7 DEF Vanish
    <2>2. \A t \in Scans : step'[t] # 0 => ~steady'[t] BY <2>1 DEF Walking
    <2>3. FoundOnce' BY <2>1 DEF ExactInv, FoundOnce
    <2>4. IsOver(steady', Scans) BY <2>1 DEF IsOver
    <2> QED BY <2>2, <2>3, <2>4 DEF ExactInv, Walking
  <1>8. ASSUME NEW r \in Registrations, Register(r) \/ Confirm(r) \/ Restore(r) \/ RestoreFails(r)
        PROVE  ExactInv'
    BY <1>8, ScansKept DEF Register, Confirm, Restore, RestoreFails, scanVars, diskVars
  <1>9. ASSUME Spoil \/ Edit PROVE ExactInv'
    BY <1>9, ScansKept DEF Spoil, Edit, scanVars, diskVars
  <1> QED BY <1>4, <1>5, <1>6, <1>7, <1>8, <1>9 DEF DiscoveryNext

\* ScanExact, as a relation of a state and the next.
FindsAll ==
    \A s \in Scans : Finished(s) /\ step'[s] = 0 /\ steady[s]
        => /\ {c.path : c \in discovered'} = MainPaths \ exclude[s]
           /\ IsInjective([i \in DOMAIN found[s] |-> found[s][i].path])

LEMMA NextFindsAll ==
    ASSUME DiscoveryConstants, DiscoveryInv, ExactInv, DiscoveryNext
    PROVE  FindsAll
  <1> SUFFICES ASSUME NEW s \in Scans, Finished(s), step'[s] = 0, steady[s]
               PROVE  /\ {c.path : c \in discovered'} = MainPaths \ exclude[s]
                      /\ IsInjective([i \in DOMAIN found[s] |-> found[s][i].path])
    BY DEF FindsAll
  <1>0. Len(Tree) \in Nat /\ DOMAIN Tree = 1 .. Len(Tree) BY TreeLength
  <1>1. step[s] = Len(Tree) + 1 /\ step[s] # 0 /\ files[s] = {}
        /\ step \in [Scans -> 0 .. Len(Tree) + 1]
    BY <1>0 DEF Finished, DiscoveryInv, Shape
  <1>2. discovered' = ToSet(found[s])
    <2>1. ASSUME NEW t \in Scans,
                 StartScan(t) \/ WalkDirectory(t) \/ WalkFile(t) \/ ScanFails(t) \/ Publish(t)
          PROVE  Publish(s)
      <3>1. step' = step \/ \E n : step' = [step EXCEPT ![t] = n]
        BY <2>1 DEF StartScan, WalkDirectory, WalkFile, ScanFails, Publish, Reset
      <3>2. t = s BY <1>1, <3>1
      <3>3. ~StartScan(s) BY <1>1 DEF StartScan, Walking
      <3>4. ~WalkDirectory(s) BY <1>0, <1>1 DEF WalkDirectory
      <3>5. ~WalkFile(s) /\ ~ScanFails(s) BY <1>0, <1>1 DEF WalkFile, ScanFails
      <3> QED BY <2>1, <3>2, <3>3, <3>4, <3>5
    <2>2. ASSUME \/ \E r \in Registrations :
                      Register(r) \/ Confirm(r) \/ Restore(r) \/ RestoreFails(r)
                 \/ Vanish \/ Spoil \/ Edit
          PROVE  FALSE
      <3>1. UNCHANGED step
        BY <2>2 DEF Register, Confirm, Restore, RestoreFails, Vanish, Spoil, Edit, scanVars
      <3> QED BY <1>1, <3>1
    <2>3. Publish(s) BY <2>1, <2>2 DEF DiscoveryNext
    <2> QED BY <2>3 DEF Publish
  <1>3. Progress(s) BY <1>1 DEF ExactInv, Walking
  <1>4. Paths(found[s]) = Behind(s) \ exclude[s]
    <2>1. Left(s) = {} BY <1>1 DEF Left
    <2> QED BY <1>3, <2>1 DEF Progress
  <1>5. Behind(s) = MainPaths
    <2> DEFINE P(d) == HfPaths(d) \cup GgufPaths(d)
    <2>1. step[s] - 1 = Len(Tree) BY <1>0, <1>1
    <2>2. Behind(s) = UNION {P(Tree[k]) : k \in DOMAIN Tree} BY <1>0, <2>1 DEF Behind
    <2>3. MainPaths = UNION {P(d) : d \in ToSet(Tree)} BY DEF MainPaths
    <2> HIDE DEF P
    <2> QED BY <2>2, <2>3 DEF ToSet
  <1>6. {c.path : c \in discovered'} = Paths(found[s]) BY <1>2 DEF Paths
  <1>7. IsInjective([i \in DOMAIN found[s] |-> found[s][i].path])
    BY DEF ExactInv, FoundOnce, IsInjective
  <1> QED BY <1>4, <1>5, <1>6, <1>7

LEMMA ExactInvariant == DiscoverySpec => []ExactInv
  <1>1. DiscoveryInit => ExactInv
    <2> SUFFICES ASSUME DiscoveryInit PROVE ExactInv OBVIOUS
    <2>1. \A s \in Scans : step[s] = 0 /\ found[s] = <<>> BY DEF DiscoveryInit
    <2>2. IsOver(steady, Scans) BY DEF DiscoveryInit, IsOver
    <2> QED BY <2>1, <2>2 DEF ExactInv, FoundOnce, Walking
  <1>2. DiscoveryInv /\ ExactInv /\ UNCHANGED discoveryVars => ExactInv'
    BY ScansKept DEF discoveryVars, scanVars, diskVars
  <1>3. DiscoveryInv /\ ExactInv /\ [DiscoveryNext]_discoveryVars => ExactInv'
    BY <1>2, NextExact, DiscoveryConstants
  <1> QED BY <1>1, <1>3, DiscoveryInvariant, PTL DEF DiscoverySpec

\* Whatever the tree, a scan during which no file goes finds every main model
\* that was not configured when it began, and each once (ModelScanner.scan).
THEOREM ScanExactHolds == DiscoverySpec => ScanExact
  <1>1. DiscoveryInv /\ ExactInv /\ [DiscoveryNext]_discoveryVars => [FindsAll]_discoveryVars
    BY NextFindsAll, DiscoveryConstants
  <1> QED BY <1>1, DiscoveryInvariant, ExactInvariant, PTL DEF DiscoverySpec, ScanExact, FindsAll
=============================================================================
