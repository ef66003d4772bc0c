------------------------ MODULE DmaProxyModuleProof ------------------------
(***************************************************************************)
(* Proofs about DmaProxyModule, for any devices and any number of channels *)
(* of each: the shared class lives as long as the nodes in it, and a       *)
(* device that was probed without error can be used.                       *)
(***************************************************************************)
EXTENDS DmaProxyModule, FiniteSetTheorems, TLAPS

Mine(d) == {d} \X (1..ChannelCount)
Nodes == {c \in Channels : node[c] # NoNode}

\* Channels that create_channel is done with, in this probe or an earlier one.
Done(c) == bound[c[1]] = "bound" \/ (bound[c[1]] = "probing" /\ c[2] < creating[2])
DoneChannels == {c \in Channels : Done(c)}

\* One probe at a time, of a loaded module.
ProbeInStep ==
  /\ IF step = "idle" THEN creating = Nobody
       ELSE /\ creating \in Channels /\ loaded = "yes" /\ probes >= 1
            /\ bound[creating[1]] = "probing"
  /\ \A d \in Devices : bound[d] = "probing" => step # "idle" /\ d = creating[1]
  /\ loaded = "no" => \A d \in Devices : bound[d] = "unbound"
  /\ failures = {} => \A d \in Devices : bound[d] # "failed"
  /\ step \in {"device", "buffers"} => local_class_p # NoClass

\* What each channel holds, and what it does not hold before its turn.
Resourced ==
  /\ \A c \in Channels : Done(c) => CanTransfer(c)
  /\ step \notin {"idle", "request"} => "chan" \in held[creating]
  /\ \A c \in Nodes : "chan" \in held[c]
Clean ==
  /\ loaded # "no" \/ failures = {} =>
       \A c \in Channels : bound[c[1]] = "unbound" => held[c] = {} /\ node[c] = NoNode
  /\ \A c \in Channels :
       /\ bound[c[1]] = "probing"
       /\ c[2] > creating[2] \/ (c = creating /\ step # "buffers")
       => node[c] = NoNode

\* total_count is never behind the channels that are done.
Counted == Cardinality(DoneChannels) <= total_count

\* As long as a device is bound and no device_create has failed, the class lives.
ClassKept ==
  "device" \notin failures /\ ~rebinds =>
    /\ loaded = "yes" /\ local_class_p # NoClass => local_class_p \in classes
    /\ \A c \in Channels : Done(c) \/ (step = "buffers" /\ c = creating) => node[c] \in classes

\* total_count, with the node that is about to be counted.
CountedNodes == IF step = "buffers" THEN total_count + 1 ELSE total_count

\* Unless device_create fails, every node is in the one class of the static, and
\* total_count is not more than the number of nodes; it is their number, and the class
\* is there exactly for them, unless an allocation of buffers fails.
ExactCount ==
  "device" \notin failures =>
    /\ \A c \in Nodes : node[c] = local_class_p
    /\ classes \subseteq {local_class_p}
    /\ classes # {} => step = "device" \/ Nodes # {}
    /\ CountedNodes <= Cardinality(Nodes)
    /\ "buffers" \notin failures => Cardinality(Nodes) = CountedNodes
    /\ ~rebinds /\ Nodes # {} /\ (loaded = "yes" \/ "buffers" \notin failures)
         => local_class_p \in classes
    /\ \A c \in Channels : Done(c) \/ (step = "buffers" /\ c = creating) => c \in Nodes

Inv == /\ TypeOK /\ ProbeInStep /\ Resourced /\ Clean /\ Counted /\ ClassKept
       /\ ExactCount

-----------------------------------------------------------------------------
\* Channels are pairs; there are finitely many, ChannelCount for each device.
LEMMA ChannelFacts ==
  /\ IsFiniteSet(Channels) /\ ChannelCount \in Nat
  /\ \A c \in Channels : c[1] \in Devices /\ c[2] \in 1..ChannelCount /\ c = <<c[1], c[2]>>
  /\ \A d \in Devices, n \in 1..ChannelCount :
        <<d, n>> \in Channels /\ <<d, n>>[1] = d /\ <<d, n>>[2] = n
  /\ \A c \in Channels : c # Nobody
<1>1. IsFiniteSet(1..ChannelCount) /\ ChannelCount \in Nat
  BY ModuleAssumption, FS_Interval
<1>2. IsFiniteSet(Channels)
  BY <1>1, ModuleAssumption, FS_Product DEF Channels
<1> QED
  BY <1>1, <1>2 DEF Channels, Nobody

\* The channels of one device.
LEMMA MineFacts ==
  ASSUME NEW d \in Devices
  PROVE  /\ Mine(d) \subseteq Channels /\ IsFiniteSet(Mine(d))
         /\ Cardinality(Mine(d)) = ChannelCount
         /\ \A c \in Channels : c \in Mine(d) <=> c[1] = d
<1>1. Mine(d) \subseteq Channels /\ \A c \in Channels : c \in Mine(d) <=> c[1] = d
  BY DEF Mine, Channels
<1>2. IsFiniteSet(1..ChannelCount) /\ Cardinality(1..ChannelCount) = ChannelCount /\ ChannelCount \in Nat
  BY ModuleAssumption, FS_Interval
<1>3. IsFiniteSet({d}) /\ Cardinality({d}) = 1
  BY FS_Singleton
<1>4. Mine(d) = {d} \X (1..ChannelCount)
  BY DEF Mine
<1>5. /\ IsFiniteSet({d} \X (1..ChannelCount))
      /\ Cardinality({d} \X (1..ChannelCount)) = Cardinality({d}) * Cardinality(1..ChannelCount)
  BY <1>2, <1>3, FS_Product
<1>6. Cardinality(Mine(d)) = 1 * ChannelCount
  BY <1>2, <1>3, <1>4, <1>5
<1> QED
  BY <1>1, <1>2, <1>4, <1>5, <1>6

\* Sets of channels are finite.
LEMMA FiniteChannels ==
  /\ IsFiniteSet(Nodes) /\ Cardinality(Nodes) \in Nat
  /\ IsFiniteSet(DoneChannels) /\ Cardinality(DoneChannels) \in Nat
BY ChannelFacts, FS_Subset, FS_CardinalityType DEF Nodes, DoneChannels

\* As FiniteChannels, after a step.
LEMMA FiniteChannelsNext ==
  /\ IsFiniteSet(Nodes') /\ Cardinality(Nodes') \in Nat
  /\ IsFiniteSet(DoneChannels') /\ Cardinality(DoneChannels') \in Nat
BY ChannelFacts, FS_Subset, FS_CardinalityType DEF Nodes, DoneChannels

\* Fewer channels count less.
LEMMA Monotone ==
  ASSUME NEW S, NEW T \in SUBSET S, IsFiniteSet(S)
  PROVE  Cardinality(T) <= Cardinality(S)
BY FS_Subset

\* Taking out the channels of one device takes away ChannelCount.
LEMMA WithoutMine ==
  ASSUME NEW d \in Devices, NEW S \in SUBSET Channels, Mine(d) \subseteq S
  PROVE  /\ Cardinality(S) \in Nat /\ Cardinality(S \ Mine(d)) \in Nat
         /\ Cardinality(S) = Cardinality(S \ Mine(d)) + ChannelCount
<1>1. IsFiniteSet(S) /\ IsFiniteSet(S \ Mine(d)) /\ S \cap Mine(d) = Mine(d)
  BY ChannelFacts, FS_Subset
<1>2. Cardinality(S \ Mine(d)) = Cardinality(S) - Cardinality(Mine(d))
  BY <1>1, FS_Difference
<1> QED
  BY <1>1, <1>2, MineFacts, FS_CardinalityType, ModuleAssumption

\* A removal counts down channels that were counted: total_count does not become negative.
LEMMA RemovedCounted ==
  ASSUME TypeOK, Counted, NEW d \in Devices, Remove(d)
  PROVE  total_count >= ChannelCount /\ total_count' = total_count - ChannelCount /\ total_count' \in Nat
<1>1. Mine(d) \subseteq DoneChannels /\ DoneChannels \subseteq Channels
  BY MineFacts DEF DoneChannels, Done, Remove
<1>2. Cardinality(DoneChannels) = Cardinality(DoneChannels \ Mine(d)) + ChannelCount
      /\ Cardinality(DoneChannels \ Mine(d)) \in Nat
  BY <1>1, WithoutMine
<1> QED
  BY <1>2, ModuleAssumption DEF Counted, TypeOK, Remove

\* Every step leaves the variables in their types.
LEMMA TypeStep ==
  ASSUME Inv, Next
  PROVE  TypeOK'
<1> USE DEF Next, modeVars
<1>0. TypeOK /\ ProbeInStep /\ MaxProbes \in Nat /\ ChannelCount \in Nat
  BY ModuleAssumption DEF Inv
<1>1. failures' \subseteq FailingCalls /\ rebinds' \in BOOLEAN
  BY <1>0 DEF TypeOK
<1>2. loaded' \in {"no", "yes", "going"}
  BY <1>0 DEF TypeOK, Load, BeginUnload, Unload, Probe, Remove, RequestChannel, AllocRegion, AddCdev,
         CreateClass, CreateDevice, AllocBuffers
<1>3. bound' \in [Devices -> {"unbound", "probing", "bound", "failed"}]
  BY <1>0 DEF TypeOK, Load, BeginUnload, Unload, Probe, Remove, RequestChannel, AllocRegion, AddCdev,
         CreateClass, CreateDevice, AllocBuffers, FailProbe, Continue
<1>4. creating' \in Channels \cup {Nobody}
  <2>1. CASE AllocBuffers
    <3>1. creating \in Channels
      BY <1>0, <2>1 DEF AllocBuffers, ProbeInStep
    <3> QED
      BY <1>0, <2>1, <3>1, ChannelFacts DEF AllocBuffers, MoreChannels, FailProbe
  <2>2. CASE \E d \in Devices : Probe(d)
    BY <1>0, <2>2, ChannelFacts DEF TypeOK, Probe
  <2>3. CASE ~AllocBuffers /\ ~\E d \in Devices : Probe(d)
    BY <1>0, <2>3 DEF TypeOK, Load, BeginUnload, Unload, Remove, RequestChannel, AllocRegion, AddCdev,
         CreateClass, CreateDevice, FailProbe, Continue
  <2> QED
    BY <2>1, <2>2, <2>3
<1>5. step' \in {"idle", "request", "region", "cdev", "class", "device", "buffers"}
  BY <1>0 DEF TypeOK, Load, BeginUnload, Unload, Probe, Remove, RequestChannel, AllocRegion, AddCdev,
         CreateClass, CreateDevice, AllocBuffers, FailProbe, Continue
<1>6. held' \in [Channels -> SUBSET Resources]
  <2>1. ASSUME NEW drop, FailProbe(drop) PROVE held' \in [Channels -> SUBSET Resources]
    BY <1>0, <2>1 DEF TypeOK, FailProbe
  <2>2. CASE RequestChannel \/ AllocRegion \/ AddCdev \/ AllocBuffers
    BY <1>0, <2>1, <2>2 DEF TypeOK, Resources, RequestChannel, AllocRegion, AddCdev, AllocBuffers, GetBuffers, Hold
  <2>3. CASE Load \/ BeginUnload \/ Unload \/ CreateClass \/ CreateDevice \/ \E d \in Devices : Probe(d) \/ Remove(d)
    BY <1>0, <2>3 DEF TypeOK, Load, BeginUnload, Unload, Probe, Remove, CreateClass, CreateDevice, Drop
  <2> QED
    BY <2>2, <2>3
<1>7. node' \in [Channels -> 0..MaxProbes + 1]
  BY <1>0 DEF TypeOK, NoNode, ErrPtr, Load, BeginUnload, Unload, Probe, Remove, RequestChannel, AllocRegion, AddCdev,
         CreateClass, CreateDevice, AllocBuffers
<1>8. local_class_p' \in 0..MaxProbes /\ classes' \subseteq 1..MaxProbes
  <2>1. CASE CreateClass
    <3>1. probes \in 1..MaxProbes
      BY <1>0, <2>1 DEF TypeOK, ProbeInStep, CreateClass
    <3> QED
      BY <1>0, <2>1, <3>1 DEF TypeOK, CreateClass
  <2>2. CASE ~CreateClass
    <3>1. local_class_p' \in {local_class_p, 0}
      BY <2>2 DEF NoClass, Load, BeginUnload, Unload, Probe, Remove, RequestChannel, AllocRegion, AddCdev,
         CreateDevice, AllocBuffers
    <3>2. classes' \subseteq classes
      BY <2>2 DEF Load, BeginUnload, Unload, Probe, Remove, RequestChannel, AllocRegion, AddCdev,
         CreateDevice, AllocBuffers
    <3> QED
      BY <1>0, <3>1, <3>2 DEF TypeOK
  <2> QED
    BY <2>1, <2>2
<1>9. total_count' \in Nat
  <2>1. CASE \E d \in Devices : Remove(d)
    BY <2>1, RemovedCounted DEF Inv
  <2>2. CASE ~\E d \in Devices : Remove(d)
    BY <1>0, <2>2 DEF TypeOK, Load, BeginUnload, Unload, Probe, RequestChannel, AllocRegion, AddCdev,
         CreateClass, CreateDevice, AllocBuffers, GetBuffers
  <2> QED
    BY <2>1, <2>2
<1>10. probes' \in 0..MaxProbes
  BY <1>0 DEF TypeOK, Load, BeginUnload, Unload, Probe, Remove, RequestChannel, AllocRegion, AddCdev,
         CreateClass, CreateDevice, AllocBuffers
<1> QED
  BY <1>1, <1>2, <1>3, <1>4, <1>5, <1>6, <1>7, <1>8, <1>9, <1>10 DEF TypeOK

\* Loading finds no resource held, hence no node and no class to be forgotten.
LEMMA LoadStep ==
  ASSUME Inv, TypeOK', Load, UNCHANGED modeVars
  PROVE  Inv'
<1> USE DEF Load, modeVars
<1>0. TypeOK /\ ProbeInStep /\ Resourced
  BY DEF Inv
<1>1. /\ step = "idle" /\ creating = Nobody /\ loaded = "no" /\ loaded' = "yes"
      /\ local_class_p' = NoClass /\ total_count' = 0 /\ NoClass = 0
      /\ UNCHANGED <<failures, rebinds, bound, creating, step, held, node, classes, probes>>
  BY <1>0 DEF ProbeInStep, NoClass
<1>2. \A d \in Devices : bound[d] = "unbound"
  BY <1>0, <1>1 DEF ProbeInStep
<1>3. Nodes = {} /\ Nodes' = {} /\ \A c \in Channels : held[c] = {} /\ node[c] = NoNode
  BY <1>0, <1>1 DEF Resourced, Nodes
<1>4. DoneChannels' = {} /\ \A c \in Channels : ~Done(c)'
  BY <1>1, <1>2, ChannelFacts DEF DoneChannels, Done
<1>5. ProbeInStep'
  BY <1>0, <1>1, <1>2 DEF ProbeInStep
<1>6. Resourced' /\ Clean'
  BY <1>1, <1>2, <1>3, <1>4, ChannelFacts DEF Resourced, Clean
<1>7. Counted'
  BY <1>1, <1>4, FS_EmptySet DEF Counted
<1>8. ClassKept'
  BY <1>1, <1>4 DEF ClassKept
<1>9. ExactCount'
  <2>1. "device" \notin failures => classes = {}
    BY <1>1, <1>3 DEF ExactCount, Inv
  <2>2. CountedNodes' = 0 /\ Cardinality(Nodes') = 0
    BY <1>1, <1>3, FS_EmptySet DEF CountedNodes
  <2> QED
    BY <1>1, <1>3, <1>4, <2>1, <2>2 DEF ExactCount
<1> QED
  BY <1>5, <1>6, <1>7, <1>8, <1>9 DEF Inv

\* A probe starts with channels that hold nothing.
LEMMA ProbeStep ==
  ASSUME Inv, TypeOK', NEW d \in Devices, Probe(d), UNCHANGED modeVars
  PROVE  Inv'
<1> USE DEF Probe, modeVars
<1>0. TypeOK /\ ProbeInStep /\ Resourced /\ Clean /\ bound \in [Devices -> {"unbound", "probing", "bound", "failed"}]
  BY DEF Inv, TypeOK
<1>1. /\ step = "idle" /\ loaded = "yes" /\ bound[d] = "unbound" /\ probes' = probes + 1 /\ probes \in Nat
      /\ UNCHANGED <<failures, rebinds, loaded, held, node, local_class_p, classes, total_count>>
      /\ \A e \in Devices : bound[e] # "probing"
  BY <1>0 DEF ProbeInStep, TypeOK
<1>2. CASE ChannelCount = 0
  <2>1. Channels = {} /\ DoneChannels' = {} /\ Nodes' = {} /\ DoneChannels = {} /\ Nodes = {}
    BY <1>2 DEF Channels, DoneChannels, Nodes
  <2>2. bound' = [bound EXCEPT ![d] = "bound"] /\ UNCHANGED <<creating, step>>
    BY <1>2
  <2>3. ProbeInStep'
    BY <1>0, <1>1, <2>2 DEF ProbeInStep
  <2>4. Resourced' /\ Clean'
    BY <1>1, <2>1, <2>2 DEF Resourced, Clean
  <2>5. Counted' /\ ClassKept' /\ ExactCount'
    BY <1>1, <2>1, <2>2 DEF Inv, Counted, ClassKept, ExactCount, CountedNodes
  <2> QED
    BY <2>3, <2>4, <2>5 DEF Inv
<1>3. CASE ChannelCount # 0
  <2>1. /\ bound' = [bound EXCEPT ![d] = "probing"] /\ creating' = <<d, 1>> /\ step' = "request"
        /\ <<d, 1>> \in Channels /\ <<d, 1>>[1] = d /\ <<d, 1>>[2] = 1
    BY <1>3, ChannelFacts
  <2>2. \A c \in Channels : c[1] \in Devices /\ c[2] \in Nat /\ c[2] >= 1
    BY ChannelFacts
  <2>3. \A c \in Channels : Done(c)' <=> Done(c)
    <3>1. SUFFICES ASSUME NEW c \in Channels PROVE Done(c)' <=> Done(c)
      OBVIOUS
    <3>2. CASE c[1] = d
      <4>1. bound'[c[1]] = "probing" /\ ~(c[2] < creating'[2]) /\ bound[c[1]] = "unbound"
        BY <1>0, <1>1, <2>1, <2>2, <3>2
      <4> QED
        BY <4>1 DEF Done
    <3>3. CASE c[1] # d
      <4>1. bound'[c[1]] = bound[c[1]] /\ bound[c[1]] # "probing"
        BY <1>0, <1>1, <2>1, <2>2, <3>3
      <4> QED
        BY <4>1 DEF Done
    <3> QED
      BY <3>2, <3>3
  <2>4. DoneChannels' = DoneChannels /\ Nodes' = Nodes
    BY <1>1, <2>3 DEF DoneChannels, Nodes
  <2>5. ProbeInStep'
    BY <1>0, <1>1, <2>1 DEF ProbeInStep
  <2>6. Resourced'
    BY <1>0, <1>1, <2>1, <2>3, <2>4 DEF Resourced, CanTransfer
  <2>7. Clean'
    BY <1>0, <1>1, <2>1, <2>2 DEF Clean
  <2>8. Counted' /\ ClassKept'
    BY <1>1, <2>1, <2>3, <2>4 DEF Inv, Counted, ClassKept
  <2>9. ExactCount'
    <3>1. CountedNodes' = CountedNodes
      BY <1>1, <2>1 DEF CountedNodes
    <3> QED
      BY <1>1, <2>1, <2>3, <2>4, <3>1 DEF Inv, ExactCount
  <2> QED
    BY <2>5, <2>6, <2>7, <2>8, <2>9 DEF Inv
<1> QED
  BY <1>2, <1>3

\* A failed probe: its channels keep what they have, but no one uses them.
LEMMA FailStep ==
  ASSUME Inv, TypeOK', NEW drop \in SUBSET {"region"}, FailProbe(drop), failures # {},
         step \notin {"idle", "device"}, step = "buffers" => "buffers" \in failures,
         UNCHANGED <<modeVars, loaded, node, local_class_p, classes, total_count, probes>>
  PROVE  Inv'
<1> USE DEF FailProbe, modeVars
<1>0. TypeOK /\ ProbeInStep /\ Resourced /\ Clean /\ bound \in [Devices -> {"unbound", "probing", "bound", "failed"}]
      /\ held \in [Channels -> SUBSET Resources] /\ creating \in Channels /\ creating[1] \in Devices
      /\ loaded = "yes"
  BY ChannelFacts DEF Inv, TypeOK, ProbeInStep
<1>1. /\ creating' = Nobody /\ step' = "idle"
      /\ \A d \in Devices : bound'[d] = IF d = creating[1] THEN "failed" ELSE bound[d]
      /\ \A d \in Devices : bound'[d] # "probing"
  BY <1>0 DEF ProbeInStep
<1>2. \A c \in Channels : /\ Done(c)' => Done(c) /\ c[1] # creating[1] /\ held'[c] = held[c]
                          /\ ("chan" \in held'[c] <=> "chan" \in held[c])
                          /\ (c[1] # creating[1] => held'[c] = held[c])
  BY <1>0, <1>1, ChannelFacts DEF Done
<1>3. DoneChannels' \subseteq DoneChannels /\ Nodes' = Nodes
  BY <1>2 DEF DoneChannels, Nodes
<1>4. ProbeInStep'
  BY <1>0, <1>1 DEF ProbeInStep
<1>5. Resourced'
  BY <1>0, <1>1, <1>2, <1>3 DEF Resourced, CanTransfer, Nodes
<1>6. Clean'
  BY <1>0, <1>1, <1>2, ChannelFacts DEF Clean
<1>7. Counted'
  <2>1. Cardinality(DoneChannels') <= Cardinality(DoneChannels)
    BY <1>3, FiniteChannels, Monotone
  <2> QED
    BY <1>0, <2>1, FiniteChannels, FiniteChannelsNext DEF Inv, Counted, TypeOK
<1>8. ClassKept'
  BY <1>1, <1>2 DEF Inv, ClassKept
<1>9. ExactCount'
  <2>1. CountedNodes' = total_count /\ total_count \in Nat
    BY <1>0, <1>1 DEF CountedNodes, TypeOK
  <2>2. CountedNodes' <= CountedNodes /\ ("buffers" \notin failures => CountedNodes' = CountedNodes)
    BY <2>1 DEF CountedNodes
  <2>3. CountedNodes \in Nat
    BY <2>1 DEF CountedNodes
  <2>4. "device" \notin failures => CountedNodes' <= Cardinality(Nodes)
    BY <2>1, <2>2, <2>3, FiniteChannels DEF Inv, ExactCount
  <2> QED
    BY <1>1, <1>2, <1>3, <2>2, <2>4 DEF Inv, ExactCount
<1> QED
  BY <1>4, <1>5, <1>6, <1>7, <1>8, <1>9 DEF Inv

\* The next call of create_channel, for the same channel.
LEMMA ContinueStep ==
  ASSUME Inv, TypeOK', step \in {"request", "region", "cdev"},
         step' \in {"region", "cdev", "class"},
         NEW r \in Resources, Hold(creating, r), step = "request" => r = "chan",
         UNCHANGED <<modeVars, loaded, bound, creating, node, local_class_p, classes, total_count, probes>>
  PROVE  Inv'
<1> USE DEF Hold, modeVars
<1>0. TypeOK /\ ProbeInStep /\ Resourced /\ Clean
      /\ held \in [Channels -> SUBSET Resources] /\ creating \in Channels /\ bound[creating[1]] = "probing"
  BY DEF Inv, TypeOK, ProbeInStep
<1>1. \A c \in Channels : held[c] \subseteq held'[c] /\ (c # creating => held'[c] = held[c])
  BY <1>0
<1>2. \A c \in Channels : Done(c)' <=> Done(c)
  BY DEF Done
<1>3. DoneChannels' = DoneChannels /\ Nodes' = Nodes
  BY <1>2 DEF DoneChannels, Nodes
<1>4. ProbeInStep'
  BY <1>0 DEF ProbeInStep
<1>5. Resourced'
  BY <1>0, <1>1, <1>2, <1>3 DEF Resourced, CanTransfer, Nodes
<1>6. Clean'
  BY <1>0, <1>1 DEF Clean
<1>7. Counted' /\ ClassKept'
  BY <1>2, <1>3 DEF Inv, Counted, ClassKept
<1>8. ExactCount'
  <2>1. CountedNodes' = CountedNodes
    BY DEF CountedNodes
  <2> QED
    BY <1>2, <1>3, <2>1 DEF Inv, ExactCount
<1> QED
  BY <1>4, <1>5, <1>6, <1>7, <1>8 DEF Inv

\* Up to cdev_add.
LEMMA ResourceStep ==
  ASSUME Inv, TypeOK', RequestChannel \/ AllocRegion \/ AddCdev, UNCHANGED modeVars
  PROVE  Inv'
<1>1. /\ step \in {"request", "region", "cdev"}
      /\ UNCHANGED <<modeVars, loaded, node, local_class_p, classes, total_count, probes>>
  BY DEF RequestChannel, AllocRegion, AddCdev
<1>2. \/ failures # {} /\ \E drop \in SUBSET {"region"} : FailProbe(drop)
      \/ \E r \in Resources : /\ Hold(creating, r) /\ (step = "request" => r = "chan")
                              /\ step' \in {"region", "cdev", "class"} /\ UNCHANGED <<bound, creating>>
  BY DEF RequestChannel, AllocRegion, AddCdev, May, Continue, Resources
<1>3. ASSUME failures # {}, NEW drop \in SUBSET {"region"}, FailProbe(drop) PROVE Inv'
  BY <1>1, <1>3, FailStep
<1>4. ASSUME NEW r \in Resources, Hold(creating, r), step = "request" => r = "chan",
             step' \in {"region", "cdev", "class"}, UNCHANGED <<bound, creating>>
      PROVE  Inv'
  BY <1>1, <1>4, ContinueStep
<1> QED
  BY <1>2, <1>3, <1>4

\* class_create, unless the static remembers a class.
LEMMA CreateClassStep ==
  ASSUME Inv, TypeOK', CreateClass, UNCHANGED modeVars
  PROVE  Inv'
<1> USE DEF CreateClass, Continue, modeVars
<1>0. TypeOK /\ ProbeInStep /\ Resourced /\ Clean /\ step = "class" /\ step' = "device" /\ probes >= 1 /\ probes \in Nat
      /\ UNCHANGED <<failures, rebinds, loaded, bound, creating, held, node, total_count, probes>>
      /\ NoClass = 0 /\ NoNode = 0 /\ classes \subseteq 1..MaxProbes
  BY DEF Inv, ProbeInStep, TypeOK, NoClass, NoNode
<1>1. \A c \in Channels : Done(c)' <=> Done(c)
  BY <1>0 DEF Done
<1>2. DoneChannels' = DoneChannels /\ Nodes' = Nodes
  BY <1>0, <1>1 DEF DoneChannels, Nodes
<1>3. local_class_p' # NoClass
  BY <1>0 DEF NeedsClass
<1>4. ProbeInStep' /\ Resourced' /\ Clean' /\ Counted'
  BY <1>0, <1>1, <1>2, <1>3 DEF Inv, ProbeInStep, Resourced, CanTransfer, Clean, Counted
<1>5. classes \subseteq classes' /\ (local_class_p = NoClass => local_class_p' \in classes')
  BY DEF NeedsClass
<1>6. local_class_p # NoClass => UNCHANGED <<local_class_p, classes>>
  BY DEF NeedsClass
<1>7. ClassKept'
  BY <1>0, <1>1, <1>5, <1>6 DEF Inv, ClassKept
<1>8. ExactCount'
  <2>1. SUFFICES ASSUME "device" \notin failures PROVE ExactCount'
    BY <1>0 DEF ExactCount
  <2>2. local_class_p = NoClass => Nodes = {} /\ classes = {} /\ classes' = {local_class_p'}
    BY <1>0, <2>1 DEF Inv, ExactCount, Nodes, NeedsClass
  <2>3. local_class_p # NoClass => UNCHANGED <<local_class_p, classes>>
    BY <1>6
  <2>4. /\ \A c \in Nodes : node[c] = local_class_p
        /\ classes \subseteq {local_class_p}
        /\ CountedNodes <= Cardinality(Nodes)
        /\ "buffers" \notin failures => Cardinality(Nodes) = CountedNodes
        /\ ~rebinds /\ Nodes # {} => local_class_p \in classes
        /\ \A c \in Channels : Done(c) => c \in Nodes
        /\ loaded = "yes" /\ CountedNodes' = CountedNodes
    BY <1>0, <2>1 DEF Inv, ExactCount, ProbeInStep, CountedNodes
  <2>5. /\ \A c \in Nodes : node[c] = local_class_p'
        /\ classes' \subseteq {local_class_p'}
        /\ ~rebinds /\ Nodes # {} => local_class_p' \in classes'
    <3>1. CASE local_class_p = NoClass
      BY <2>2, <3>1
    <3>2. CASE local_class_p # NoClass
      BY <2>3, <2>4, <3>2
    <3> QED
      BY <3>1, <3>2
  <2> QED
    BY <1>0, <1>1, <1>2, <2>4, <2>5 DEF ExactCount
<1> QED
  BY <1>4, <1>7, <1>8 DEF Inv

\* A device node for the channel: in the class, or an ERR_PTR that passes for one.
LEMMA CreateDeviceStep ==
  ASSUME Inv, TypeOK', CreateDevice, UNCHANGED modeVars
  PROVE  Inv'
<1> USE DEF CreateDevice, Continue, modeVars
<1>0. /\ TypeOK /\ ProbeInStep /\ Resourced /\ Clean /\ step = "device" /\ step' = "buffers"
      /\ UNCHANGED <<failures, rebinds, loaded, bound, creating, local_class_p, total_count, probes>>
      /\ NoClass = 0 /\ NoNode = 0 /\ ErrPtr # 0 /\ creating \in Channels /\ loaded = "yes"
      /\ local_class_p # 0 /\ bound[creating[1]] = "probing"
      /\ node \in [Channels -> 0..MaxProbes + 1] /\ held \in [Channels -> SUBSET Resources]
  BY ModuleAssumption DEF Inv, ProbeInStep, TypeOK, NoClass, NoNode, ErrPtr
<1>1. \A c \in Channels : Done(c)' <=> Done(c)
  BY <1>0 DEF Done
<1>2. /\ \A c \in Channels : c # creating => held'[c] = held[c] /\ node'[c] = node[c]
      /\ node'[creating] # NoNode
      /\ "chan" \in held[creating] => "chan" \in held'[creating]
      /\ "device" \notin failures => node'[creating] = local_class_p /\ UNCHANGED classes
  BY <1>0 DEF May, Drop
<1>3. ~Done(creating) /\ node[creating] = NoNode
  BY <1>0, ChannelFacts DEF Done, Clean
<1>4. DoneChannels' = DoneChannels /\ Nodes' = Nodes \cup {creating} /\ creating \notin Nodes
  BY <1>0, <1>1, <1>2, <1>3 DEF DoneChannels, Nodes
<1>5. ProbeInStep'
  BY <1>0 DEF ProbeInStep, NoClass
<1>6. Resourced'
  BY <1>0, <1>1, <1>2, <1>3, <1>4 DEF Resourced, CanTransfer, Nodes
<1>7. Clean'
  BY <1>0, <1>2, ChannelFacts DEF Clean
<1>8. Counted'
  BY <1>0, <1>4 DEF Inv, Counted
<1>9. ClassKept'
  BY <1>0, <1>1, <1>2, <1>3 DEF Inv, ClassKept
<1>10. ExactCount'
  <2>1. SUFFICES ASSUME "device" \notin failures PROVE ExactCount'
    BY <1>0 DEF ExactCount
  <2>2. /\ \A c \in Nodes : node[c] = local_class_p
        /\ classes \subseteq {local_class_p} /\ total_count <= Cardinality(Nodes)
        /\ "buffers" \notin failures => Cardinality(Nodes) = total_count
        /\ \A c \in Channels : Done(c) => c \in Nodes
    BY <1>0, <2>1 DEF Inv, ExactCount, CountedNodes
  <2>3. "device" \notin failures
    BY <2>1
  <2>4. \A c \in Nodes' : node'[c] = local_class_p
    BY <1>2, <1>4, <2>2, <2>3 DEF Nodes
  <2>5. Cardinality(Nodes') = Cardinality(Nodes) + 1 /\ CountedNodes' = total_count + 1
    BY <1>0, <1>4, FiniteChannels, FS_AddElement DEF CountedNodes
  <2>7. CountedNodes' <= Cardinality(Nodes') /\ ("buffers" \notin failures => Cardinality(Nodes') = CountedNodes')
    BY <1>0, <2>2, <2>5, FiniteChannels DEF TypeOK
  <2>6. ~rebinds => local_class_p \in classes
    BY <1>0, <2>3 DEF Inv, ClassKept
  <2> QED
    BY <1>0, <1>1, <1>2, <1>4, <2>2, <2>3, <2>4, <2>6, <2>7 DEF ExactCount
<1> QED
  BY <1>5, <1>6, <1>7, <1>8, <1>9, <1>10 DEF Inv

\* The channel is done: on to the next, or the probe is over.
LEMMA BuffersStep ==
  ASSUME Inv, TypeOK', AllocBuffers, UNCHANGED modeVars
  PROVE  Inv'
<1> USE DEF modeVars
<1>0. /\ TypeOK /\ ProbeInStep /\ Resourced /\ Clean /\ step = "buffers"
      /\ UNCHANGED <<failures, rebinds, loaded, node, local_class_p, classes, probes>>
      /\ creating \in Channels /\ loaded = "yes" /\ bound[creating[1]] = "probing"
      /\ held \in [Channels -> SUBSET Resources]
      /\ bound \in [Devices -> {"unbound", "probing", "bound", "failed"}]
      /\ total_count \in Nat /\ ChannelCount \in Nat
  BY ModuleAssumption DEF Inv, ProbeInStep, TypeOK, AllocBuffers
<1>a. \/ "buffers" \in failures /\ FailProbe({}) /\ UNCHANGED total_count
      \/ GetBuffers /\ IF MoreChannels
                          THEN /\ creating' = <<creating[1], creating[2] + 1>>
                               /\ step' = "request" /\ UNCHANGED bound
                          ELSE /\ bound' = [bound EXCEPT ![creating[1]] = "bound"]
                               /\ creating' = Nobody /\ step' = "idle"
  BY DEF AllocBuffers, May
<1>1. CASE "buffers" \in failures /\ FailProbe({}) /\ UNCHANGED total_count
  BY <1>0, <1>1, FailStep
<1>2. CASE GetBuffers /\ IF MoreChannels
                          THEN /\ creating' = <<creating[1], creating[2] + 1>>
                               /\ step' = "request" /\ UNCHANGED bound
                          ELSE /\ bound' = [bound EXCEPT ![creating[1]] = "bound"]
                               /\ creating' = Nobody /\ step' = "idle"
  <2>1. PICK d \in Devices, n \in 1..ChannelCount : creating = <<d, n>> /\ creating[1] = d /\ creating[2] = n
    BY <1>0, ChannelFacts
  <2>2. /\ total_count' = total_count + 1
        /\ {"chan", "buffers"} \subseteq held'[creating]
        /\ \A c \in Channels : c # creating => held'[c] = held[c]
        /\ \A c \in Channels : "chan" \in held[c] => "chan" \in held'[c]
    BY <1>0, <1>2 DEF GetBuffers, Hold, Resourced
  <2>3. \/ n < ChannelCount /\ creating' = <<d, n + 1>> /\ step' = "request" /\ UNCHANGED bound
        \/ n = ChannelCount /\ bound' = [bound EXCEPT ![d] = "bound"] /\ creating' = Nobody /\ step' = "idle"
    BY <1>0, <1>2, <2>1 DEF MoreChannels
  <2>4. \A c \in Channels : c[1] \in Devices /\ c[2] \in 1..ChannelCount /\ (c = creating <=> c[1] = d /\ c[2] = n)
    BY <2>1, ChannelFacts
  <2>5. n + 1 <= ChannelCount => /\ <<d, n + 1>> \in Channels /\ <<d, n + 1>>[1] = d
                                 /\ <<d, n + 1>>[2] = n + 1
    BY <1>0, <2>1, ChannelFacts
  <2>6. \A e \in Devices : bound[e] = "probing" => e = d
    BY <1>0, <2>1 DEF ProbeInStep
  <2>7. \A c \in Channels : (Done(c)' <=> Done(c) \/ c = creating) /\ (c = creating => ~Done(c))
    <3>1. SUFFICES ASSUME NEW c \in Channels
                   PROVE  (Done(c)' <=> Done(c) \/ c = creating) /\ (c = creating => ~Done(c))
      OBVIOUS
    <3>2. CASE c[1] # d
      <4>1. bound'[c[1]] = bound[c[1]] /\ bound[c[1]] # "probing" /\ c # creating
        BY <1>0, <2>3, <2>4, <2>6, <3>2
      <4> QED
        BY <4>1 DEF Done
    <3>3. CASE c[1] = d
      <4>1. bound[c[1]] = "probing" /\ (Done(c) <=> c[2] < n) /\ (c = creating <=> c[2] = n)
        BY <1>0, <2>1, <2>4, <3>3 DEF Done
      <4>2. Done(c)' <=> c[2] <= n
        <5>1. CASE n < ChannelCount
          BY <2>3, <2>4, <2>5, <3>3, <4>1, <5>1 DEF Done
        <5>2. CASE n = ChannelCount
          BY <1>0, <2>3, <2>4, <3>3, <4>1, <5>2 DEF Done
        <5> QED
          BY <2>3, <5>1, <5>2
      <4> QED
        BY <2>4, <4>1, <4>2
    <3> QED
      BY <3>2, <3>3
  <2>8. DoneChannels' = DoneChannels \cup {creating} /\ creating \notin DoneChannels /\ Nodes' = Nodes
    BY <1>0, <2>7 DEF DoneChannels, Nodes
  <2>9. ProbeInStep'
    BY <1>0, <2>1, <2>3, <2>5, <2>6 DEF ProbeInStep, NoClass
  <2>10. Resourced'
    BY <1>0, <2>2, <2>3, <2>7, <2>8 DEF Resourced, CanTransfer, Nodes
  <2>11. Clean'
    <3>1. \A c \in Channels : bound'[c[1]] = "unbound" => bound[c[1]] = "unbound" /\ c # creating
      BY <1>0, <2>1, <2>3, <2>4
    <3>2. \A c \in Channels : bound'[c[1]] = "probing" =>
            bound[c[1]] = "probing" /\ c[1] = d /\ n < ChannelCount /\ creating'[2] = n + 1
      BY <1>0, <2>3, <2>4, <2>5, <2>6
    <3>3. \A c \in Channels : /\ bound'[c[1]] = "probing"
                              /\ c[2] > creating'[2] \/ c = creating'
                              => node[c] = NoNode
      <4>1. SUFFICES ASSUME NEW c \in Channels, bound'[c[1]] = "probing", c[2] > creating'[2] \/ c = creating'
                     PROVE  node[c] = NoNode
        OBVIOUS
      <4>2. bound[c[1]] = "probing" /\ c[2] > n
        BY <2>1, <2>4, <3>2, <4>1
      <4> QED
        BY <1>0, <2>1, <4>2 DEF Clean
    <3> QED
      BY <1>0, <2>2, <3>1, <3>3 DEF Clean
  <2>12. Counted'
    <3>1. Cardinality(DoneChannels') = Cardinality(DoneChannels) + 1
      BY <2>8, FiniteChannels, FS_AddElement
    <3>2. Cardinality(DoneChannels) <= total_count
      BY DEF Inv, Counted
    <3> QED
      BY <1>0, <2>2, <3>1, <3>2, FiniteChannels DEF Counted
  <2>13. ClassKept'
    <3>1. step' # "buffers"
      BY <2>3
    <3> QED
      BY <1>0, <2>7, <3>1 DEF Inv, ClassKept
  <2>14. ExactCount'
    <3>1. SUFFICES ASSUME "device" \notin failures PROVE ExactCount'
      BY <1>0 DEF ExactCount
    <3>2. /\ \A c \in Nodes : node[c] = local_class_p
          /\ classes \subseteq {local_class_p} /\ total_count + 1 <= Cardinality(Nodes)
          /\ "buffers" \notin failures => Cardinality(Nodes) = total_count + 1
          /\ classes # {} => Nodes # {}
          /\ ~rebinds /\ Nodes # {} => local_class_p \in classes
          /\ \A c \in Channels : Done(c) \/ c = creating => c \in Nodes
      BY <1>0, <3>1 DEF Inv, ExactCount, CountedNodes
    <3>3. step' \notin {"device", "buffers"} /\ CountedNodes' = total_count + 1
      BY <2>2, <2>3 DEF CountedNodes
    <3>4. \A c \in Channels : Done(c)' \/ (step' = "buffers" /\ c = creating') => c \in Nodes
      BY <2>7, <3>2, <3>3
    <3> QED
      BY <1>0, <2>2, <2>8, <3>2, <3>3, <3>4 DEF ExactCount
  <2> QED
    BY <2>9, <2>10, <2>11, <2>12, <2>13, <2>14 DEF Inv
<1> QED
  BY <1>a, <1>1, <1>2

\* Removing a device takes its ChannelCount nodes; the channel numbered total_count, if
\* the device has one, destroys the class, and it has one when no other node is left.
LEMMA RemoveStep ==
  ASSUME Inv, TypeOK', NEW d \in Devices, Remove(d), UNCHANGED modeVars
  PROVE  Inv'
<1> DEFINE last == {c \in Mine(d) : FindsLast(c)}
<1>1. /\ TypeOK /\ ProbeInStep /\ Resourced /\ Clean /\ total_count \in Nat /\ ChannelCount \in Nat
      /\ bound \in [Devices -> {"unbound", "probing", "bound", "failed"}]
      /\ node \in [Channels -> 0..MaxProbes + 1] /\ held \in [Channels -> SUBSET Resources]
  BY ModuleAssumption DEF Inv, TypeOK
<1>2. /\ step = "idle" /\ bound[d] = "bound" /\ (loaded = "going" \/ rebinds)
      /\ bound' = [bound EXCEPT ![d] = "unbound"]
      /\ node' = [c \in Channels |-> IF c \in Mine(d) THEN NoNode ELSE node[c]]
      /\ classes' = classes \ {node[c] : c \in last}
      /\ held' = [c \in Channels |-> IF c \in Mine(d) THEN {} ELSE held[c]]
      /\ total_count' = total_count - ChannelCount
      /\ UNCHANGED <<failures, rebinds, loaded, creating, step, local_class_p, probes>>
  BY DEF Remove, Mine, modeVars
<1> HIDE DEF last
<1>3. /\ \A e \in Devices : bound'[e] = IF e = d THEN "unbound" ELSE bound[e]
      /\ \A e \in Devices : bound[e] # "probing"
      /\ loaded # "no"
  BY <1>1, <1>2 DEF ProbeInStep
<1>4. \A c \in Channels : /\ c[1] \in Devices /\ (c \in Mine(d) <=> c[1] = d)
                          /\ node'[c] = IF c[1] = d THEN NoNode ELSE node[c]
                          /\ held'[c] = IF c[1] = d THEN {} ELSE held[c]
  BY <1>2, MineFacts, ChannelFacts
<1>5. \A c \in Channels : /\ Done(c) <=> bound[c[1]] = "bound"
                          /\ Done(c)' <=> Done(c) /\ c[1] # d
  BY <1>2, <1>3, <1>4 DEF Done
<1>6. /\ Mine(d) \subseteq DoneChannels /\ DoneChannels' = DoneChannels \ Mine(d)
      /\ Nodes' = Nodes \ Mine(d)
  BY <1>2, <1>4, <1>5, MineFacts DEF DoneChannels, Nodes
<1>7. /\ Cardinality(DoneChannels) = Cardinality(DoneChannels') + ChannelCount
      /\ Cardinality(DoneChannels) <= total_count
      /\ Cardinality(DoneChannels') \in Nat
  BY <1>6, WithoutMine DEF DoneChannels, Inv, Counted
<1>8. total_count >= ChannelCount /\ total_count' = total_count - ChannelCount
  BY <1>1, <1>2, RemovedCounted DEF Inv
<1>9. total_count > ChannelCount => last = {} /\ classes' = classes
  <2>1. ASSUME total_count > ChannelCount, NEW c \in Mine(d), FindsLast(c) PROVE FALSE
    <3>1. c[2] \in 1..ChannelCount
      BY MineFacts, ChannelFacts
    <3> QED
      BY <1>1, <2>1, <3>1 DEF FindsLast
  <2> QED
    BY <1>2, <2>1 DEF last
<1>10. ProbeInStep'
  BY <1>1, <1>2, <1>3 DEF ProbeInStep
<1>11. Resourced'
  BY <1>1, <1>2, <1>4, <1>5, <1>6 DEF Resourced, CanTransfer, Nodes
<1>12. Clean'
  BY <1>1, <1>2, <1>3, <1>4 DEF Clean
<1>13. Counted'
  BY <1>1, <1>7, <1>8 DEF Counted
<1>14. ClassKept'
  <2>1. SUFFICES ASSUME "device" \notin failures, ~rebinds PROVE ClassKept'
    BY <1>2 DEF ClassKept
  <2>2. loaded' = "going" /\ step' = "idle"
    BY <1>2, <2>1
  <2>3. ASSUME NEW c \in Channels, Done(c)' PROVE node'[c] \in classes'
    <3>1. c \in DoneChannels'
      BY <2>3 DEF DoneChannels
    <3>2. Mine(c[1]) \subseteq DoneChannels'
      <4>1. bound[c[1]] = "bound" /\ c[1] # d /\ c[1] \in Devices
        BY <1>4, <1>5, <2>3
      <4> QED
        BY <1>5, <4>1, MineFacts DEF DoneChannels
    <3>3. ChannelCount <= Cardinality(DoneChannels') /\ ChannelCount >= 1
      <4>1. c[1] \in Devices /\ c[2] \in 1..ChannelCount
        BY ChannelFacts
      <4>2. Cardinality(Mine(c[1])) <= Cardinality(DoneChannels')
        BY <3>2, FiniteChannelsNext, Monotone
      <4> QED
        BY <1>1, <4>1, <4>2, MineFacts
    <3>4. classes' = classes
      BY <1>1, <1>7, <1>9, <3>3
    <3>5. node[c] \in classes
      BY <1>5, <2>1, <2>3 DEF Inv, ClassKept
    <3> QED
      BY <1>4, <1>5, <2>3, <3>4, <3>5
  <2> QED
    BY <2>2, <2>3 DEF ClassKept
<1>15. ExactCount'
  <2>1. SUFFICES ASSUME "device" \notin failures PROVE ExactCount'
    BY <1>2 DEF ExactCount
  <2>2. /\ \A c \in Nodes : node[c] = local_class_p
        /\ classes \subseteq {local_class_p} /\ total_count <= Cardinality(Nodes)
        /\ "buffers" \notin failures => Cardinality(Nodes) = total_count
        /\ classes # {} => Nodes # {}
        /\ ~rebinds /\ Nodes # {} /\ "buffers" \notin failures => local_class_p \in classes
        /\ \A c \in Channels : Done(c) => c \in Nodes
    BY <1>2, <2>1 DEF Inv, ExactCount, CountedNodes
  <2>3. Mine(d) \subseteq Nodes
    BY <1>6, <2>2 DEF DoneChannels
  <2>4. Cardinality(Nodes') = Cardinality(Nodes) - ChannelCount /\ Cardinality(Nodes') \in Nat
        /\ Cardinality(Nodes) \in Nat
    BY <1>1, <1>6, <2>3, WithoutMine DEF Nodes
  <2>8. CountedNodes' = total_count - ChannelCount
    BY <1>2 DEF CountedNodes
  <2>9. CountedNodes' <= Cardinality(Nodes') /\ ("buffers" \notin failures => Cardinality(Nodes') = CountedNodes')
    BY <1>1, <2>2, <2>4, <2>8
  <2>5. Nodes' # {} /\ "buffers" \notin failures => classes' = classes
    <3>1. Nodes' # {} => Cardinality(Nodes') # 0
      BY FiniteChannelsNext, FS_EmptySet
    <3> QED
      BY <1>1, <1>9, <2>2, <2>4, <3>1
  <2>6. Nodes' = {} => classes' = {}
    <3>1. SUFFICES ASSUME Nodes' = {}, Nodes # {} PROVE classes' = {}
      BY <1>2, <2>2
    <3>2. total_count = ChannelCount
      BY <1>1, <1>8, <2>2, <2>4, <3>1, FS_EmptySet
    <3>3. ChannelCount \in 1..ChannelCount
      BY <1>1, <3>1, ChannelFacts DEF Nodes
    <3>4. <<d, ChannelCount>> \in Nodes /\ <<d, ChannelCount>> \in Mine(d) /\ <<d, ChannelCount>>[2] = ChannelCount
      BY <2>3, <3>3, ChannelFacts DEF Mine
    <3>5. FindsLast(<<d, ChannelCount>>)
      BY <1>1, <3>2, <3>3, <3>4 DEF FindsLast, Nodes
    <3>6. node[<<d, ChannelCount>>] = local_class_p /\ <<d, ChannelCount>> \in last
      BY <2>2, <3>4, <3>5 DEF last
    <3> QED
      BY <1>2, <2>2, <3>6
  <2>7. /\ \A c \in Nodes' : node'[c] = local_class_p
        /\ \A c \in Channels : Done(c)' => c \in Nodes'
    BY <1>4, <1>5, <1>6, <2>2 DEF Nodes
  <2> QED
    <3>1. classes' \subseteq {local_class_p'} /\ (classes' # {} => Nodes' # {})
      BY <1>2, <2>2, <2>6
    <3>2. ~rebinds /\ Nodes' # {} /\ (loaded' = "yes" \/ "buffers" \notin failures) => local_class_p' \in classes'
      BY <1>2, <1>6, <2>2, <2>5
    <3> QED
      BY <1>2, <2>7, <2>9, <3>1, <3>2 DEF ExactCount
<1> QED
  BY <1>10, <1>11, <1>12, <1>13, <1>14, <1>15 DEF Inv

\* Unloading begins: nothing but loaded changes.
LEMMA BeginUnloadStep ==
  ASSUME Inv, TypeOK', BeginUnload, UNCHANGED modeVars
  PROVE  Inv'
<1> USE DEF BeginUnload, modeVars
<1>1. /\ loaded = "yes" /\ loaded' = "going" /\ step = "idle"
      /\ UNCHANGED <<failures, rebinds, bound, creating, step, held, node, local_class_p, classes, total_count, probes>>
  OBVIOUS
<1>2. \A c \in Channels : Done(c)' <=> Done(c)
  BY DEF Done
<1>3. DoneChannels' = DoneChannels /\ Nodes' = Nodes
  BY <1>1, <1>2 DEF DoneChannels, Nodes
<1>4. ProbeInStep' /\ Resourced' /\ Clean'
  BY <1>1, <1>2, <1>3 DEF Inv, ProbeInStep, Resourced, CanTransfer, Clean
<1>5. Counted' /\ ClassKept' /\ ExactCount'
  BY <1>1, <1>2, <1>3 DEF Inv, Counted, ClassKept, ExactCount, CountedNodes
<1> QED
  BY <1>4, <1>5 DEF Inv

\* Unloaded: no device was bound any more, so no channel is done.
LEMMA UnloadStep ==
  ASSUME Inv, TypeOK', Unload, UNCHANGED modeVars
  PROVE  Inv'
<1> USE DEF Unload, modeVars
<1>1. /\ loaded = "going" /\ loaded' = "no" /\ TypeOK /\ ProbeInStep /\ Resourced /\ Clean
      /\ \A d \in Devices : bound[d] # "bound"
      /\ UNCHANGED <<failures, rebinds, creating, step, held, node, local_class_p, classes, total_count, probes>>
  BY DEF Inv
<1>2. step = "idle" /\ \A d \in Devices : bound[d] # "probing" /\ bound'[d] = "unbound"
  BY <1>1 DEF ProbeInStep
<1>3. \A c \in Channels : ~Done(c) /\ ~Done(c)' /\ bound'[c[1]] = "unbound"
                          /\ bound[c[1]] \in {"unbound", "failed"}
  BY <1>1, <1>2, ChannelFacts DEF Done, TypeOK
<1>4. DoneChannels = {} /\ DoneChannels' = {} /\ Nodes' = Nodes
  BY <1>1, <1>3 DEF DoneChannels, Nodes
<1>5. ProbeInStep' /\ Resourced'
  BY <1>1, <1>2, <1>3, <1>4 DEF ProbeInStep, Resourced
<1>6. Clean'
  <2>1. failures = {} => \A c \in Channels : bound[c[1]] = "unbound"
    BY <1>1, <1>3, ChannelFacts DEF ProbeInStep
  <2> QED
    BY <1>1, <1>3, <2>1 DEF Clean
<1>7. Counted' /\ ClassKept' /\ ExactCount'
  BY <1>1, <1>2, <1>3, <1>4 DEF Inv, Counted, ClassKept, ExactCount, CountedNodes
<1> QED
  BY <1>5, <1>6, <1>7 DEF Inv

\* No module, no channel.
LEMMA InitInv == Init => Inv
<1> SUFFICES ASSUME Init PROVE Inv
  OBVIOUS
<1> USE DEF Init
<1>1. /\ \A d \in Devices : bound[d] = "unbound"
      /\ \A c \in Channels : held[c] = {} /\ node[c] = NoNode /\ bound[c[1]] = "unbound"
  BY ChannelFacts
<1>2. DoneChannels = {} /\ Nodes = {} /\ Cardinality({}) = 0
  BY <1>1, FS_EmptySet DEF DoneChannels, Done, Nodes
<1>3. TypeOK
  BY ModuleAssumption DEF TypeOK, NoNode, NoClass
<1>4. ProbeInStep /\ Resourced /\ Clean
  BY <1>1, <1>2 DEF ProbeInStep, Resourced, Done, Clean
<1>5. Counted /\ ClassKept /\ ExactCount
  BY <1>1, <1>2 DEF Counted, ClassKept, ExactCount, CountedNodes, Done
<1> QED
  BY <1>3, <1>4, <1>5 DEF Inv

\* Inv is inductive.
LEMMA NextInv == Inv /\ [Next]_vars => Inv'
<1> SUFFICES ASSUME Inv, [Next]_vars PROVE Inv'
  OBVIOUS
<1>1. CASE UNCHANGED vars
  BY <1>1 DEF vars, modeVars, Inv, TypeOK, ProbeInStep, Resourced, CanTransfer, Clean, Counted, DoneChannels,
              Done, ClassKept, ExactCount, CountedNodes, Nodes
<1>2. CASE Next
  <2>1. TypeOK' /\ UNCHANGED modeVars
    BY <1>2, TypeStep DEF Next
  <2>2. CASE \E d \in Devices : Probe(d) \/ Remove(d)
    BY <2>1, <2>2, ProbeStep, RemoveStep
  <2>3. CASE Load \/ BeginUnload \/ Unload
    BY <2>1, <2>3, LoadStep, BeginUnloadStep, UnloadStep
  <2>4. CASE RequestChannel \/ AllocRegion \/ AddCdev \/ CreateClass
    BY <2>1, <2>4, ResourceStep, CreateClassStep
  <2>5. CASE CreateDevice \/ AllocBuffers
    BY <2>1, <2>5, CreateDeviceStep, BuffersStep
  <2> QED
    BY <1>2, <2>2, <2>3, <2>4, <2>5 DEF Next
<1> QED
  BY <1>1, <1>2

\* The inductive invariant holds of the module from before it is first loaded.
THEOREM ModuleInvariant == Spec => []Inv
BY InitInv, NextInv, PTL DEF Spec

\* Every variable keeps its type; the static of cdevice_init, in particular, is always a class
\* some probe created or NULL, and total_count never goes below zero.
THEOREM TypeCorrect == Spec => []TypeOK
<1>1. Inv => TypeOK
  BY DEF Inv
<1> QED
  BY <1>1, ModuleInvariant, PTL

\* For any number of devices and channels: unless a device_create fails or devices are
\* bound again, the class of a node exists as long as the module is loaded, and while it is
\* unloaded too unless an allocation of buffers failed; there is never a second class; and
\* without failures a module that is unloaded leaves nothing behind.
THEOREM ClassLives == Spec => []ClassOutlivesNodes
<1>1. Inv => ClassOutlivesNodes
  <2> SUFFICES ASSUME Inv PROVE ClassOutlivesNodes
    OBVIOUS
  <2>1. ASSUME "device" \notin failures, ~rebinds
        PROVE  (loaded = "yes" \/ "buffers" \notin failures => NodesLive) /\ Cardinality(classes) <= 1
    <3>1. /\ classes \subseteq {local_class_p}
          /\ loaded = "yes" \/ "buffers" \notin failures =>
               \A c \in Nodes : node[c] = local_class_p /\ local_class_p \in classes
      BY <2>1 DEF Inv, ExactCount
    <3>2. IsFiniteSet({local_class_p}) /\ Cardinality({local_class_p}) = 1
      BY FS_Singleton
    <3>3. Cardinality(classes) <= 1
      BY <3>1, <3>2, FS_Subset
    <3> QED
      BY <3>1, <3>3 DEF Nodes, NodesLive
  <2>2. ASSUME failures = {}, loaded = "no"
        PROVE  classes = {} /\ \A c \in Channels : held[c] = {} /\ node[c] = NoNode
    <3>1. step = "idle" /\ \A c \in Channels : bound[c[1]] = "unbound"
      BY <2>2, ChannelFacts DEF Inv, ProbeInStep
    <3>2. \A c \in Channels : held[c] = {} /\ node[c] = NoNode
      BY <2>2, <3>1 DEF Inv, Clean
    <3>3. classes = {}
      BY <2>2, <3>1, <3>2 DEF Inv, ExactCount, Nodes
    <3> QED
      BY <3>2, <3>3
  <2> QED
    BY <2>1, <2>2 DEF ClassOutlivesNodes
<1> QED
  BY <1>1, ModuleInvariant, PTL

\* Every channel of a device that probed without error has its DMA channel and its buffers, and
\* its node is in a class that exists.
THEOREM BoundUsable == Spec => []BoundMeansUsable
<1>1. Inv => BoundMeansUsable
  BY DEF Inv, Resourced, ClassKept, Done, BoundMeansUsable, BoundChannels, Accessible
<1> QED
  BY <1>1, ModuleInvariant, PTL
=============================================================================
