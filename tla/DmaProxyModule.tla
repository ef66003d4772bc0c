--------------------------- MODULE DmaProxyModule ---------------------------
(***************************************************************************)
(* The life of the dma-proxy kernel module: loading, probing each device   *)
(* tree node that matches, removing, unloading.  A probe creates the       *)
(* node's channels one after another (create_channel and cdevice_init);    *)
(* each channel takes a DMA channel, a character device number, a cdev, a  *)
(* device node in the class all channels share, and its buffers.  The      *)
(* class is remembered in a static of cdevice_init and destroyed by the    *)
(* last cdevice_exit, which recognizes itself by the global total_count.   *)
(***************************************************************************)
EXTENDS Integers, FiniteSets

CONSTANTS
  Devices,      \* device tree nodes with compatible "xlnx,dma_proxy"
  ChannelCount, \* strings in the dma-names of each
  MaxProbes     \* bound: probes in a behaviour

FailingCalls == {"request", "region", "cdev", "device", "buffers"}

ASSUME ModuleAssumption ==
  IsFiniteSet(Devices) /\ ChannelCount \in Nat /\ MaxProbes \in Nat

\* What a behaviour may meet, chosen once.
VARIABLES
  failures,     \* the calls that may fail
  rebinds       \* may a device be unbound and bound again through sysfs?

VARIABLES
  loaded,       \* the module: "no", "yes", or "going" (being unloaded)
  bound,        \* per device: "unbound", "probing", "bound" or "failed"
  creating,     \* the channel the probe in progress creates, <<device, n>>
  step,         \* the step of create_channel it is at
  held,         \* per channel: the resources it holds
  node,         \* per channel: the class its device node lives in, or NoNode
  local_class_p, \* the static of cdevice_init, NoClass when NULL
  classes,      \* kernel: the classes that exist
  total_count,
  probes        \* history: probes so far

modeVars == <<failures, rebinds>>
vars == <<modeVars, loaded, bound, creating, step, held, node, local_class_p, classes,
          total_count, probes>>

Channels == Devices \X (1..ChannelCount)
NoClass == 0
NoNode == 0
ErrPtr == MaxProbes + 1         \* the ERR_PTR a failed device_create returns
Resources == {"chan", "region", "cdev", "buffers"}
Nobody == <<>>

Init == /\ failures \in SUBSET FailingCalls /\ rebinds \in BOOLEAN
        /\ loaded = "no"
        /\ bound = [d \in Devices |-> "unbound"]
        /\ creating = Nobody /\ step = "idle"
        /\ held = [c \in Channels |-> {}]
        /\ node = [c \in Channels |-> NoNode]
        /\ local_class_p = NoClass /\ classes = {}
        /\ total_count = 0 /\ probes = 0

May(call) == call \in failures

Hold(c, r) == held' = [held EXCEPT ![c] = @ \cup {r}]
Drop(c, rs) == held' = [held EXCEPT ![c] = @ \ rs]

\* dma_proxy_init: the statics of a fresh module are zero.  Loading again over
\* what a failed probe left behind is outside the model (the class exists).
Load == /\ loaded = "no" /\ probes < MaxProbes
        /\ \A c \in Channels : held[c] = {}
        /\ loaded' = "yes"
        /\ local_class_p' = NoClass /\ total_count' = 0
        /\ UNCHANGED <<bound, creating, step, held, node, classes, probes>>

\* dma_proxy_probe up to its loop over the channels.  The driver core probes
\* one device at a time; binding again after a removal takes a rebind.
Probe(d) ==
  /\ loaded = "yes" /\ step = "idle" /\ probes < MaxProbes
  /\ bound[d] = "unbound"
  /\ probes' = probes + 1
  /\ IF ChannelCount = 0
       THEN /\ bound' = [bound EXCEPT ![d] = "bound"]
            /\ UNCHANGED <<creating, step>>
       ELSE /\ bound' = [bound EXCEPT ![d] = "probing"]
            /\ creating' = <<d, 1>> /\ step' = "request"
  /\ UNCHANGED <<loaded, held, node, local_class_p, classes, total_count>>

\* The probe returns an error: only the managed buffers are given back, the
\* rest stays with the channels created so far and with this one's resources.
FailProbe(drop) ==
  /\ bound' = [bound EXCEPT ![creating[1]] = "failed"]
  /\ creating' = Nobody /\ step' = "idle"
  /\ held' = [c \in Channels |->
                IF c = creating THEN held[c] \ drop
                ELSE IF c[1] = creating[1] THEN held[c] \ {"buffers"} ELSE held[c]]

Continue(next) == step' = next /\ UNCHANGED <<bound, creating>>

\* create_channel: dma_request_slave_channel.
RequestChannel ==
  /\ step = "request"
  /\ \/ Hold(creating, "chan") /\ Continue("region")
     \/ May("request") /\ FailProbe({})
  /\ UNCHANGED <<loaded, node, local_class_p, classes, total_count, probes>>

\* cdevice_init: alloc_chrdev_region.
AllocRegion ==
  /\ step = "region"
  /\ \/ Hold(creating, "region") /\ Continue("cdev")
     \/ May("region") /\ FailProbe({})
  /\ UNCHANGED <<loaded, node, local_class_p, classes, total_count, probes>>

\* cdevice_init: cdev_add, with the unwinding of init_error1.
AddCdev ==
  /\ step = "cdev"
  /\ \/ Hold(creating, "cdev") /\ Continue("class")
     \/ May("cdev") /\ FailProbe({"region"})
  /\ UNCHANGED <<loaded, node, local_class_p, classes, total_count, probes>>

\* Mutant: the static is not consulted.
NeedsClassAlways == TRUE
NeedsClass == local_class_p = NoClass

\* cdevice_init: class_create unless the static remembers a class.
CreateClass ==
  /\ step = "class"
  /\ Continue("device")
  /\ IF NeedsClass
       THEN local_class_p' = probes /\ classes' = classes \cup {probes}
       ELSE UNCHANGED <<local_class_p, classes>>
  /\ UNCHANGED <<loaded, held, node, total_count, probes>>

\* cdevice_init: device_create.  On failure init_error3 destroys the class,
\* without clearing the static, and unwinds the cdev and the region, but
\* returns rc, which is still 0: create_channel carries on.
CreateDevice ==
  /\ step = "device"
  /\ Continue("buffers")
  /\ \/ /\ node' = [node EXCEPT ![creating] = local_class_p]
        /\ UNCHANGED <<held, classes>>
     \/ /\ May("device")
        /\ node' = [node EXCEPT ![creating] = ErrPtr]
        /\ classes' = classes \ {local_class_p}
        /\ Drop(creating, {"region", "cdev"})
  /\ UNCHANGED <<loaded, local_class_p, total_count, probes>>

MoreChannels == creating[2] < ChannelCount

\* Mutant: the channel is not counted.
GetBuffersUncounted == Hold(creating, "buffers") /\ UNCHANGED total_count
GetBuffers == /\ Hold(creating, "buffers")
              /\ total_count' = total_count + 1

\* create_channel: dmam_alloc_coherent, and the loop of the probe, which counts the
\* channel only then: if the allocation fails its node stays without being counted.
AllocBuffers ==
  /\ step = "buffers"
  /\ \/ /\ GetBuffers
        /\ IF MoreChannels
             THEN /\ creating' = <<creating[1], creating[2] + 1>>
                  /\ step' = "request" /\ UNCHANGED bound
             ELSE /\ bound' = [bound EXCEPT ![creating[1]] = "bound"]
                  /\ creating' = Nobody /\ step' = "idle"
     \/ May("buffers") /\ FailProbe({}) /\ UNCHANGED total_count
  /\ UNCHANGED <<loaded, node, local_class_p, classes, probes>>

\* Mutant: the last one is expected at zero.
LastAtZero(c) == total_count - (c[2] - 1) = 0 /\ node[c] # NoNode
\* Mutant: each device's last channel destroys the class.
LastOfDevice(c) == c[2] = ChannelCount /\ node[c] # NoNode
FindsLast(c) == total_count - (c[2] - 1) = 1 /\ node[c] # NoNode

\* dma_proxy_remove: cdevice_exit for each channel with a node, counting down;
\* the channel that finds total_count = 1 destroys the class.  Then the DMA
\* channels; the buffers are managed and go with the device.
Remove(d) ==
  /\ step = "idle" /\ bound[d] = "bound"
  /\ loaded = "going" \/ rebinds
  /\ bound' = [bound EXCEPT ![d] = "unbound"]
  /\ LET mine == {d} \X (1..ChannelCount)
         last == {c \in mine : FindsLast(c)}
     IN  /\ node' = [c \in Channels |-> IF c \in mine THEN NoNode ELSE node[c]]
         /\ classes' = classes \ {node[c] : c \in last}
         /\ held' = [c \in Channels |-> IF c \in mine THEN {} ELSE held[c]]
  /\ total_count' = total_count - ChannelCount
  /\ UNCHANGED <<loaded, creating, step, local_class_p, probes>>

\* dma_proxy_exit: unregistering the driver removes every bound device.
BeginUnload ==
  /\ loaded = "yes" /\ step = "idle"
  /\ loaded' = "going"
  /\ UNCHANGED <<bound, creating, step, held, node, local_class_p, classes,
                 total_count, probes>>

Unload ==
  /\ loaded = "going"
  /\ \A d \in Devices : bound[d] # "bound"
  /\ loaded' = "no"
  /\ bound' = [d \in Devices |-> "unbound"]
  /\ UNCHANGED <<creating, step, held, node, local_class_p, classes,
                 total_count, probes>>

Next == /\ \/ Load \/ BeginUnload \/ Unload
           \/ \E d \in Devices : Probe(d) \/ Remove(d)
           \/ RequestChannel \/ AllocRegion \/ AddCdev \/ CreateClass
           \/ CreateDevice \/ AllocBuffers
        /\ UNCHANGED modeVars

Spec == Init /\ [][Next]_vars

-----------------------------------------------------------------------------

\* Every variable has its type; in particular total_count, which every removal counts
\* down without a test, is never negative.
TypeOK ==
  /\ failures \subseteq FailingCalls /\ rebinds \in BOOLEAN
  /\ loaded \in {"no", "yes", "going"}
  /\ bound \in [Devices -> {"unbound", "probing", "bound", "failed"}]
  /\ creating \in Channels \cup {Nobody}
  /\ step \in {"idle", "request", "region", "cdev", "class", "device", "buffers"}
  /\ held \in [Channels -> SUBSET Resources]
  /\ node \in [Channels -> 0..MaxProbes + 1]
  /\ local_class_p \in 0..MaxProbes /\ classes \subseteq 1..MaxProbes
  /\ total_count \in Nat /\ probes \in 0..MaxProbes

\* Every node lives in a class that exists.
NodesLive == \A c \in Channels : node[c] # NoNode => node[c] \in classes

\* A class is destroyed once no node lives in it, not before and not later,
\* and there is never more than one ("Only one class in sysfs is to be
\* created").  Without failures, an unloaded module leaves nothing behind: no
\* class, no character device number, no cdev, no node, no DMA channel.  The
\* first part takes three conditions.  device_create does not fail, and no
\* device is bound again: in both cases the static of cdevice_init would point
\* to a destroyed class.  And while the module is being unloaded no allocation
\* of buffers has failed: the node of such a channel is not counted, and the
\* removal of the other devices destroys the class under it, although "If this is the
\* last channel then get rid of the /sys/class/dma_proxy" (cdevice_exit).
ClassOutlivesNodes ==
  /\ "device" \notin failures /\ ~rebinds =>
       /\ loaded = "yes" \/ "buffers" \notin failures => NodesLive
       /\ Cardinality(classes) <= 1
  /\ failures = {} /\ loaded = "no" =>
       classes = {} /\ \A c \in Channels : held[c] = {} /\ node[c] = NoNode

\* A device that was probed without error works.  Whatever fails during
\* probing, each of its channels has its DMA channel and its buffers; and unless a
\* device_create fails or devices are bound again each has a node in a class that exists ("so the
\* device is accessible as a character device").
BoundChannels == {c \in Channels : bound[c[1]] = "bound"}
CanTransfer(c) == {"chan", "buffers"} \subseteq held[c]
Accessible(c) == node[c] \in classes
BoundMeansUsable ==
  /\ \A c \in BoundChannels : CanTransfer(c)
  /\ "device" \notin failures /\ ~rebinds => \A c \in BoundChannels : Accessible(c)
=============================================================================
