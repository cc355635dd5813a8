------------------------------ MODULE Kernels ------------------------------
(***************************************************************************)
(* Where a kernel comes from: the build's table and the registry of what   *)
(* bundles brought (src/kernel_registry.cpp), and the kernels a device has *)
(* loaded (load, src/cuda/device_cuda.cpp and src/metal/device_metal.mm).  *)
(*                                                                         *)
(* A bundle brings one blob, so it stands for its blob.  A bundle built    *)
(* anew is another one.                                                    *)
(***************************************************************************)
EXTENDS Integers, Sequences

CONSTANTS
  Names,
  Compiled,   \* names in the table of the build
  Bundles,
  Ours,       \* the build's blobs
  NoBlob

ASSUME KernelsAssumption == Compiled \subseteq Names /\ Ours \notin Bundles /\ NoBlob \notin Bundles

VARIABLES
  registry,   \* by name: the blob registered
  kernels,    \* kernels_: name and blob, by KernelId
  mapped,     \* external: the bundles in memory
  claims      \* history: by bundle, what it registered and did not withdraw

kernelVars == <<registry, kernels, mapped, claims>>

KernelsInit ==
  /\ registry = [n \in Names |-> NoBlob]
  /\ kernels = <<>>
  /\ mapped = {} /\ claims = [b \in Bundles |-> {}]

\* Also when the name is taken, by the build's table or by another bundle.
registerKernel(b, n) ==
  /\ b \in mapped
  /\ registry' = [registry EXCEPT ![n] = b]
  /\ claims' = [claims EXCEPT ![b] = @ \cup {n}]
  /\ UNCHANGED <<kernels, mapped>>

\* Mutant: the name is cleared and the entry is found all the same.
NotWithdrawn(n) == registry

Withdrawn(n) == [registry EXCEPT ![n] = NoBlob]

\* Whoever registered it last.
unregisterKernel(b, n) ==
  /\ n \in claims[b]
  /\ registry' = Withdrawn(n)
  /\ claims' = [claims EXCEPT ![b] = @ \ {n}]
  /\ UNCHANGED <<kernels, mapped>>

\* Mutant: what is registered comes first.
lookupRegisteredFirst(n) ==
  IF registry[n] # NoBlob THEN registry[n] ELSE IF n \in Compiled THEN Ours ELSE NoBlob

lookup(n) == IF n \in Compiled THEN Ours ELSE registry[n]

Cached(n) == {id \in 1 .. Len(kernels) : kernels[id].name = n}

\* load returns id.
Loads(n, id) ==
  /\ \/ id \in Cached(n) /\ UNCHANGED kernels
     \/ /\ Cached(n) = {} /\ lookup(n) # NoBlob
        /\ kernels' = Append(kernels, [name |-> n, blob |-> lookup(n)])
        /\ id = Len(kernels')
  /\ UNCHANGED <<registry, mapped, claims>>

\* There is no such blob, or the driver does not take it.
LoadFails(n) == Cached(n) = {} /\ UNCHANGED kernelVars

-----------------------------------------------------------------------------
\* A bundle is mapped, and unmapped once it has withdrawn its names (kernels.h:42).
OpensBundle(b) ==
  /\ b \notin mapped
  /\ mapped' = mapped \cup {b}
  /\ UNCHANGED <<registry, kernels, claims>>

ClosesBundle(b) ==
  /\ b \in mapped /\ claims[b] = {}
  /\ mapped' = mapped \ {b}
  /\ UNCHANGED <<registry, kernels, claims>>

KernelsNext ==
  \/ \E b \in Bundles : OpensBundle(b) \/ ClosesBundle(b)
  \/ \E b \in Bundles, n \in Names : registerKernel(b, n) \/ unregisterKernel(b, n)
  \/ \E n \in Names, id \in 1 .. Len(kernels) + 1 : Loads(n, id)

KernelsSpec == KernelsInit /\ [][KernelsNext]_kernelVars
-----------------------------------------------------------------------------
KernelsTypeOK ==
  /\ registry \in [Names -> Bundles \cup {NoBlob}]
  /\ kernels \in Seq([name : Names, blob : Bundles \cup {Ours}])
  /\ mapped \subseteq Bundles /\ claims \in [Bundles -> SUBSET Names]

\* "A plugin must not be able to shadow display or scale" (kernel_registry.cpp:81),
\* whatever it registered before or after the device loaded them.
NeverShadowed ==
  \A id \in 1 .. Len(kernels) : kernels[id].name \in Compiled => kernels[id].blob = Ours

\* No lookup finds a blob in a bundle that is gone, although bundles take names
\* from each other and withdraw them from each other ("a name pointing into
\* memory that is about to be unmapped", kernels.h:43).
FoundIsMapped == \A n \in Names : lookup(n) \in mapped \cup {Ours, NoBlob}

\* What a load of the name would give a kernel of.
LoadGives(n) ==
  IF Cached(n) = {} THEN lookup(n) ELSE kernels[CHOOSE id \in Cached(n) : TRUE].blob

\* "Registering a name twice replaces the earlier one, so a bundle reloaded during
\* development does what a person expects rather than keeping the first version
\* forever" (kernels.h:33): a load gives what is registered.
LoadsWhatIsRegistered ==
  \A n \in Names : lookup(n) # NoBlob => LoadGives(n) = lookup(n)

-----------------------------------------------------------------------------
\* Why these hold.

\* A bundle has not withdrawn what still is registered as its own.
ClaimsInv ==
  /\ \A n \in Names : registry[n] # NoBlob => n \in claims[registry[n]]
  /\ \A b \in Bundles : claims[b] # {} => b \in mapped

KernelsInv == KernelsTypeOK /\ NeverShadowed /\ ClaimsInv
=============================================================================
