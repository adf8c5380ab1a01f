-------------------------------- MODULE Boot --------------------------------
(***************************************************************************)
(* From the image the module packer writes to the moment interrupts are    *)
(* switched on (ModulePacker/main.c, moduleLoader.c, kernel.c,             *)
(* idtLoader.c).                                                           *)
(*                                                                         *)
(* The packer appends the userland modules to the kernel.  In memory they  *)
(* then lie where the linker has put the kernel's bss, and must be copied  *)
(* away before that is cleared.  One cell of memory stands for a byte, or  *)
(* for the four of a count or a size.                                      *)
(***************************************************************************)
EXTENDS Integers, Sequences, SequencesExt

CONSTANTS
  File,                \* what a module can be: sequences of bytes
  Kernel,              \* the kernel's text and data, a sequence of bytes
  bss, endOfKernel,    \* kernel.ld; the kernel starts at 0
  moduleAddresses,     \* kernel.c:63, where each module belongs
  MemorySize,          \* bound: cells of memory
  Junk                 \* what memory holds before anything is written

endOfKernelBinary == Len(Kernel)

Loaded(i, f) == moduleAddresses[i] .. moduleAddresses[i] + Len(f) - 1

ASSUME BootAssumption ==
  /\ Kernel \in Seq(Nat) /\ File \subseteq Seq(Nat)
  /\ {bss, endOfKernel, MemorySize} \subseteq Nat /\ moduleAddresses \in Nat \X Nat
  /\ endOfKernelBinary <= bss /\ bss <= endOfKernel
  /\ \A f, g \in File :
       /\ endOfKernel <= moduleAddresses[1]
       /\ endOfKernelBinary + 3 + Len(f) + Len(g) <= moduleAddresses[1]
       /\ moduleAddresses[1] + Len(f) <= moduleAddresses[2]
       /\ moduleAddresses[2] + Len(g) <= MemorySize

VARIABLES
  files,     \* the modules the image was made of
  mem,       \* memory
  stage,     \* how far the kernel has come
  current,   \* currentModule of loadModules
  loaded     \* its i

bvars == <<files, mem, stage, current, loaded>>

Cell == 0 .. MemorySize - 1

Segment(a, n) == [k \in 1 .. n |-> mem[a + k - 1]]

\* What main does, in its order.
Initialises ==
  <<"memory manager", "post office", "mutexes", "semaphores", "restore point", "screen", "interrupts">>

\* The packed kernel: the kernel, the number of modules, and each module
\* behind its size.
buildImage(fs) ==
  Kernel \o <<Len(fs)>> \o FlattenSeq([i \in DOMAIN fs |-> <<Len(fs[i])>> \o fs[i]])

memcpy(to, from, n) ==
  mem' = [c \in Cell |-> IF c \in to .. to + n - 1 THEN mem[from + c - to] ELSE mem[c]]

memset(a, n) == mem' = [c \in Cell |-> IF c \in a .. a + n - 1 THEN 0 ELSE mem[c]]

readUint32(a) == mem[a]

\* loadModules copies one module after the other.
loadModule ==
  /\ stage = "load" /\ loaded < readUint32(endOfKernelBinary)
  /\ LET size == readUint32(current)
     IN  /\ memcpy(moduleAddresses[loaded + 1], current + 1, size)
         /\ current' = current + 1 + size
  /\ loaded' = loaded + 1
  /\ UNCHANGED <<files, stage>>

\* Mutated form of clearBSS: it starts where the kernel's data ends.
clearFromData ==
  /\ stage = "load" /\ loaded = readUint32(endOfKernelBinary)
  /\ memset(endOfKernelBinary - 1, endOfKernel - bss)
  /\ stage' = "clear"
  /\ UNCHANGED <<files, current, loaded>>

\* The end of initializeKernelBinary.
clearBSS ==
  /\ stage = "load" /\ loaded = readUint32(endOfKernelBinary)
  /\ memset(bss, endOfKernel - bss)
  /\ stage' = "clear"
  /\ UNCHANGED <<files, current, loaded>>

\* One call of main after the other; the last one is load_idt, which
\* switches interrupts on.
Initialise ==
  /\ stage # "load"
  /\ \/ stage = "clear" /\ stage' = Initialises[1]
     \/ \E n \in 1 .. Len(Initialises) - 1 :
          stage = Initialises[n] /\ stage' = Initialises[n + 1]
  /\ UNCHANGED <<files, mem, current, loaded>>

BootInit ==
  /\ files \in File \X File
  /\ LET image == buildImage(files)
     IN  mem = [c \in Cell |-> IF c < Len(image) THEN image[c + 1] ELSE Junk]
  /\ stage = "load"
  /\ current = endOfKernelBinary + 1   \* behind the count, which is read first
  /\ loaded = 0

BootNext == loadModule \/ clearBSS \/ Initialise

-----------------------------------------------------------------------------
(* Properties *)

\* Once the kernel runs, both modules are where they are run from, byte for
\* byte, the kernel's own text and data are what they were, and its bss is
\* zero, although the modules were brought in that very place.
ModulesIntact ==
  stage # "load" =>
    /\ \A i \in 1 .. 2 : Segment(moduleAddresses[i], Len(files[i])) = files[i]
    /\ Segment(0, endOfKernelBinary) = Kernel
    /\ \A c \in bss .. endOfKernel - 1 : mem[c] = 0

=============================================================================
