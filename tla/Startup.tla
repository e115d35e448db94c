------------------------------ MODULE Startup -------------------------------
(***************************************************************************)
(* From reset to the first task (sw/zipos): the boot loader brings the     *)
(* kernel's image from the flash into the block RAM, and ksetup takes the  *)
(* memory after it, piece by piece, for pipes, files and tasks.  The boot  *)
(* loader is written for any contents of the RAM: a reset of the CPU may   *)
(* come at any time and keeps them.                                        *)
(***************************************************************************)
EXTENDS Integers, Sequences

CONSTANTS Image,        \* words of the image, and
          Cleared,      \* words up to the end of .bss
          RamEnd,       \* bytes of block RAM after .bss (_top_of_heap)
          KernelStack,  \* what the kernel's own stack needs of it
          MaxResets

Old == -1               \* a word that an earlier program left there
Words == 0 .. Cleared - 1
FlashWord(i) == i + 1

VARIABLES pc, ram,      \* the words of .data and .bss
          mem,          \* the next word to be written
          heap,         \* bytes used after _top_of_heap
          objects,      \* what has been made there, in order
          resets

bootVars == <<pc, ram, mem, heap, objects, resets>>

BootInit == /\ pc = "copy" /\ mem = 0
            /\ ram \in [Words -> {0, Old}]
            /\ heap = 0 /\ objects = <<>> /\ resets = 0

-----------------------------------------------------------------------------
\* _bootloader
InsideOrAt(i, end) == i <= end                                  \* mutant
Inside(i, end) == i < end
CopyWord == /\ pc = "copy"
            /\ IF Inside(mem, Image)
               THEN /\ ram' = [ram EXCEPT ![mem] = FlashWord(mem)]
                    /\ mem' = mem + 1 /\ UNCHANGED pc
               ELSE pc' = "clear" /\ UNCHANGED <<ram, mem>>
            /\ UNCHANGED <<heap, objects, resets>>
ClearWord == /\ pc = "clear"
             /\ IF Inside(mem, Cleared)
                THEN /\ ram' = [ram EXCEPT ![mem] = 0]
                     /\ mem' = mem + 1 /\ UNCHANGED pc
                ELSE pc' = "setup" /\ UNCHANGED <<ram, mem>>
             /\ UNCHANGED <<heap, objects, resets>>

-----------------------------------------------------------------------------
(***************************************************************************)
(* ksetup.  An object occupies the bytes from at, len of them; making it   *)
(* writes wrote of them.  A task's stack goes down from sp.                *)
(***************************************************************************)
Round4(n) == ((n + 3) \div 4) * 4
Object(name, len, wrote, sp, stack) ==
    [name |-> name, at |-> heap, len |-> len, wrote |-> wrote, sp |-> sp, stack |-> stack]
SysMalloc(o) == heap' = heap + Round4(o.len) /\ objects' = Append(objects, o)

\* new_syspipe: a power of two, at least 16, after 36 bytes of indices.
Mask(len) == CHOOSE m \in {16, 32, 64, 128, 256, 512, 1024} :
               m >= len /\ \A k \in {16, 32, 64, 128, 256, 512, 1024} : k >= len => m <= k
NewSysPipe(name, len) == SysMalloc(Object(name, 39 + Mask(len), 36 + Mask(len), 0, 0))

KDevice == SysMalloc(Object("pipedev", 12, 12, 0, 0))
KOpen(name) == SysMalloc(Object(name, 8, 8, 0, 0))
TaskList(n) == SysMalloc(Object("tasklist", 4 * (1 + n), 0, 0, 0))

\* new_task: the loop clears words, as many as the task has bytes, and
\* &user_data[ln] is ln words after the start of user_data.
TaskS == 108
UserData == 104
StackTopHeap(ln) == UserData                                    \* mutant
StackTop(ln) == UserData + 4 * ln
NewTask(name, ln, stack) ==
    SysMalloc(Object(name, TaskS + ln, 4 * (TaskS + ln), heap + StackTop(ln), stack))

\* kinit's tasks, with the stacks that its comments count (uarthex is not called).
Pipes == << <<"rxpipe", 64>>, <<"txpipe", 64>>, <<"keypipe", 64>>, <<"lcdpipe", 64>>,
            <<"pwmpipe", 512>>, <<"cmdpipe", 64>> >>
KInit == << <<"task", "RTC", 64, 36 + 4>>,
             <<"task", "BELL", 256, 36 + 36 + 24>>, <<"fd", "stderr">>, <<"fd", "aux">>,
             <<"task", "DISPLAY", 128, 16 + 36 + 24>>, <<"fd", "stdin">>,
             <<"task", "MENU", 512, 76 + 48 + 36 + 8 + 24 + 100>>, <<"fd", "stdout">>,
             <<"fd", "stderr">>, <<"task", "idle", 8, 4>> >>
NPipes == Len(Pipes)
Made == Len(objects)
AllMade == 2 + NPipes + Len(KInit)

KSetup ==
    /\ pc = "setup"
    /\ IF Made = 0 THEN KDevice
       ELSE IF Made <= NPipes THEN NewSysPipe(Pipes[Made][1], Pipes[Made][2])
       ELSE IF Made = 1 + NPipes THEN TaskList(4)
       ELSE LET t == KInit[Made - 1 - NPipes]
            IN  IF t[1] = "fd" THEN KOpen(t[2]) ELSE NewTask(t[2], t[3], t[4])
    /\ pc' = IF Made + 1 = AllMade THEN "run" ELSE pc
    /\ UNCHANGED <<ram, mem, resets>>

-----------------------------------------------------------------------------
\* The kernel and its tasks change their variables.
Run == /\ pc = "run"
       /\ \E w \in Words : ram' = [ram EXCEPT ![w] = Old]
       /\ UNCHANGED <<pc, mem, heap, objects, resets>>

Reset == /\ resets < MaxResets
         /\ resets' = resets + 1
         /\ pc' = "copy" /\ mem' = 0 /\ heap' = 0 /\ objects' = <<>>
         /\ UNCHANGED ram

BootNext == CopyWord \/ ClearWord \/ KSetup \/ Run \/ Reset
BootSpec == BootInit /\ [][BootNext]_bootVars

-----------------------------------------------------------------------------
\* Whatever the RAM held, ksetup begins with the image that is in the flash, and with
\* a .bss that is zero (bootloader.c:52).
ImageLoaded ==
    pc = "setup" => \A w \in Words : ram[w] = IF w < Image THEN FlashWord(w) ELSE 0

\* What is written for an object does not touch one made before it, nor the kernel's
\* stack; and a task's stack, which new_task puts far behind its own memory
\* (taskp.c:52), touches no object that is in use: no pipe, file or list, no task's
\* registers, no other task's stack.
Bytes(from, to) == from .. to - 1
InUse(o) == IF o.sp = 0 THEN Bytes(o.at, o.at + o.len) ELSE Bytes(o.at, o.at + UserData)
Stack(o) == Bytes(o.sp - o.stack, o.sp)
SetupApart ==
    /\ \A j \in 1 .. Made : LET o == objects[j] IN
         /\ \A i \in 1 .. j - 1 : Bytes(o.at, o.at + o.wrote) \cap InUse(objects[i]) = {}
         /\ o.at + o.wrote <= RamEnd - KernelStack
         /\ o.sp <= RamEnd - KernelStack
    /\ pc = "run" => \A i, j \in 1 .. Made :
         objects[i].sp # 0 =>
           /\ Stack(objects[i]) \cap InUse(objects[j]) = {}
           /\ i # j /\ objects[j].sp # 0 => Stack(objects[i]) \cap Stack(objects[j]) = {}
=============================================================================
