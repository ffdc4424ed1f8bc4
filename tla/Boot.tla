-------------------------------- MODULE Boot --------------------------------
(* From the boot loader (boot/bootmain.c) to the idle loop: the kernel image   *)
(* is read sector by sector, kern_init (kern/init/init.c) clears the bss and   *)
(* starts the parts of the kernel one after the other, and the interrupt       *)
(* controller (kern/driver/picirq.c) lets through what the drivers asked for.  *)
EXTENDS Integers, Sequences

CONSTANTS SECTSIZE,
          ELFHDR,       \* where the headers of the kernel are read to
          Images        \* kernel images: sequences of [p_va, p_offset, p_filesz, p_memsz]

IRQ_TIMER == "timer"
IRQ_KBD == "kbd"
IRQ_COM1 == "com1"
IRQ_IDE == "ide"            \* IRQ_IDE1 and IRQ_IDE2
IRQ_SLAVE == "slave"
Irqs == {IRQ_TIMER, IRQ_KBD, IRQ_COM1, IRQ_IDE, IRQ_SLAVE}

VARIABLES
  image, magic_ok,  \* the kernel on the disk, and whether it begins with ELF_MAGIC
  kmem,           \* physical memory that was written so far
  ph, va, secno,  \* readseg: the segment (0 for the headers), the address and the sector that come next
  kpc,            \* steps of kern_init that are done; -1 in the boot loader, -2 in its endless loop
  irq_mask,       \* requests that are let through ...
  unmasked,       \* ... and that the controllers let through
  did_init,
  serial_exists,  \* known to the hardware
  ready,          \* parts of the kernel that can be used
  IF_flag,        \* FL_IF
  early           \* uses of a part before it was ready

bootvars == <<image, magic_ok, kmem, ph, va, secno, kpc, irq_mask, unmasked, did_init, serial_exists, ready, IF_flag, early>>
kernvars == <<irq_mask, unmasked, did_init, ready, IF_flag, early>>

File(o) == <<"file", o>>
Zero == <<"zero">>

\* What readseg is called for: the first page of the file, then each program header in it.
FirstPage == [p_va |-> ELFHDR, p_offset |-> 0, p_filesz |-> 8 * SECTSIZE, p_memsz |-> 8 * SECTSIZE]
Header(n) == IF n = 0 THEN FirstPage ELSE image[n]
Phdr == Header(ph)

\* Memory with some new bytes.
Overwritten(new) == [b \in DOMAIN kmem \cup DOMAIN new |-> IF b \in DOMAIN new THEN new[b] ELSE kmem[b]]

-----------------------------------------------------------------------------
\* Faulty: forgets that the first sector of the disk is the boot loader.
SegStart_FirstSector(s) == [va |-> s.p_va - (s.p_offset % SECTSIZE), secno |-> s.p_offset \div SECTSIZE]

\* Where readseg begins: at the sector that holds the first byte, the kernel's first
\* sector being sector 1 of the disk.
SegStart(s) == [va |-> s.p_va - (s.p_offset % SECTSIZE), secno |-> s.p_offset \div SECTSIZE + 1]

\* What the linker (kernel.ld) makes of the kernel: segments one behind the other, all
\* above the headers, a later one on a page of its own, and only the last one with a bss.  A
\* header may be empty, as that for the stack.
Empty(seg) == seg.p_memsz = 0 /\ seg.p_offset = 0
Linked(s) ==
  /\ s \in Seq([p_va : Nat, p_offset : Nat, p_filesz : Nat, p_memsz : Nat]) /\ Len(s) > 0
  /\ \A i \in 1..Len(s) : s[i].p_filesz <= s[i].p_memsz
  /\ \A i \in 1..Len(s) : ~Empty(s[i]) =>
       /\ ELFHDR + 8 * SECTSIZE <= SegStart(s[i]).va
       /\ \A j \in 1..Len(s) : i < j /\ ~Empty(s[j]) =>
            s[i].p_filesz = s[i].p_memsz /\ s[i].p_va + s[i].p_memsz <= SegStart(s[j]).va

ASSUME BootAssumption == SECTSIZE \in Nat \ {0} /\ ELFHDR \in Nat /\ \A s \in Images : Linked(s)

\* readsect: whole sectors, with what follows in the file.
readsect(dst, no) == Overwritten([b \in dst..(dst + SECTSIZE - 1) |-> File((no - 1) * SECTSIZE + b - dst)])

readseg ==
  /\ kpc = -1 /\ va < Phdr.p_va + Phdr.p_memsz
  /\ kmem' = readsect(va, secno) /\ va' = va + SECTSIZE /\ secno' = secno + 1
  /\ UNCHANGED <<image, magic_ok, ph, kpc, serial_exists, kernvars>>

\* After the first page the magic number is looked at; then comes the next program header,
\* or the jump to the kernel.
bootmain ==
  /\ kpc = -1 /\ va >= Phdr.p_va + Phdr.p_memsz
  /\ IF ph = 0 /\ ~magic_ok THEN kpc' = -2 /\ UNCHANGED <<ph, va, secno>>
     ELSE IF ph = Len(image) THEN kpc' = 0 /\ UNCHANGED <<ph, va, secno>>
     ELSE /\ ph' = ph + 1 /\ UNCHANGED kpc
          /\ va' = SegStart(Header(ph + 1)).va /\ secno' = SegStart(Header(ph + 1)).secno
  /\ UNCHANGED <<image, magic_ok, kmem, serial_exists, kernvars>>

\* Not a kernel.
bad == kpc = -2 /\ UNCHANGED bootvars

-----------------------------------------------------------------------------
\* pic_enable before pic_init only notes the request.
pic_enable(irqs) ==
  /\ irq_mask' = irq_mask \cup irqs
  /\ unmasked' = IF did_init THEN irq_mask \cup irqs ELSE unmasked

\* The controllers are set up with everything masked, then the mask is written.
pic_init == did_init' = TRUE /\ unmasked' = irq_mask /\ UNCHANGED irq_mask

\* The statics of console.c, which is where the bss begins to be used.
Statics == {"console"}

\* From edata, which follows the data, to end: what the last segment has in memory beyond
\* what it has in the file, and no other segment has any.
Bss == UNION {(image[n].p_va + image[n].p_filesz)..(image[n].p_va + image[n].p_memsz - 1) : n \in DOMAIN image}

\* memset.
clear_bss == kmem' = Overwritten([b \in Bss |-> Zero]) /\ ready' = ready \ Statics

\* kern_init, in order.
kern_init ==
  <<"memset", "cons_init", "pmm_init", "pic_init", "idt_init", "vmm_init", "sched_init", "proc_init",
    "ide_init", "swap_init", "fs_init", "clock_init", "intr_enable">>

\* What a step uses: kmalloc and alloc_page; the gate for the page faults of
\* check_pgfault and check_swap; the run queue of wakeup_proc in do_fork; idleproc in
\* pgfault_handler once there is a current process; the disks.
Needs(step) ==
  CASE step \in {"memset", "cons_init"} -> {}
    [] step \in {"pmm_init", "pic_init", "idt_init", "sched_init", "ide_init", "clock_init"} -> {"console"}
    [] step = "vmm_init" -> {"pmm_init", "idt_init"}
    [] step = "proc_init" -> {"pmm_init", "sched_init"}
    [] step = "swap_init" -> {"pmm_init", "idt_init", "proc_init", "ide_init"}
    [] step = "fs_init" -> {"pmm_init", "ide_init"}
    [] step = "intr_enable" -> {}

\* What the handler of an interrupt uses: the gate, and the timer list and current, or
\* the wait queue of dev_stdin.
IrqNeeds(irq) ==
  {"idt_init"} \cup (IF irq = IRQ_TIMER THEN {"sched_init", "proc_init"}
                     ELSE IF irq \in {IRQ_KBD, IRQ_COM1} THEN {"console", "fs_init"} ELSE {})

Enables(step) ==
  CASE step = "cons_init" -> {IRQ_KBD} \cup (IF serial_exists THEN {IRQ_COM1} ELSE {})
    [] step = "ide_init" -> {IRQ_IDE}
    [] step = "clock_init" -> {IRQ_TIMER}
    [] OTHER -> {}

init_step ==
  /\ kpc \in 0..(Len(kern_init) - 1)
  /\ LET step == kern_init[kpc + 1]
     IN  /\ early' = early \cup (Needs(step) \ ready)
         /\ IF step = "memset" THEN clear_bss
            ELSE ready' = ready \cup {IF step = "cons_init" THEN "console" ELSE step} /\ UNCHANGED kmem
         /\ IF step = "pic_init" THEN pic_init
            ELSE IF Enables(step) = {} THEN UNCHANGED <<irq_mask, unmasked, did_init>>
            ELSE pic_enable(Enables(step)) /\ UNCHANGED did_init
         /\ IF_flag' = (IF_flag \/ step = "intr_enable")
  /\ kpc' = kpc + 1
  /\ UNCHANGED <<image, magic_ok, ph, va, secno, serial_exists>>

\* An interrupt is taken.
take_irq(irq) ==
  /\ IF_flag /\ irq \in unmasked /\ irq # IRQ_SLAVE
  /\ early' = early \cup (IrqNeeds(irq) \ ready)
  /\ UNCHANGED <<image, magic_ok, kmem, ph, va, secno, kpc, irq_mask, unmasked, did_init, serial_exists, ready, IF_flag>>

BootInit ==
  /\ image \in Images /\ magic_ok \in BOOLEAN
  /\ kmem = <<>> /\ ph = 0 /\ va = SegStart(FirstPage).va /\ secno = SegStart(FirstPage).secno
  /\ kpc = -1 /\ irq_mask = {IRQ_SLAVE} /\ did_init = FALSE /\ serial_exists \in BOOLEAN
  /\ unmasked = {IRQ_TIMER, IRQ_KBD}             \* as the BIOS left them
  /\ ready = {} /\ IF_flag = FALSE /\ early = {}    \* bootasm.S begins with cli

BootNext == readseg \/ bootmain \/ bad \/ init_step \/ \E irq \in Irqs : take_irq(irq)

BootSpec == BootInit /\ [][BootNext]_bootvars

-----------------------------------------------------------------------------
\* The kernel that starts is the one in the file: readseg reads whole sectors, and as
\* many as the segment needs in memory, and what it writes beyond the data of a
\* segment is overwritten by the next one or cleared with the bss.  Until it starts, the
\* headers that bootmain goes through are those of the file.  Without ELF_MAGIC nothing starts.
KernelIsExact ==
  /\ kpc >= 0 => magic_ok
  /\ kpc = -1 /\ ph > 0 =>
       \A b \in ELFHDR..(ELFHDR + 8 * SECTSIZE - 1) : b \in DOMAIN kmem /\ kmem[b] = File(b - ELFHDR)
  /\ kpc >= 1 =>
       \A n \in DOMAIN image : \A b \in image[n].p_va..(image[n].p_va + image[n].p_memsz - 1) :
         /\ b \in DOMAIN kmem
         /\ kmem[b] = IF b < image[n].p_va + image[n].p_filesz THEN File(image[n].p_offset + b - image[n].p_va)
                      ELSE Zero

\* Nothing is used before it is set up, neither by a later step of kern_init nor by an
\* interrupt, and in the idle loop every interrupt that a driver asked for can come,
\* also one that was asked for before pic_init.
PartsAreReady ==
  /\ early = {}
  /\ kpc = Len(kern_init) => {IRQ_TIMER, IRQ_KBD, IRQ_IDE} \cup (IF serial_exists THEN {IRQ_COM1} ELSE {}) \subseteq unmasked

\* bootmain.c puts every byte of the kernel where it belongs, although it writes whole
\* sectors, and kern_init uses no part of the kernel before it is ready.
StartsInOrder == KernelIsExact /\ PartsAreReady
=============================================================================
