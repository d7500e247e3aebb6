------------------------------ MODULE BootPath ------------------------------
(***************************************************************************)
(* From the first sector to the running kernel: the MBR loads stage 2,     *)
(* stage 2 makes the CPU reach all memory, loads the files, picks a        *)
(* display mode and enters protected mode, stage 3 enters long mode, stage *)
(* 4 and the kernel load their own tables.  Loading is MbrStage and        *)
(* FatLoader, the display Vesa; the instructions that change the state of  *)
(* the CPU run one per step.                                               *)
(***************************************************************************)
EXTENDS MbrStage, Vesa, Cpu

CONSTANTS
  FilePage,    \* where the files go, in pages of 4 KiB: 0x100, 0x120, 0x200
  LastFrame,   \* the highest frame stage 4 takes, as a number of a page
  TssAddress,  \* the kernel's TSS
  ModesOf(_)   \* mode lists a machine with a disk may have

VARIABLES
  stage,  \* "mbr", "fat", "e820", "vesa", "code" (ops is left to do), or how it ended
  ops,    \* instructions to run: <<bits of the code, name, operand, operand>>
  cpu

bootVars == <<vars, mbrVars, vesaVars, stage, ops, cpu>>
loading == <<vars, mbrVars, vesaVars>>

-----------------------------------------------------------------------------
(* Programs.  update(f) of register.rs reads a register, changes one flag  *)
(* and writes it back.                                                     *)

Set(bits, register, flag) == <<bits, "set", register, flag>>
Clear(bits, register, flag) == <<bits, "clear", register, flag>>
Mov(bits, segment, selector) == <<bits, "mov", segment, selector>>
Jump(bits, selector) == <<bits, "ljmp", selector, "">>
Do(bits, name) == <<bits, name, "", "">>
Lgdt(bits, table) == <<bits, "lgdt", table, "">>
Access(bits, page) == <<bits, "access", page, "">>

GDT2 == add_entry(add_entry(NewTable, protected_mode_code_segment), protected_mode_data_segment)
GDT3 == add_entry(add_entry(NewTable, long_mode_code_segment), long_mode_data_segment)

(* Mutant: interrupts are enabled while PE is still set. *)
enter_unreal_mode_early_sti ==
  <<Do(16, "cli"), Lgdt(16, GDT2), Set(16, "cr0", "PE"), Mov(16, "ds", 16), Mov(16, "ss", 16),
    Do(16, "sti"), Clear(16, "cr0", "PE"), Mov(16, "ds", 0), Mov(16, "ss", 0)>>

enter_unreal_mode ==
  <<Do(16, "cli"), Lgdt(16, GDT2), Set(16, "cr0", "PE"), Mov(16, "ds", 16), Mov(16, "ss", 16),
    Clear(16, "cr0", "PE"), Mov(16, "ds", 0), Mov(16, "ss", 0), Do(16, "sti")>>

enter_protected_mode_and_jump_to_stage3 ==
  <<Do(16, "cli"), Set(16, "cr0", "PE"), Jump(16, 8),
    Mov(32, "ds", 16), Mov(32, "es", 16), Mov(32, "ss", 16), Access(32, FilePage[1])>>

enable_paging ==
  <<Do(32, "cr3"), Set(32, "cr4", "PAE"), Set(32, "efer", "LME"), Set(32, "cr0", "PG")>>

jump_to_stage4 ==
  <<Jump(32, 8), Mov(64, "ss", 0), Mov(64, "ds", 0), Mov(64, "es", 0), Access(64, FilePage[2])>>

stage3_start == enable_paging \o <<Do(32, "cli"), Lgdt(32, GDT3)>> \o jump_to_stage4

(* interrupts::init, the two registers, the kernel's image, the frames,    *)
(* which are written at their physical addresses, and the table of         *)
(* initialize_and_map_gdt.                                                 *)
stage4_start ==
  <<Do(64, "lidt"), Set(64, "efer", "NXE"), Set(64, "cr0", "WP"), Access(64, FilePage[3]),
    Access(64, LastFrame), Lgdt(64, GDT3), Do(64, "context_switch")>>

TssTable == add_entry(NewTable, new_tss_segment(TssAddress))
CodeTable == add_entry(TssTable, long_mode_code_segment)
KernelTable == add_entry(CodeTable, long_mode_data_segment)
tss_selector == SegmentSelector_new(NewTable, new_tss_segment(TssAddress))
kernel_code_selector == SegmentSelector_new(TssTable, long_mode_code_segment)
kernel_data_selector == SegmentSelector_new(CodeTable, long_mode_data_segment)

(* interrupts::init of the kernel. *)
kernel_init ==
  <<Lgdt(64, KernelTable), Jump(64, kernel_code_selector), Mov(64, "ds", kernel_data_selector),
    Mov(64, "es", kernel_data_selector), Mov(64, "ss", kernel_data_selector),
    <<64, "ltr", tss_selector, "">>, Do(64, "lidt"), Do(64, "sti")>>

-----------------------------------------------------------------------------
(* create_mappings: one table of the first two levels, ten of the third.   *)

Tables == 10
Entries == 512
l4_entries == [k \in {0} |-> "PDPT"]
l3_entries == [i \in 0 .. Tables - 1 |-> i]

(* The number of the page of 2 MiB. *)
l2_entries(i) == [j \in 0 .. Entries - 1 |-> i * Entries + j]

(* The page of 4 KiB that page is translated to, -1 without one. *)
Walk(page) ==
  LET l2 == page \div Entries
      l3 == l2 \div Entries
  IN  IF l3 \div Entries \in DOMAIN l4_entries /\ l3 % Entries \in DOMAIN l3_entries
      THEN l2_entries(l3_entries[l3 % Entries])[l2 % Entries] * Entries + (page % Entries)
      ELSE -1

(* A load or store through ds.  64-bit code ignores the segment. *)
access(c, page) ==
  IF Bits(c) # 64 /\ page >= Pages(c.seg["ds"]) THEN Fault(c, "GP")
  ELSE IF c.cr3 = "stage3" /\ "PG" \in c.cr0 /\ Walk(page) # page THEN Fault(c, "page fault")
  ELSE c

(* A register is written back with one flag changed. *)
Written(c, register, flags) ==
  CASE register = "cr0" -> mov_cr0(c, flags)
    [] register = "efer" -> wrmsr(c, flags)
    [] register = "cr4" -> [c EXCEPT !.cr4 = flags]

Executed(c, op) ==
  CASE op[1] # Bits(c) -> Fault(c, "UD")
    [] op[2] = "cli" -> [c EXCEPT !.IF_ = FALSE]
    [] op[2] = "sti" -> [c EXCEPT !.IF_ = TRUE]
    [] op[2] = "lgdt" -> [c EXCEPT !.gdt = op[3]]
    [] op[2] = "lidt" -> [c EXCEPT !.idt = TRUE]
    [] op[2] = "cr3" -> [c EXCEPT !.cr3 = "stage3"]
    [] op[2] = "context_switch" -> [c EXCEPT !.cr3 = "kernel"]
    [] op[2] = "set" -> Written(c, op[3], c[op[3]] \cup {op[4]})
    [] op[2] = "clear" -> Written(c, op[3], c[op[3]] \ {op[4]})
    [] op[2] = "mov" -> mov_sreg(c, op[3], op[4])
    [] op[2] = "ljmp" -> ljmp(c, op[3])
    [] op[2] = "ltr" -> ltr(c, op[3])
    [] op[2] = "access" -> access(c, op[3])
    [] OTHER -> Fault(c, "UD")

-----------------------------------------------------------------------------
BootInit ==
  /\ Init /\ MbrInit /\ VesaInit
  /\ modes \in ModesOf(volume)
  /\ stage = "mbr"
  /\ ops = << >>
  /\ cpu = Powered

(* first_stage: a round of its loop, which may fail, or its end. *)
first_stage ==
  /\ stage = "mbr"
  /\ \/ /\ \E ok \in BOOLEAN : first_stage_round(ok) /\ stage' = IF ok THEN "mbr" ELSE "halted"
        /\ UNCHANGED ops
     \/ /\ sector_count = 0
        /\ stage' = "code" /\ ops' = enter_unreal_mode
        /\ UNCHANGED mbrVars
  /\ cpu' = bios(cpu)
  /\ UNCHANGED <<vars, vesaVars>>

(* The firmware reports an error: carry is set and the code at fail halts. *)
first_stage_fails ==
  /\ stage = "mbr" /\ stage' = "halted"
  /\ UNCHANGED <<loading, ops, cpu>>

(* The next instruction.  Behind the last one of stage 2's start the files *)
(* are loaded, behind the last one of all the kernel runs.                 *)
execute ==
  /\ stage = "code" /\ cpu.fault = "none"
  /\ cpu' = Executed(cpu, Head(ops))
  /\ ops' = Tail(ops)
  /\ stage' = IF Len(ops) > 1 THEN "code" ELSE IF pc = "mount" THEN "fat" ELSE "running"
  /\ UNCHANGED loading

(* A step of the loader: the firmware reads, and what is read is copied    *)
(* above 1 MiB.                                                            *)
load_files ==
  /\ stage = "fat"
  /\ Next
  /\ cpu' = IF memory' = memory THEN bios(cpu) ELSE access(bios(cpu), FilePage[file])
  /\ stage' = CASE pc' = "done" -> "e820"
                [] pc' \in {"failed", "panic"} -> "panic"
                [] pc' = "halted" -> "halted"
                [] OTHER -> "fat"
  /\ UNCHANGED <<mbrVars, vesaVars, ops>>

(* MemoryMap::get, which may fail; its loop is in FrameHandoff. *)
get_memory_map ==
  /\ stage = "e820"
  /\ stage' \in {"vesa", "panic"}
  /\ cpu' = bios(cpu)
  /\ UNCHANGED <<loading, ops>>

(* The display, the boot information, and the jump to stage 3. *)
select_mode ==
  /\ stage = "vesa"
  /\ VesaNext
  /\ cpu' = bios(cpu)
  /\ stage' = CASE vesa' = "done" -> "code" [] vesa' = "panic" -> "panic" [] OTHER -> "vesa"
  /\ ops' = IF vesa' = "done"
            THEN enter_protected_mode_and_jump_to_stage3 \o stage3_start \o stage4_start \o kernel_init
            ELSE ops
  /\ UNCHANGED <<vars, mbrVars>>

BootNext ==
  first_stage \/ first_stage_fails \/ execute \/ load_files \/ get_memory_map \/ select_mode

(* One CPU, one program: it goes on while it can. *)
BootSpec == BootInit /\ [][BootNext]_bootVars /\ WF_bootVars(BootNext)

-----------------------------------------------------------------------------
(* Properties. *)

(* When stage 2 begins it is whole in memory, whatever its size and        *)
(* however many calls of the firmware first_stage needed.                  *)
StageTwoWhole == stage \notin {"mbr", "halted"} => StageTwoLoaded

(* On the way through five modes and four descriptor tables no instruction *)
(* raises an exception: no code runs in a mode it was not compiled for, no *)
(* access is outside of a segment or of stage 3's mapping, the firmware is *)
(* called in real mode only.  While interrupts are enabled they find a     *)
(* handler, and the task register holds the address of the kernel's TSS.   *)
CpuNeverFaults ==
  /\ cpu.fault = "none"
  /\ cpu.IF_ => Interruptible(cpu)
  /\ stage = "running" => cpu.tr = TssAddress /\ cpu.IF_

(* Every boot ends, in the kernel or in a halt or a panic of the stage     *)
(* that met an error, if no chain of clusters leads back into itself:      *)
(* try_load_file follows such a chain without end.                         *)
BootEnds ==
  (\A k \in DOMAIN Names : ~ volume.stored[k].cyclic) =>
    <>(stage \in {"running", "halted", "panic"})
=============================================================================
