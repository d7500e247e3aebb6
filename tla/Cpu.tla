-------------------------------- MODULE Cpu ---------------------------------
(***************************************************************************)
(* Segment descriptors and descriptor tables (x86_64/src/gdt.rs, tss.rs),  *)
(* the control registers (register.rs), and what the CPU does with them on *)
(* its way from real mode to long mode.                                    *)
(*                                                                         *)
(* A descriptor is the set of its bits that are 1.  A CPU is a record; an  *)
(* instruction maps one to the next.  No stage has handlers for exceptions *)
(* before stage 4, and none is expected: a CPU that raises one stops, with *)
(* its reason in fault.                                                    *)
(***************************************************************************)
EXTENDS Integers, Sequences, FiniteSetsExt

-----------------------------------------------------------------------------
(* SegmentDescriptor. *)

ACCESSED == 40
READ_WRITE == 41
EXECUTABLE == 43
USER_SEGMENT == 44
PRESENT == 47
LONG_MODE == 53
PROTECTED_MODE == 54
GRANULARITY == 55

get_bits(word, first, end) == {b - first : b \in word \cap (first .. end - 1)}
set_bits(word, first, last, value) == (word \ (first .. last)) \cup {first + b : b \in value}

new_user(flags, limit, base) ==
  LET based == IF base = {} THEN flags
               ELSE set_bits(set_bits(flags, 16, 39, get_bits(base, 0, 24)),
                             56, 63, get_bits(base, 24, 32))
  IN  set_bits(set_bits(based, 0, 15, get_bits(limit, 0, 16)), 48, 51, get_bits(limit, 16, 20))

(* size_of::<TaskStateSegment>() - 1 is 103, TssAvailable is 9. *)
TssLimit == {0, 1, 2, 5, 6}
TssAvailable == {0, 3}

(* The two words of a system segment: the base needs 64 bits. *)
new_tss_segment(tss) ==
  LET base == set_bits(set_bits({PRESENT}, 16, 39, get_bits(tss, 0, 24)),
                       56, 63, get_bits(tss, 24, 32))
  IN  <<set_bits(set_bits(base, 0, 15, TssLimit), 40, 43, TssAvailable),
        get_bits(tss, 32, 64)>>

Segment(flags, limit) ==
  <<new_user({READ_WRITE, PRESENT, USER_SEGMENT, GRANULARITY, ACCESSED} \cup flags, limit, {})>>

protected_mode_code_segment == Segment({EXECUTABLE, PROTECTED_MODE}, 0 .. 19)
protected_mode_data_segment == Segment({PROTECTED_MODE}, 0 .. 19)
long_mode_code_segment == Segment({EXECUTABLE, LONG_MODE}, {})
long_mode_data_segment == Segment({}, {})

descriptor_privilege_level(d) == SumSet({2 ^ b : b \in get_bits(d[1], 45, 47)})

-----------------------------------------------------------------------------
(* GlobalDescriptorTable: the entries in use.  push panics on a full table *)
(* and nothing is ever loaded from what is left.                           *)

ENTRY_COUNT == 8
NewTable == <<{}>>
add_entry(gdt, d) == IF Len(gdt) + Len(d) > ENTRY_COUNT THEN << >> ELSE gdt \o d

(* The selector add_entry returns for d in a table that was gdt. *)
SegmentSelector_new(gdt, d) == 8 * Len(gdt) + descriptor_privilege_level(d)

-----------------------------------------------------------------------------
(* The CPU.  seg holds the descriptor cached for each segment register. *)

RealModeSegment == {READ_WRITE, PRESENT, USER_SEGMENT, ACCESSED} \cup (0 .. 15)

Powered ==
  [cr0 |-> {}, cr4 |-> {}, efer |-> {}, IF_ |-> TRUE, gdt |-> << >>, idt |-> FALSE,
   cr3 |-> "none", seg |-> [r \in {"cs", "ds", "es", "ss"} |-> RealModeSegment],
   tr |-> {}, fault |-> "none"]

Fault(c, why) == [c EXCEPT !.fault = why]

(* What a code segment makes of the instructions in it. *)
Bits(c) ==
  IF LONG_MODE \in c.seg["cs"] /\ "LMA" \in c.efer THEN 64
  ELSE IF PROTECTED_MODE \in c.seg["cs"] THEN 32 ELSE 16

InTable(c, sel, n) == sel \div 8 > 0 /\ sel \div 8 + n <= Len(c.gdt)
TableEntry(c, sel, k) == c.gdt[(sel \div 8) + k]

(* In real mode only the base of a cached descriptor follows the register, *)
(* and every selector used there is 0.                                     *)
RealBase(word) == word \ ((16 .. 39) \cup (56 .. 63))

(* mov ds/es/ss: the null selector makes the register unusable, and is an  *)
(* error for the stack outside of 64-bit code.                             *)
mov_sreg(c, reg, sel) ==
  IF "PE" \notin c.cr0 THEN [c EXCEPT !.seg[reg] = RealBase(@)]
  ELSE IF sel \div 8 = 0
  THEN IF reg = "ss" /\ Bits(c) # 64 THEN Fault(c, "GP") ELSE [c EXCEPT !.seg[reg] = {}]
  ELSE IF ~ InTable(c, sel, 1) THEN Fault(c, "GP")
  ELSE IF /\ {USER_SEGMENT, PRESENT, READ_WRITE} \subseteq TableEntry(c, sel, 1)
          /\ reg = "ss" => EXECUTABLE \notin TableEntry(c, sel, 1)
  THEN [c EXCEPT !.seg[reg] = TableEntry(c, sel, 1)] ELSE Fault(c, "GP")

(* A far jump, or the far return of CS::write. *)
ljmp(c, sel) ==
  IF InTable(c, sel, 1) /\ {USER_SEGMENT, PRESENT, EXECUTABLE} \subseteq TableEntry(c, sel, 1)
     /\ ~ ("LMA" \in c.efer /\ {LONG_MODE, PROTECTED_MODE} \subseteq TableEntry(c, sel, 1))
  THEN [c EXCEPT !.seg["cs"] = TableEntry(c, sel, 1)]
  ELSE Fault(c, "GP")

(* ltr reads both words and keeps the base. *)
ltr(c, sel) ==
  LET low == TableEntry(c, sel, 1)
  IN  IF InTable(c, sel, 2) /\ get_bits(low, 40, 45) = TssAvailable /\ PRESENT \in low
      THEN [c EXCEPT !.tr = get_bits(low, 16, 40) \cup {24 + b : b \in get_bits(low, 56, 64)}
                              \cup {32 + b : b \in TableEntry(c, sel, 2)}]
      ELSE Fault(c, "GP")

(* Paging needs protected mode; with LME it needs PAE and starts long      *)
(* mode.  Without LME the CPU takes the tables for ones of another form.   *)
mov_cr0(c, flags) ==
  IF "PG" \in flags /\ "PG" \notin c.cr0
  THEN IF "PE" \notin flags \/ "PAE" \notin c.cr4 \/ LONG_MODE \in c.seg["cs"] THEN Fault(c, "GP")
       ELSE IF "LME" \notin c.efer \/ c.cr3 = "none" THEN Fault(c, "page fault")
       ELSE [c EXCEPT !.cr0 = flags, !.efer = @ \cup {"LMA"}]
  ELSE IF "PG" \in flags /\ "PE" \notin flags THEN Fault(c, "GP")
  ELSE [c EXCEPT !.cr0 = flags]

wrmsr(c, flags) ==
  IF "PG" \in c.cr0 /\ ("LME" \in flags) # ("LME" \in c.efer) THEN Fault(c, "GP")
  ELSE [c EXCEPT !.efer = flags]

(* The size of a segment in pages of 4 KiB. *)
Pages(word) ==
  LET limit == SumSet({2 ^ b : b \in get_bits(word, 0, 16)})
                 + SumSet({2 ^ (16 + b) : b \in get_bits(word, 48, 52)})
  IN  IF GRANULARITY \in word THEN limit + 1 ELSE (limit + 1) \div 4096

(* int 0x10, 0x13 or 0x15: the firmware's code is for real mode. *)
bios(c) == IF "PE" \in c.cr0 THEN Fault(c, "no firmware") ELSE c

(* An external interrupt finds a handler: the firmware's in real mode, one *)
(* of a table of gates otherwise.                                          *)
Interruptible(c) == "PE" \notin c.cr0 \/ c.idt
=============================================================================
