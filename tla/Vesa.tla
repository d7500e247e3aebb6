-------------------------------- MODULE Vesa --------------------------------
(***************************************************************************)
(* The choice of a display mode, stage2/src/vesa.rs.  A mode is what the   *)
(* firmware answers for its id: [answers, linear, memory_model, width,     *)
(* height, depth, scanline]; linear stands for attributes & 0x90 = 0x90.   *)
(***************************************************************************)
EXTENDS Integers, Sequences

CONSTANTS
  Wanted,     \* [width, height, depth]: 1280, 1024, 24 in the code
  Infinity    \* above every difference: u32::MAX and u8::MAX in the code

VARIABLES
  modes,            \* the firmware's list, without its end mark
  mode_index,       \* i of the loop
  best,             \* index of the best mode so far, 0 for None
  best_pix_diff,
  best_depth_diff,
  vesa,             \* what is done next
  framebuffer       \* BiosInfo.framebuffer

vesaVars == <<modes, mode_index, best, best_pix_diff, best_depth_diff, vesa, framebuffer>>

NoFramebuffer == [size |-> 0, width |-> 0, height |-> 0, bytes_per_pixel |-> 0, stride |-> 0]

VesaInit ==
  /\ mode_index = 0 /\ best = 0
  /\ best_pix_diff = Infinity /\ best_depth_diff = Infinity
  /\ vesa = "search"
  /\ framebuffer = NoFramebuffer

abs_diff(a, b) == IF a < b THEN b - a ELSE a - b
pix_diff(m) == abs_diff(m.width * m.height, Wanted.width * Wanted.height)
depth_diff(m) == abs_diff(m.depth, Wanted.depth)

(* A linear frame buffer, of packed pixels or direct colour. *)
Candidate(m) == m.answers /\ m.linear /\ m.memory_model \in {4, 6}
Exact(m) == m.width = Wanted.width /\ m.height = Wanted.height /\ m.depth = Wanted.depth

(* Mutant: the depth decides on its own as well. *)
Better_either(m) == best_pix_diff > pix_diff(m) \/ best_depth_diff > depth_diff(m)

Better(m) ==
  \/ best_pix_diff > pix_diff(m)
  \/ best_pix_diff = pix_diff(m) /\ best_depth_diff > depth_diff(m)

keep == UNCHANGED <<best, best_pix_diff, best_depth_diff>>

(* One round of the loop of get_best_mode. *)
get_best_mode ==
  /\ vesa = "search"
  /\ mode_index < Len(modes)
  /\ mode_index' = mode_index + 1
  /\ LET m == modes[mode_index + 1]
     IN  IF ~ Candidate(m) THEN keep /\ UNCHANGED vesa
         ELSE IF Exact(m)
         THEN /\ best' = mode_index + 1 /\ vesa' = "set_mode"
              /\ UNCHANGED <<best_pix_diff, best_depth_diff>>
         ELSE IF Better(m)
         THEN /\ best' = mode_index + 1
              /\ best_pix_diff' = pix_diff(m) /\ best_depth_diff' = depth_diff(m)
              /\ UNCHANGED vesa
         ELSE keep /\ UNCHANGED vesa
  /\ UNCHANGED <<modes, framebuffer>>

(* The end mark.  Without a mode stage 2 panics. *)
get_best_mode_end ==
  /\ vesa = "search"
  /\ mode_index = Len(modes)
  /\ vesa' = IF best = 0 THEN "panic" ELSE "set_mode"
  /\ UNCHANGED <<modes, mode_index, best, best_pix_diff, best_depth_diff, framebuffer>>

(* For a pixel of at least a byte: the stride is counted in pixels. *)
to_framebuffer_info(m) ==
  LET bytes_per_pixel == m.depth \div 8
  IN  [size |-> m.height * m.scanline, width |-> m.width, height |-> m.height,
       bytes_per_pixel |-> bytes_per_pixel, stride |-> m.scanline \div bytes_per_pixel]

(* The mode is set and described; a pixel of less than a byte is a         *)
(* division by zero, a panic.                                              *)
set_mode ==
  /\ vesa = "set_mode"
  /\ IF modes[best].depth < 8 THEN vesa' = "panic" /\ UNCHANGED framebuffer
     ELSE vesa' = "done" /\ framebuffer' = to_framebuffer_info(modes[best])
  /\ UNCHANGED <<modes, mode_index, best, best_pix_diff, best_depth_diff>>

(* VbeInfo::get, before the loop, or VbeModeInfo::get or set_mode, after   *)
(* it, answers with an error.                                              *)
vesa_fails ==
  /\ vesa = "set_mode" \/ (vesa = "search" /\ mode_index = 0)
  /\ vesa' = "panic"
  /\ UNCHANGED <<modes, mode_index, best, best_pix_diff, best_depth_diff, framebuffer>>

VesaNext == get_best_mode \/ get_best_mode_end \/ set_mode \/ vesa_fails

-----------------------------------------------------------------------------
(* Properties. *)

Closer(m, than) ==
  \/ pix_diff(m) < pix_diff(than)
  \/ pix_diff(m) = pix_diff(than) /\ depth_diff(m) < depth_diff(than)

(* get_best_mode "Gets the display mode id of the mode closest to the      *)
(* specified parameters": of all modes in the list that can be used none   *)
(* is closer, and one that is exactly right is not passed over for one of  *)
(* the same area.  Every pixel of the screen that stage 2 describes is in  *)
(* the memory it describes.                                                *)
ClosestMode ==
  vesa = "done" =>
    LET usable == {k \in 1 .. Len(modes) : Candidate(modes[k])}
        f == framebuffer
    IN  /\ best \in usable
        /\ \A k \in usable : ~ Closer(modes[k], modes[best])
        /\ (\E k \in usable : Exact(modes[k])) => Exact(modes[best])
        /\ ((f.height - 1) * f.stride + f.width) * f.bytes_per_pixel <= f.size
=============================================================================
