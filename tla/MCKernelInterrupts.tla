------------------------- MODULE MCKernelInterrupts -------------------------
(* The timer, the keyboard, the receiving side of the serial port, which    *)
(* SerialPort::init enables, and the clock at the slave PIC; the kernel has *)
(* no gate for the last two.                                                *)
EXTENDS KernelInterrupts

MCLines == {0, 1, 4, 8}
=============================================================================
