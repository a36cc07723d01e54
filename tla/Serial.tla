------------------------------- MODULE Serial -------------------------------
(***************************************************************************)
(* The serial port of src/common.c and the two programs that print on it:  *)
(* kmain with kprintf, and the keyboard's handler, which may interrupt     *)
(* kmain between its look at the port's status and its write.              *)
(*                                                                         *)
(* The port (a 16550) sends what is in its transmit FIFO, and says it is   *)
(* ready when the FIFO is empty.  The handler prints between its read of   *)
(* the scan code and its EOI, so the keyboard waits for the port.  This    *)
(* module adds to each step of Keyboard what the port does.                *)
(***************************************************************************)
EXTENDS Keyboard, Kprintf

CONSTANTS
  FifoSize,          (* characters the transmit FIFO holds (16)            *)
  Banner,            (* what init_serial prints                            *)
  Formats,           (* formats, as sequences of directives                *)
  LeftBehind         (* what the boot loader may leave in the registers    *)

(* The divisor, its high half, and the FIFO and line control registers.    *)
Registers == [dll : Nat, dlm : Nat, fcr : Nat, lcr : Nat]

ASSUME SerialAssumption ==
  /\ FifoSize \in Nat /\ FifoSize >= 2
  /\ LeftBehind \subseteq Registers
  /\ Banner \in Seq(Characters)
  /\ Formats \subseteq Seq(Directives)
  /\ \A ds \in Formats : \A k \in DOMAIN ds : ds[k] = LonePercent => k = Len(ds)

VARIABLES
  port,              (* the port's registers                               *)
  fifo,              (* characters to send, each with its printer          *)
  received,          (* what the other end of the line has read of each    *)
  setup,             (* writes of init_serial done                         *)
  todo,              (* characters each printer has still to write         *)
  ready,             (* printers that have seen the port ready             *)
  directives,        (* the format kmain prints, as directives             *)
  i, args,           (* the scanner's index and the arguments left         *)
  kprint             (* kprintf: "scan", "done", or stopped by a "trap"    *)

wire == <<fifo, received>>
writers == <<todo, ready>>
scanner == <<i, args, kprint>>
serial == <<port, wire, setup, writers, directives, scanner>>

Printers == {"kmain", "handler"}

(* The format in memory; another string lies behind it.                    *)
fmt == Texts(directives) \o <<"NUL", "z", "NUL">>

SerialInit ==
  /\ Init
  /\ port \in LeftBehind
  /\ fifo = <<>> /\ received = [p \in Printers |-> <<>>]
  /\ setup = 0
  /\ todo = [p \in Printers |-> <<>>] /\ ready = {}
  /\ directives \in Formats
  /\ i = 1 /\ args = Arguments(directives) /\ kprint = "scan"

-----------------------------------------------------------------------------
(* The port *)

DLAB == port.lcr >= 128
Capacity == IF port.fcr % 2 = 1 THEN FifoSize ELSE 1
TransmitBusy == fifo # <<>>
TransmitEmpty == fifo = <<>>

(* outb to the port's register r; the first two are the divisor's when     *)
(* DLAB is set.  A character for a full FIFO is lost.                      *)
Outb(r, value) ==
  CASE r = 0 /\ DLAB  -> port' = [port EXCEPT !.dll = value] /\ UNCHANGED wire
    [] r = 1 /\ DLAB  -> port' = [port EXCEPT !.dlm = value] /\ UNCHANGED wire
    [] r = 2          -> port' = [port EXCEPT !.fcr = value] /\ fifo' = <<>> /\ UNCHANGED received
    [] r = 3          -> port' = [port EXCEPT !.lcr = value] /\ UNCHANGED wire
    [] r = 0 /\ ~DLAB -> /\ fifo' = IF Len(fifo) < Capacity THEN Append(fifo, value) ELSE fifo
                         /\ UNCHANGED <<port, received>>
    [] OTHER          -> UNCHANGED <<port, wire>>

(* The other end expects 9600 baud, 8 data bits and no parity.             *)
Legible == port.dll = 12 /\ port.dlm = 0 /\ port.lcr = 3

Shift ==
  /\ fifo # <<>>
  /\ LET p == Head(fifo)[1]
         c == IF Legible THEN Head(fifo)[2] ELSE "garbled"
     IN  received' = [received EXCEPT ![p] = Append(@, c)]
  /\ fifo' = Tail(fifo)
  /\ UNCHANGED <<vars, port, setup, writers, directives, scanner>>

-----------------------------------------------------------------------------
(* write_serial, for whichever program has characters to write *)

(* kmain stands still while the handler runs, which prints before its EOI. *)
Runs(p) == IF p = "kmain" THEN handler = "none" ELSE handler = "EOI"

(* write_better looks at a character before it calls write_serial.         *)
AlwaysMore(p) == TRUE
More(p) == todo[p] # <<>>

Wait(p) ==
  /\ Runs(p) /\ More(p) /\ p \notin ready
  /\ TransmitEmpty
  /\ ready' = ready \cup {p}
  /\ UNCHANGED <<vars, port, wire, setup, todo, directives, scanner>>

Write(p) ==
  /\ Runs(p) /\ p \in ready
  /\ Outb(0, <<p, Head(todo[p])>>)
  /\ todo' = [todo EXCEPT ![p] = Tail(@)]
  /\ ready' = ready \ {p}
  /\ UNCHANGED <<vars, setup, directives, scanner>>

write_serial(p) == Wait(p) \/ Write(p)

Say(p, text) == todo' = [todo EXCEPT ![p] = text]

-----------------------------------------------------------------------------
(* kmain *)

(* init_serial: interrupts off, divisor 12, 8 bits, FIFO on and cleared.   *)
SetupWithoutFifo == <<<<1, 0>>, <<3, 128>>, <<0, 12>>, <<1, 0>>, <<3, 3>>, <<2, 0>>, <<4, 11>>>>
Setup == <<<<1, 0>>, <<3, 128>>, <<0, 12>>, <<1, 0>>, <<3, 3>>, <<2, 199>>, <<4, 11>>>>

init_serial ==
  /\ setup < Len(Setup)
  /\ Outb(Setup[setup + 1][1], Setup[setup + 1][2])
  /\ setup' = setup + 1
  /\ IF setup' = Len(Setup) THEN Say("kmain", Banner) ELSE UNCHANGED todo
  /\ UNCHANGED <<vars, ready, directives, scanner>>

Idle == setup = Len(Setup) /\ todo["kmain"] = <<>> /\ handler = "none"

(* The keyboard's set up, once the banner is written.                      *)
BootKeyboard == Idle /\ Boot /\ UNCHANGED serial

(* One turn of kprintf's loop.  gcc turns reading a char from the argument *)
(* list into an invalid opcode, other compilers read the word.             *)
Scan ==
  /\ Idle /\ pc = "run" /\ kprint = "scan"
  /\ \/ /\ fmt[i] = "NUL"
        /\ kprint' = "done"
        /\ UNCHANGED <<i, args, todo>>
     \/ /\ fmt[i] \notin {"NUL", "%"}
        /\ Say("kmain", <<fmt[i]>>)
        /\ i' = i + 1
        /\ UNCHANGED <<args, kprint>>
     \/ /\ fmt[i] = "%"
        /\ LET conversion == Convert(fmt[i + 1], args)
           IN  /\ Say("kmain", conversion.out)
               /\ args' = SubSeq(args, conversion.taken + 1, Len(args))
        /\ i' = i + 2
        /\ UNCHANGED kprint
     \/ /\ fmt[i] = "%" /\ fmt[i + 1] = "c"
        /\ kprint' = "trap"
        /\ UNCHANGED <<i, args, todo>>
  /\ UNCHANGED <<vars, port, wire, setup, ready, directives>>

-----------------------------------------------------------------------------
(* The keyboard's handler *)

(* In #UD's handler, where a trap ends, interrupts are off.                *)
EnterHandler == kprint # "trap" /\ Interrupt /\ UNCHANGED serial

(* kprintf("%x", scancode) and a line of text.                             *)
Echo(k) == print_hex_serial(k) \o <<"\n">>

ReadAndEcho ==
  /\ ReadScancode
  /\ Say("handler", Echo(data))
  /\ UNCHANGED <<port, wire, setup, ready, directives, scanner>>

Acknowledge == todo["handler"] = <<>> /\ EndOfInterrupt /\ UNCHANGED serial

LeaveHandler == Iret /\ UNCHANGED serial

Kmain == init_serial \/ BootKeyboard \/ Scan \/ write_serial("kmain")
KeyboardHandler == ReadAndEcho \/ write_serial("handler") \/ Acknowledge \/ LeaveHandler

SerialNext ==
  \/ Press /\ UNCHANGED serial
  \/ Take /\ UNCHANGED serial
  \/ Shift
  \/ Kmain
  \/ EnterHandler
  \/ KeyboardHandler

allvars == <<vars, serial>>

SerialSpec == SerialInit /\ [][SerialNext]_allvars

(* The devices and the processor get on with what they can do.             *)
SerialFairSpec ==
  /\ SerialSpec
  /\ WF_allvars(Take /\ UNCHANGED serial) /\ WF_allvars(Shift)
  /\ WF_allvars(Kmain) /\ WF_allvars(EnterHandler) /\ WF_allvars(KeyboardHandler)

-----------------------------------------------------------------------------
(* Properties *)

(* The variables have their types: in particular a printer that has seen   *)
(* the port ready still has the character it will write, and kprintf does  *)
(* not look behind its format, but for the character after a lone %.       *)
SerialTypeOK ==
  /\ TypeOK
  /\ fifo \in Seq(Printers \X Characters)
  /\ received \in [Printers -> Seq(Characters \cup {"garbled"})]
  /\ setup \in 0 .. Len(Setup)
  /\ todo \in [Printers -> Seq(Characters)]
  /\ ready \subseteq Printers /\ \A p \in ready : todo[p] # <<>>
  /\ i \in 1 .. Len(fmt)
  /\ kprint \in {"scan", "done", "trap"}

(* No character is lost, repeated, garbled or out of its printer's order,  *)
(* although two programs share the port and one may find it no longer      *)
(* ready: what has arrived, is on its way and is still to write is, for    *)
(* kmain, the banner and what the directives up to the scanner stand for,  *)
(* and for the handler the scan codes it has read.  A format that ends in  *)
(* a lone % promises nothing.                                              *)
OnItsWay(p) ==
  LET InFifo(k) == IF fifo[k][1] = p THEN <<fifo[k][2]>> ELSE <<>>
  IN  received[p] \o FlattenSeq([k \in DOMAIN fifo |-> InFifo(k)]) \o todo[p]

EndsInPercent == \E k \in DOMAIN directives : directives[k] = LonePercent

TextIntact ==
  /\ setup = Len(Setup) /\ ~EndsInPercent =>
       \E n \in 0 .. Len(directives) :
         LET passed == SubSeq(directives, 1, n)
         IN  i = Len(Texts(passed)) + 1 /\ OnItsWay("kmain") = Banner \o Outputs(passed)
  /\ OnItsWay("handler") = FlattenSeq([k \in DOMAIN scancodes |-> Echo(scancodes[k])])

(* kprintf comes to an end, however often keys interrupt it, and so does   *)
(* all of its output.                                                      *)
KprintfReturns ==
  <>(kprint = "trap" \/ (kprint = "done" /\ fifo = <<>>))

(* Every key that is pressed is read, by the loop before sti or by the     *)
(* handler, which must get through its printing to its EOI; unless kprintf *)
(* has run into a trap.                                                    *)
EveryKeyServed ==
  \A k \in 1 .. MaxKeys : pressed >= k ~> k \in discarded \cup Range(scancodes) \/ kprint = "trap"
=============================================================================
