----------------------------- MODULE Descriptor ----------------------------
(***************************************************************************)
(* The string descriptors (src_stage2/usb.cpp): the memory map a DfuSe     *)
(* host reads is put together with snprintf from the sizes of a build,     *)
(* and doubled into two bytes a character, in a static buffer.             *)
(***************************************************************************)
EXTENDS Directives

CONSTANTS
  Builds,        \* FLASH_BOOTLDR_SIZE_KB and FLASH_APP_SIZE_KB of a build
  Calls,         \* other calls of snprintf: a set for each type of argument
  Names,         \* by index: DFU_STRING_MFR, DFU_STRING_PRODUCT, DFU_STRING_SERIAL
  BufferLimit    \* sizeof sbuf: 100

DFU_SECTOR_SIZE_KB == 4

VARIABLES
  map,      \* snprintf is at work on the memory map
  sbuf      \* the descriptor, as long as it is

descriptorVars == <<printfVars, map, sbuf>>

DescriptorInit == PrintfInit /\ map = FALSE /\ sbuf = <<>>

Number(n) ==
  [flags |-> {}, width |-> No, prec |-> No, length |-> <<>>, spec |-> "d", value |-> n]

Number4(n) == [Number(n) EXCEPT !.flags = {"0"}, !.width = By("digits", 4)]

(* "@Internal Flash  /0x00000000/%d*%04dKa,%d*%04dKg", 59                  *)
MemoryMap(b) ==
  CallOf(<<Literal(<<"@", "I", "n", "t", "e", "r", "n", "a", "l", " ", "F", "l", "a", "s", "h",
                     " ", " ", "/", "0", "x", "0", "0", "0", "0", "0", "0", "0", "0", "/">>),
           Number(b.boot \div DFU_SECTOR_SIZE_KB), Literal(<<"*">>),
           Number4(DFU_SECTOR_SIZE_KB), Literal(<<"K", "a", ",">>),
           Number(b.app \div DFU_SECTOR_SIZE_KB), Literal(<<"*">>),
           Number4(DFU_SECTOR_SIZE_KB), Literal(<<"K", "g">>)>>, 59)

(* Mutant: one byte a character in the length.                             *)
bLength_Single(s) == (2 + Len(s)) % 256

(* Bytes hold the length of the string and of the descriptor.              *)
bLength(s) == (2 + (Len(s) % 256) * 2) % 256

Doubled(s) ==
  <<bLength(s), "STRING">>
    \o [k \in 1 .. (2 * Len(s)) |-> IF k % 2 = 1 THEN s[(k + 1) \div 2] ELSE 0]

(* A request for a string, whatever the build: the names are at hand, an   *)
(* index that is not known gives an empty string.                          *)
GetName(n) ==
  /\ place = "idle" /\ place' = "reply"
  /\ sbuf' = Doubled(n)
  /\ UNCHANGED <<map, run, format, arg, flags, width, precision, idx, buffer>>

GetMemoryMap(b) == snprintf_(MemoryMap(b)) /\ map' = TRUE /\ UNCHANGED sbuf

TextOf(cells) ==
  LET n == CHOOSE k \in DOMAIN cells : cells[k] = NUL /\ \A j \in 0 .. (k - 1) : cells[j] # NUL
  IN [k \in 1 .. n |-> cells[k - 1]]

Describe ==
  /\ place = "done" /\ map /\ place' = "reply"
  /\ sbuf' = Doubled(TextOf(buffer))
  /\ UNCHANGED <<map, run, format, arg, flags, width, precision, idx, buffer>>

Return ==
  /\ place = "reply" \/ (place = "done" /\ ~ map)
  /\ Returned /\ sbuf' = <<>> /\ map' = FALSE

(* Every format in the program is one a compiler accepts.                  *)
ASSUME FormatAssumption ==
  /\ \A b \in Builds : WellFormed(MemoryMap(b))
  /\ \A k \in DOMAIN Calls : \A c \in Calls[k] : WellFormed(c)

DescriptorNext ==
  \/ /\ place = "idle"
     /\ \/ \E n \in Names : GetName(n)
        \/ \E b \in Builds : GetMemoryMap(b)
        \/ \E k \in DOMAIN Calls : \E c \in Calls[k] :
             snprintf_(c) /\ UNCHANGED <<map, sbuf>>
  \/ Vsnprintf /\ UNCHANGED <<map, sbuf>>
  \/ Describe
  \/ Return

DescriptorSpec == DescriptorInit /\ [][DescriptorNext]_descriptorVars

(* The descriptor fits its buffer and its length byte says how long it is; *)
(* the memory map in it is whole, for the flash sizes of the family        *)
(* (Builds; usb.cpp:198-243).                                              *)
DescriptorFits ==
  place = "reply" =>
    /\ Len(sbuf) <= BufferLimit /\ sbuf[1] = Len(sbuf)
    /\ map => Len(sbuf) = 2 + 2 * Len(run.meant)
=============================================================================
