------------------------------ MODULE AuxLayout ------------------------------
(***************************************************************************)
(* The layout of the aux buffer (fuzz_runner/src/nyx/aux_buffer.rs) and    *)
(* who can read how much of the message in its misc part.                  *)
(*                                                                         *)
(* The parts have fixed places, but the buffer may be larger than the      *)
(* 4 KB they were laid out for: some readers use the array of the packed   *)
(* struct, others slices of the size the buffer was mapped with.  A        *)
(* message is given by its length.                                         *)
(***************************************************************************)
EXTENDS Naturals

AUX_BUFFER_SIZE == 4096

(* The parts in their order: header, cap, config, state, misc. *)
HEADER_SIZE == 128
CAP_SIZE    == 256
CONFIG_SIZE == 512
STATE_SIZE  == 512
MISC_OFFSET == HEADER_SIZE + CAP_SIZE + CONFIG_SIZE + STATE_SIZE
MISC_SIZE   == AUX_BUFFER_SIZE - MISC_OFFSET

(* misc is a length of two bytes and the data. *)
LEN_SIZE == 2
MAX_LEN  == 2 ^ 16 - 1

(* The array auxilary_buffer_misc_s.data, whatever the size of the buffer. *)
DataArray == MISC_SIZE - LEN_SIZE

(* misc_slice() and misc_data_slice() of a buffer of this size. *)
MiscSlice(size)     == size - MISC_OFFSET
MiscDataSlice(size) == MiscSlice(size) - LEN_SIZE

(* Faulty: off by one. *)
InArrayStrict(len) == len < DataArray

(* The slice [0 .. len] of the array is in bounds; otherwise it panics. *)
InArray(len)       == len <= DataArray
InSlice(len, size) == len <= MiscDataSlice(size)

(* The messages QEMU can post: they fit into len and into the buffer. *)
Postable(len, size) == len <= MAX_LEN /\ InSlice(len, size)

(* Bytes of the text of a message that are not UTF-8, by their places. *)
NotText(len, foreign) == IF len \in foreign /\ len > 0 THEN {len - 1} ELSE {}

(* What is left of them in the data when a message is written over it. *)
Overwritten(bytes, len, foreign) ==
  {b \in bytes : b >= len} \cup NotText(len, foreign)

(* nyx_print_aux_buffer(): from_utf8() of the whole array. *)
ArrayIsText(bytes) == \A b \in bytes : b >= DataArray

(* Faulty: acat decodes the whole array, too. *)
AcatShowsArray(len, bytes) == InArray(len) /\ ArrayIsText(bytes)

(* acat: from_utf8() of the message in the array, of any buffer. *)
AcatShows(len, bytes) == InArray(len) /\ \A b \in bytes : b >= len

=============================================================================
