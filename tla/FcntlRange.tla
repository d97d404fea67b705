----------------------------- MODULE FcntlRange -----------------------------
(***************************************************************************)
(* The byte range of a POSIX lock, libos/src/sys/libos_fcntl.c: from the   *)
(* l_whence, l_start, l_len of fcntl() to an absolute range                *)
(* (flock_to_file_lock), and back (F_GETLK).  Integers are words: offsets  *)
(* are signed (off_t), positions are unsigned (uint64_t).                  *)
(***************************************************************************)
EXTENDS Integers

CONSTANT SignBit     \* what the first bit of a word stands for: 2^63 in the code

ASSUME SignBitAssumption == SignBit \in Nat \ {0}

(* FS_LOCK_EOF: the last position, "until the end of the file". *)
MaxPosition == 2 * SignBit - 1
Positions == 0..MaxPosition
Offsets == (-SignBit)..(SignBit - 1)

ByteRange(start, end) == [ret |-> "OK", start |-> start, end |-> end]
Fail(errno) == [ret |-> errno, start |-> 0, end |-> 0]

(* __builtin_add_overflow into a uint64_t. *)
Overflows(n) == n \notin Positions

(* Mutant: the range of a positive length ends one byte too far. *)
RangeInclusiveLen(origin, len) ==
    CASE len > 0 -> IF Overflows(origin + len) THEN Fail("EOVERFLOW") ELSE ByteRange(origin, origin + len)
      [] len < 0 -> IF Overflows(origin + len) \/ Overflows(origin - 1) THEN Fail("EINVAL")
                    ELSE ByteRange(origin + len, origin - 1)
      [] OTHER -> ByteRange(origin, MaxPosition)

RangeOf(origin, len) ==
    CASE len > 0 -> IF Overflows(origin + (len - 1)) THEN Fail("EOVERFLOW")
                    ELSE ByteRange(origin, origin + (len - 1))
      [] len < 0 -> IF Overflows(origin + len) \/ Overflows(origin - 1) THEN Fail("EINVAL")
                    ELSE ByteRange(origin + len, origin - 1)
      [] OTHER -> ByteRange(origin, MaxPosition)

(* origin is 0, the position in the file or the size of the file,          *)
(* according to l_whence.                                                  *)
FlockToFileLock(origin, l_start, l_len) ==
    IF Overflows(origin + l_start)
    THEN Fail(IF l_start > 0 THEN "EOVERFLOW" ELSE "EINVAL")
    ELSE RangeOf(origin + l_start, l_len)

(* A uint64_t stored in an off_t. *)
Signed(n) == IF n < SignBit THEN n ELSE n - 2 * SignBit

(* Mutant: the length is the difference of the bounds. *)
GetLkShort(start, end) ==
    [l_start |-> Signed(start), l_len |-> IF end = MaxPosition THEN 0 ELSE Signed(end - start)]

(* The l_start and l_len that F_GETLK stores, with l_whence = SEEK_SET. *)
GetLk(start, end) ==
    [l_start |-> Signed(start), l_len |-> IF end = MaxPosition THEN 0 ELSE Signed(end - start + 1)]

-----------------------------------------------------------------------------
(* fcntl(F_SETLK) converts its arguments once.                             *)

VARIABLES origin, l_start, l_len, lock

rangeVars == <<origin, l_start, l_len, lock>>

NoAnswer == [ret |-> "none", start |-> 0, end |-> 0]

(* A position or size of a file is a non-negative off_t. *)
FcntlArguments == origin \in Offsets \cap Nat /\ l_start \in Offsets /\ l_len \in Offsets

NoArguments == origin = 0 /\ l_start = 0 /\ l_len = 0

Convert == /\ lock = NoAnswer /\ lock' = FlockToFileLock(origin, l_start, l_len)
           /\ UNCHANGED <<origin, l_start, l_len>>

RangeSpec == FcntlArguments /\ lock = NoAnswer /\ [][Convert]_rangeVars

(* The bytes meant, by fcntl(2), without any width. *)
FirstByte == origin + l_start + (IF l_len < 0 THEN l_len ELSE 0)
LastByte == IF l_len = 0 THEN MaxPosition
            ELSE origin + l_start + (IF l_len < 0 THEN 0 ELSE l_len) - 1

(* flock_to_file_lock gives exactly the bytes meant, non-empty; it refuses *)
(* with -EINVAL what starts before the file, with -EOVERFLOW what ends     *)
(* beyond the largest position, and nothing else.                          *)
ConversionExact == lock # NoAnswer =>
    CASE lock.ret = "OK" -> lock.start = FirstByte /\ lock.end = LastByte /\ FirstByte <= LastByte
      [] lock.ret = "EINVAL" -> FirstByte < 0
      [] lock.ret = "EOVERFLOW" -> LastByte > MaxPosition \/ origin + l_start > MaxPosition
      [] OTHER -> FALSE

(* A lock whose start and length an off_t can name is reported by F_GETLK  *)
(* such that asking for what was reported gives the same lock.             *)
RoundTrip ==
    (/\ lock.ret = "OK" /\ lock.start \in Offsets
     /\ lock.end = MaxPosition \/ lock.end - lock.start + 1 \in Offsets) =>
        LET fl == GetLk(lock.start, lock.end)
        IN FlockToFileLock(0, fl.l_start, fl.l_len) = lock

(* Both directions of the conversion between struct flock and byte ranges. *)
RangesExact == ConversionExact /\ RoundTrip
=============================================================================
