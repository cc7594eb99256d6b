------------------------------ MODULE FatCodec ------------------------------
(***************************************************************************)
(* The numbers of the FAT12 file system as bytes: kernel/fat_fs_utils.cpp. *)
(*                                                                         *)
(* The kernel keeps the table twice, as bytes for the disk and as numbers  *)
(* for the look-ups, and changes one entry in both at a time.  Two numbers *)
(* of 12 bits share three bytes.  The code works on the hexadecimal digits *)
(* that snprintf prints; here they are computed.                           *)
(***************************************************************************)
EXTENDS Integers, SequencesExt

Byte   == 0 .. 255
Number == 0 .. 4095

(* The two digits of a byte, and the byte that two digits name             *)
(* (conv_char_arr_to_hex).                                                 *)
High(byte) == byte \div 16
Low(byte)  == byte % 16
Pair(high, low) == 16 * high + low

(* Where the two bytes of entry i begin: i * 1.5, cut off.                 *)
ByteOf(i) == (3 * i) \div 2

(* Mutant of convert_num_to_bytes_fat: the digits of the neighbour and of  *)
(* the number in the shared byte are exchanged for odd entries.            *)
OddSwapped(i, bytes, n) ==
  LET d == [k \in 0 .. 2 |-> IF k = 0 THEN n \div 256 ELSE IF k = 1 THEN High(n % 256) ELSE Low(n)]
  IN IF i % 2 = 0
     THEN <<Pair(d[1], d[2]), Pair(High(bytes[ByteOf(i) + 1]), d[0])>>
     ELSE <<Pair(Low(bytes[ByteOf(i)]), d[2]), Pair(d[0], d[1])>>

(* The two bytes of entry i of the table once it holds n: the digit that   *)
(* belongs to the entry beside it is kept.                                 *)
convert_num_to_bytes_fat(i, bytes, n) ==
  LET d == [k \in 0 .. 2 |-> IF k = 0 THEN n \div 256 ELSE IF k = 1 THEN High(n % 256) ELSE Low(n)]
  IN IF i % 2 = 0
     THEN <<Pair(d[1], d[2]), Pair(High(bytes[ByteOf(i) + 1]), d[0])>>
     ELSE <<Pair(d[2], Low(bytes[ByteOf(i)])), Pair(d[0], d[1])>>

(* How every operation of the file system changes an entry in the bytes.   *)
Injected(bytes, i, n) ==
  LET two == convert_num_to_bytes_fat(i, bytes, n)
  IN [bytes EXCEPT ![ByteOf(i)] = two[1], ![ByteOf(i) + 1] = two[2]]

(* The bytes of a table of n pairs of entries: the entries that t says     *)
(* something of are put in, the others are free.                           *)
Bytes(t, n) ==
  FoldLeft(LAMBDA bytes, i : IF i \in DOMAIN t THEN Injected(bytes, i, t[i]) ELSE bytes,
           [p \in 0 .. 3 * n - 1 |-> 0], [i \in 1 .. 2 * n |-> i - 1])

(* The entry i that convert_fat_table_to_dec reads at boot.  It prints     *)
(* three bytes by table[i++] in three arguments of one call; the compiler  *)
(* of the project works them out from the last to the first.               *)
convert_fat_table_to_dec(bytes, i) ==
  LET first == 3 * (i \div 2)
  IN IF i % 2 = 0 THEN 256 * Low(bytes[first + 1]) + bytes[first]
     ELSE 16 * bytes[first + 2] + High(bytes[first + 1])

(* The first cluster in an entry of a folder: two bytes, the low one first.*)
convert_dec_to_hex_start_clus(c) == <<c % 256, c \div 256>>
FirstCluster(two) == 256 * two[2] + two[1]

(* The size of a file in an entry of a folder: four bytes, the lowest one  *)
(* first, read by strtol, which stops at 2^31 - 1 where long has 32 bits.  *)
convert_dec_num_to_hex(n) ==
  <<n % 256, (n \div 256) % 256, (n \div 65536) % 256, (n \div 16777216) % 256>>
FileSize(four) ==
  LET n == 16777216 * four[4] + 65536 * four[3] + 256 * four[2] + four[1]
  IN IF n <= 2147483647 THEN n ELSE 2147483647
=============================================================================
