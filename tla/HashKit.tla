------------------------------ MODULE HashKit ------------------------------
(***************************************************************************)
(* The checksums and hashes of src/common: crc32.hpp, which takes a buffer *)
(* in chunks, and hashkit, whose functions take a whole key.               *)
(*                                                                         *)
(* A word is the set of the positions of its one bits, so that exclusive   *)
(* or is symmetric difference and a shift moves positions; sums and        *)
(* products carry, and every result is cut to 32 bits (64 where the code   *)
(* computes in 64).  A character is a number below 256; where the code     *)
(* converts a char (which the builds for x86 take as signed) to a wider    *)
(* word, its sign bit is copied up.                                        *)
(***************************************************************************)
EXTENDS Integers, Sequences, SequencesExt, FiniteSetsExt

CONSTANTS
  Bytes,        \* the characters that keys are made of
  MaxKey,       \* bound on the length of a key
  MaxChunk      \* bound on the length of a chunk given to rd_crc32_update

ASSUME HashAssumption == Bytes \subseteq 0..255 /\ MaxKey \in Nat /\ MaxChunk \in Nat

VARIABLES
  key,          \* the bytes given so far
  other,        \* a key of the same length, which differs in at most one byte
  crc,          \* the value between calls of rd_crc32_update
  hash,         \* the running words of the loops over key and over other
  register      \* what the definition of the checksums has of key

hashVars == <<key, other, crc, hash, register>>
-----------------------------------------------------------------------------
(* Words.                                                                  *)

Bits16(n) == {i \in 0..15 : (n \div 2^i) % 2 = 1}
Shifted(w, n) == {i + n : i \in w}
Word(hi, lo) == Bits16(lo) \cup Shifted(Bits16(hi), 16)

Xor(a, b) == (a \ b) \cup (b \ a)
Cut(w, width) == {i \in w : i < width}
Shl(w, n) == Cut(Shifted(w, n), 32)
Shr(w, n) == {i - n : i \in {j \in w : j >= n}}
Not(w) == (0..31) \ w

Words == SUBSET (0..63)

\* Functions and not operators, for TLC computes a function's arguments once.
SumOf[a \in Words, b \in Words, width \in {32, 64}] ==
  IF a \cap b = {} THEN a \cup b
  ELSE SumOf[Xor(a, b), Cut(Shifted(a \cap b, 1), width), width]
ProductOf[a \in Words, b \in Words, width \in {32, 64}] ==
  IF b = {} THEN {}
  ELSE LET i == CHOOSE j \in b : TRUE IN SumOf[Cut(Shifted(a, i), width), ProductOf[a, b \ {i}, width], width]
Add(a, b) == SumOf[a, b, 32]
Mul(a, b) == ProductOf[a, b, 32]

Byte(c) == Bits16(c)
Widened(c, width) == Byte(c) \cup IF 7 \in Byte(c) THEN 8..(width - 1) ELSE {}
Index(w) == FoldSet(LAMBDA i, sum : sum + 2^i, 0, w)
Low(n) == Word(0, n)
-----------------------------------------------------------------------------
(* The tables.                                                             *)

crc16tab == <<
    \h0000, \h1021, \h2042, \h3063, \h4084, \h50a5, \h60c6, \h70e7, \h8108, \h9129, \ha14a, \hb16b, \hc18c, \hd1ad, \he1ce, \hf1ef,
    \h1231, \h0210, \h3273, \h2252, \h52b5, \h4294, \h72f7, \h62d6, \h9339, \h8318, \hb37b, \ha35a, \hd3bd, \hc39c, \hf3ff, \he3de,
    \h2462, \h3443, \h0420, \h1401, \h64e6, \h74c7, \h44a4, \h5485, \ha56a, \hb54b, \h8528, \h9509, \he5ee, \hf5cf, \hc5ac, \hd58d,
    \h3653, \h2672, \h1611, \h0630, \h76d7, \h66f6, \h5695, \h46b4, \hb75b, \ha77a, \h9719, \h8738, \hf7df, \he7fe, \hd79d, \hc7bc,
    \h48c4, \h58e5, \h6886, \h78a7, \h0840, \h1861, \h2802, \h3823, \hc9cc, \hd9ed, \he98e, \hf9af, \h8948, \h9969, \ha90a, \hb92b,
    \h5af5, \h4ad4, \h7ab7, \h6a96, \h1a71, \h0a50, \h3a33, \h2a12, \hdbfd, \hcbdc, \hfbbf, \heb9e, \h9b79, \h8b58, \hbb3b, \hab1a,
    \h6ca6, \h7c87, \h4ce4, \h5cc5, \h2c22, \h3c03, \h0c60, \h1c41, \hedae, \hfd8f, \hcdec, \hddcd, \had2a, \hbd0b, \h8d68, \h9d49,
    \h7e97, \h6eb6, \h5ed5, \h4ef4, \h3e13, \h2e32, \h1e51, \h0e70, \hff9f, \hefbe, \hdfdd, \hcffc, \hbf1b, \haf3a, \h9f59, \h8f78,
    \h9188, \h81a9, \hb1ca, \ha1eb, \hd10c, \hc12d, \hf14e, \he16f, \h1080, \h00a1, \h30c2, \h20e3, \h5004, \h4025, \h7046, \h6067,
    \h83b9, \h9398, \ha3fb, \hb3da, \hc33d, \hd31c, \he37f, \hf35e, \h02b1, \h1290, \h22f3, \h32d2, \h4235, \h5214, \h6277, \h7256,
    \hb5ea, \ha5cb, \h95a8, \h8589, \hf56e, \he54f, \hd52c, \hc50d, \h34e2, \h24c3, \h14a0, \h0481, \h7466, \h6447, \h5424, \h4405,
    \ha7db, \hb7fa, \h8799, \h97b8, \he75f, \hf77e, \hc71d, \hd73c, \h26d3, \h36f2, \h0691, \h16b0, \h6657, \h7676, \h4615, \h5634,
    \hd94c, \hc96d, \hf90e, \he92f, \h99c8, \h89e9, \hb98a, \ha9ab, \h5844, \h4865, \h7806, \h6827, \h18c0, \h08e1, \h3882, \h28a3,
    \hcb7d, \hdb5c, \heb3f, \hfb1e, \h8bf9, \h9bd8, \habbb, \hbb9a, \h4a75, \h5a54, \h6a37, \h7a16, \h0af1, \h1ad0, \h2ab3, \h3a92,
    \hfd2e, \hed0f, \hdd6c, \hcd4d, \hbdaa, \had8b, \h9de8, \h8dc9, \h7c26, \h6c07, \h5c64, \h4c45, \h3ca2, \h2c83, \h1ce0, \h0cc1,
    \hef1f, \hff3e, \hcf5d, \hdf7c, \haf9b, \hbfba, \h8fd9, \h9ff8, \h6e17, \h7e36, \h4e55, \h5e74, \h2e93, \h3eb2, \h0ed1, \h1ef0 >>

\* The upper and the lower halves of the words of crc32tab.
crc32high == <<
    \h0000, \h7707, \hee0e, \h9909, \h076d, \h706a, \he963, \h9e64, \h0edb, \h79dc, \he0d5, \h97d2, \h09b6, \h7eb1, \he7b8, \h90bf,
    \h1db7, \h6ab0, \hf3b9, \h84be, \h1ada, \h6ddd, \hf4d4, \h83d3, \h136c, \h646b, \hfd62, \h8a65, \h1401, \h6306, \hfa0f, \h8d08,
    \h3b6e, \h4c69, \hd560, \ha267, \h3c03, \h4b04, \hd20d, \ha50a, \h35b5, \h42b2, \hdbbb, \hacbc, \h32d8, \h45df, \hdcd6, \habd1,
    \h26d9, \h51de, \hc8d7, \hbfd0, \h21b4, \h56b3, \hcfba, \hb8bd, \h2802, \h5f05, \hc60c, \hb10b, \h2f6f, \h5868, \hc161, \hb666,
    \h76dc, \h01db, \h98d2, \hefd5, \h71b1, \h06b6, \h9fbf, \he8b8, \h7807, \h0f00, \h9609, \he10e, \h7f6a, \h086d, \h9164, \he663,
    \h6b6b, \h1c6c, \h8565, \hf262, \h6c06, \h1b01, \h8208, \hf50f, \h65b0, \h12b7, \h8bbe, \hfcb9, \h62dd, \h15da, \h8cd3, \hfbd4,
    \h4db2, \h3ab5, \ha3bc, \hd4bb, \h4adf, \h3dd8, \ha4d1, \hd3d6, \h4369, \h346e, \had67, \hda60, \h4404, \h3303, \haa0a, \hdd0d,
    \h5005, \h2702, \hbe0b, \hc90c, \h5768, \h206f, \hb966, \hce61, \h5ede, \h29d9, \hb0d0, \hc7d7, \h59b3, \h2eb4, \hb7bd, \hc0ba,
    \hedb8, \h9abf, \h03b6, \h74b1, \head5, \h9dd2, \h04db, \h73dc, \he363, \h9464, \h0d6d, \h7a6a, \he40e, \h9309, \h0a00, \h7d07,
    \hf00f, \h8708, \h1e01, \h6906, \hf762, \h8065, \h196c, \h6e6b, \hfed4, \h89d3, \h10da, \h67dd, \hf9b9, \h8ebe, \h17b7, \h60b0,
    \hd6d6, \ha1d1, \h38d8, \h4fdf, \hd1bb, \ha6bc, \h3fb5, \h48b2, \hd80d, \haf0a, \h3603, \h4104, \hdf60, \ha867, \h316e, \h4669,
    \hcb61, \hbc66, \h256f, \h5268, \hcc0c, \hbb0b, \h2202, \h5505, \hc5ba, \hb2bd, \h2bb4, \h5cb3, \hc2d7, \hb5d0, \h2cd9, \h5bde,
    \h9b64, \hec63, \h756a, \h026d, \h9c09, \heb0e, \h7207, \h0500, \h95bf, \he2b8, \h7bb1, \h0cb6, \h92d2, \he5d5, \h7cdc, \h0bdb,
    \h86d3, \hf1d4, \h68dd, \h1fda, \h81be, \hf6b9, \h6fb0, \h18b7, \h8808, \hff0f, \h6606, \h1101, \h8f65, \hf862, \h616b, \h166c,
    \ha00a, \hd70d, \h4e04, \h3903, \ha767, \hd060, \h4969, \h3e6e, \haed1, \hd9d6, \h40df, \h37d8, \ha9bc, \hdebb, \h47b2, \h30b5,
    \hbdbd, \hcaba, \h53b3, \h24b4, \hbad0, \hcdd7, \h54de, \h23d9, \hb366, \hc461, \h5d68, \h2a6f, \hb40b, \hc30c, \h5a05, \h2d02 >>

crc32low == <<
    \h0000, \h3096, \h612c, \h51ba, \hc419, \hf48f, \ha535, \h95a3, \h8832, \hb8a4, \he91e, \hd988, \h4c2b, \h7cbd, \h2d07, \h1d91,
    \h1064, \h20f2, \h7148, \h41de, \hd47d, \he4eb, \hb551, \h85c7, \h9856, \ha8c0, \hf97a, \hc9ec, \h5c4f, \h6cd9, \h3d63, \h0df5,
    \h20c8, \h105e, \h41e4, \h7172, \he4d1, \hd447, \h85fd, \hb56b, \ha8fa, \h986c, \hc9d6, \hf940, \h6ce3, \h5c75, \h0dcf, \h3d59,
    \h30ac, \h003a, \h5180, \h6116, \hf4b5, \hc423, \h9599, \ha50f, \hb89e, \h8808, \hd9b2, \he924, \h7c87, \h4c11, \h1dab, \h2d3d,
    \h4190, \h7106, \h20bc, \h102a, \h8589, \hb51f, \he4a5, \hd433, \hc9a2, \hf934, \ha88e, \h9818, \h0dbb, \h3d2d, \h6c97, \h5c01,
    \h51f4, \h6162, \h30d8, \h004e, \h95ed, \ha57b, \hf4c1, \hc457, \hd9c6, \he950, \hb8ea, \h887c, \h1ddf, \h2d49, \h7cf3, \h4c65,
    \h6158, \h51ce, \h0074, \h30e2, \ha541, \h95d7, \hc46d, \hf4fb, \he96a, \hd9fc, \h8846, \hb8d0, \h2d73, \h1de5, \h4c5f, \h7cc9,
    \h713c, \h41aa, \h1010, \h2086, \hb525, \h85b3, \hd409, \he49f, \hf90e, \hc998, \h9822, \ha8b4, \h3d17, \h0d81, \h5c3b, \h6cad,
    \h8320, \hb3b6, \he20c, \hd29a, \h4739, \h77af, \h2615, \h1683, \h0b12, \h3b84, \h6a3e, \h5aa8, \hcf0b, \hff9d, \hae27, \h9eb1,
    \h9344, \ha3d2, \hf268, \hc2fe, \h575d, \h67cb, \h3671, \h06e7, \h1b76, \h2be0, \h7a5a, \h4acc, \hdf6f, \heff9, \hbe43, \h8ed5,
    \ha3e8, \h937e, \hc2c4, \hf252, \h67f1, \h5767, \h06dd, \h364b, \h2bda, \h1b4c, \h4af6, \h7a60, \hefc3, \hdf55, \h8eef, \hbe79,
    \hb38c, \h831a, \hd2a0, \he236, \h7795, \h4703, \h16b9, \h262f, \h3bbe, \h0b28, \h5a92, \h6a04, \hffa7, \hcf31, \h9e8b, \hae1d,
    \hc2b0, \hf226, \ha39c, \h930a, \h06a9, \h363f, \h6785, \h5713, \h4a82, \h7a14, \h2bae, \h1b38, \h8e9b, \hbe0d, \hefb7, \hdf21,
    \hd2d4, \he242, \hb3f8, \h836e, \h16cd, \h265b, \h77e1, \h4777, \h5ae6, \h6a70, \h3bca, \h0b5c, \h9eff, \hae69, \hffd3, \hcf45,
    \he278, \hd2ee, \h8354, \hb3c2, \h2661, \h16f7, \h474d, \h77db, \h6a4a, \h5adc, \h0b66, \h3bf0, \hae53, \h9ec5, \hcf7f, \hffe9,
    \hf21c, \hc28a, \h9330, \ha3a6, \h3605, \h0693, \h5729, \h67bf, \h7a2e, \h4ab8, \h1b02, \h2b94, \hbe37, \h8ea1, \hdf1b, \hef8d >>

crc32tab == [n \in 0..255 |-> Word(crc32high[n + 1], crc32low[n + 1])]

\* The same 256 words stand in crc32.hpp.
crc_table == crc32tab
-----------------------------------------------------------------------------
(* crc32.hpp.                                                              *)

crc32_reflect(data, data_len) == {data_len - 1 - i : i \in Cut(data, data_len)}

crc32_init == 0..31

rd_crc32_updateSlip(c, data) ==
  FoldLeft(LAMBDA r, b : Xor(crc_table[Index(Cut(Xor(Shr(r, 8), Byte(b)), 8))], Shr(r, 8)), c, data)
rd_crc32_update(c, data) ==
  FoldLeft(LAMBDA r, b : Xor(crc_table[Index(Cut(Xor(r, Byte(b)), 8))], Shr(r, 8)), c, data)

rd_crc32_finalize(c) == Not(c)

rd_crc32(data) == rd_crc32_finalize(rd_crc32_update(crc32_init, data))
-----------------------------------------------------------------------------
(* hashkit.                                                                *)

\* The loop of each function over the bytes k, from the word h on.  In hash_crc16
\* what leaves the lower 16 bits stays above them.
hash_crc16(h, k) ==
  FoldLeft(LAMBDA r, b : Xor(Shl(r, 8), Bits16(crc16tab[Index(Cut(Xor(Shr(r, 8), Byte(b)), 8)) + 1])),
           h, k)

hash_crc32(h, k) ==
  FoldLeft(LAMBDA r, b : Xor(Shr(r, 8), crc32tab[Index(Cut(Xor(r, Widened(b, 64)), 8))]), h, k)

hash_crc32a(h, k) ==
  FoldLeft(LAMBDA r, b : Xor(crc32tab[Index(Cut(Xor(r, Byte(b)), 8))], Shr(r, 8)), h, k)

FNV_64_INIT == Shifted(Word(\hcbf2, \h9ce4), 32) \cup Word(\h8422, \h2325)
FNV_64_PRIME == {40} \cup Low(\h1b3)
FNV_32_INIT == Word(\h811c, \h9dc5)
FNV_32_PRIME == Word(\h100, \h193)

hash_fnv1_64(h, k) ==
  FoldLeft(LAMBDA r, b : Xor(ProductOf[r, FNV_64_PRIME, 64], Widened(b, 64)), h, k)

hash_fnv1a_64(h, k) ==
  FoldLeft(LAMBDA r, b : Mul(Xor(r, Widened(b, 32)), Cut(FNV_64_PRIME, 32)), h, k)

hash_fnv1_32(h, k) == FoldLeft(LAMBDA r, b : Xor(Mul(r, FNV_32_PRIME), Widened(b, 32)), h, k)

hash_fnv1a_32(h, k) == FoldLeft(LAMBDA r, b : Mul(Xor(r, Widened(b, 32)), FNV_32_PRIME), h, k)

\* h += h >> n, h ^= h >> n, and their likes to the left.
AddShr(h, n) == Add(h, Shr(h, n))
AddShl(h, n) == Add(h, Shl(h, n))
XorShr(h, n) == Xor(h, Shr(h, n))
XorShl(h, n) == Xor(h, Shl(h, n))

hash_one_at_a_time(h, k) ==
  FoldLeft(LAMBDA r, b : XorShr(AddShl(Add(r, Widened(b, 32)), 10), 6), h, k)

\* The word a function begins with, and what it returns of the word at the end.
Seeds == [crc16 |-> {}, crc32 |-> 0..31, crc32a |-> 0..31, fnv1_64 |-> FNV_64_INIT,
          fnv1a_64 |-> Cut(FNV_64_INIT, 32), fnv1_32 |-> FNV_32_INIT, fnv1a_32 |-> FNV_32_INIT,
          one_at_a_time |-> {}]

Returned(h) ==
  [h EXCEPT !.crc32 = Cut(Shr(Not(@), 16), 15),
            !.crc32a = Xor(@, 0..31),
            !.fnv1_64 = Cut(@, 32),
            !.one_at_a_time = AddShl(XorShr(AddShl(@, 3), 11), 15)]

Continued(h, k) ==
  [crc16 |-> hash_crc16(h.crc16, k), crc32 |-> hash_crc32(h.crc32, k), crc32a |-> hash_crc32a(h.crc32a, k),
   fnv1_64 |-> hash_fnv1_64(h.fnv1_64, k), fnv1a_64 |-> hash_fnv1a_64(h.fnv1a_64, k),
   fnv1_32 |-> hash_fnv1_32(h.fnv1_32, k), fnv1a_32 |-> hash_fnv1a_32(h.fnv1a_32, k),
   one_at_a_time |-> hash_one_at_a_time(h.one_at_a_time, k)]

\* The two functions that read blocks of four, on a whole key.
Blocks(k) == [n \in 1..(Len(k) \div 4) |-> SubSeq(k, 4 * n - 3, 4 * n)]
Leftover(k) == SubSeq(k, 4 * (Len(k) \div 4) + 1, Len(k))

get16bits(k, at) == Byte(k[at]) \cup Shl(Byte(k[at + 1]), 8)

hash_hsieh(k) ==
  LET Block(h, d) ==
        LET sum == Add(h, get16bits(d, 1))
        IN AddShr(Xor(Shl(sum, 16), Xor(Shl(get16bits(d, 3), 11), sum)), 11)
      main == FoldLeft(Block, {}, Blocks(k))
      d == Leftover(k)
      tail == CASE Len(d) = 3 -> AddShr(Xor(XorShl(Add(main, get16bits(d, 1)), 16), Shl(Widened(d[3], 32), 18)), 11)
                [] Len(d) = 2 -> AddShr(XorShl(Add(main, get16bits(d, 1)), 11), 17)
                [] Len(d) = 1 -> AddShr(XorShl(Add(main, Byte(d[1])), 10), 1)
                [] OTHER -> main
  IN IF k = <<>> THEN {}
     ELSE AddShr(XorShl(AddShr(XorShl(AddShr(XorShl(tail, 3), 5), 4), 17), 25), 6)

\* A block is loaded as a word of its four bytes, the first the lowest.
hash_murmur(k) ==
  LET m == Word(\h5bd1, \he995)
      seed == Mul(Word(\hdead, \hbeef), Low(Len(k)))
      Load(d) == get16bits(d, 1) \cup Shl(get16bits(d, 3), 16)
      Block(h, d) == Xor(Mul(h, m), Mul(XorShr(Mul(Load(d), m), 24), m))
      main == FoldLeft(Block, Xor(seed, Low(Len(k))), Blocks(k))
      d == Leftover(k)
      tail == FoldLeft(LAMBDA h, i : Xor(h, Shl(Byte(d[i]), 8 * (i - 1))), main, [i \in 1..Len(d) |-> i])
      mixed == IF d = <<>> THEN main ELSE Mul(tail, m)
  IN XorShr(Mul(XorShr(mixed, 13), m), 15)
-----------------------------------------------------------------------------
(* A cyclic redundancy check, from the parameters that the heads of        *)
(* crc32.hpp and crc.cc list: the bits of the message, each byte from its  *)
(* high bit (reflected: from its low bit), are shifted into a register of  *)
(* the given width, and the polynomial is subtracted whenever a one leaves *)
(* it.                                                                     *)

Divided(width, poly, start, message, reflected) ==
  LET Shift(r, bit) == LET moved == Cut(Shifted(r, 1), width)
                       IN IF (width - 1 \in r) # bit THEN Xor(moved, poly) ELSE moved
      Bit(n) == (IF reflected THEN (n - 1) % 8 ELSE 7 - ((n - 1) % 8)) \in Byte(message[(n - 1) \div 8 + 1])
  IN FoldLeft(Shift, start, [n \in 1..(8 * Len(message)) |-> Bit(n)])

Poly32 == Word(\h04c1, \h1db7)
Poly16 == Low(\h1021)

Crc32 == Not(crc32_reflect(register.crc32, 32))
-----------------------------------------------------------------------------
HashInit ==
  /\ key = <<>> /\ other = <<>> /\ crc = crc32_init
  /\ hash = <<Seeds, Seeds>>
  /\ register = [crc32 |-> 0..31, crc16 |-> {}]

Differences(a, b) == Cardinality({i \in DOMAIN a : a[i] # b[i]})

\* A caller that has a checksum of the bytes so far adds a chunk; the loops of the
\* hashes come as far.
Update(chunk, changed) ==
  /\ Len(key) + Len(chunk) <= MaxKey
  /\ Differences(key, other) + Differences(chunk, changed) <= 1
  /\ key' = key \o chunk
  /\ other' = other \o changed
  /\ crc' = rd_crc32_update(crc, chunk)
  /\ hash' = <<Continued(hash[1], chunk), Continued(hash[2], changed)>>
  /\ register' = [crc32 |-> Divided(32, Poly32, register.crc32, chunk, TRUE),
                  crc16 |-> Divided(16, Poly16, register.crc16, chunk, FALSE)]

HashNext ==
  \E n \in 1..MaxChunk : \E chunk, changed \in [1..n -> Bytes] : Update(chunk, changed)
-----------------------------------------------------------------------------
(* Properties.                                                             *)

\* Every word of the tables is what the definition of its checksum gives for the
\* byte, and the steps that use them, however a buffer is cut into chunks, compute
\* the checksums that the heads of the two files describe: crc32.hpp and
\* hash_crc32a the whole of it, hash_crc32 bits 16 to 30, and hash_crc16 in its
\* lower half the check with the polynomial 0x1021.  For the other hashes, keys of
\* the same length that differ in one byte hash apart: every byte counts, in its
\* place, whatever the length leaves over after blocks of four and whatever the
\* sign of a char.  Their steps are one-to-one, but for those of hash_hsieh, whose
\* sums h + (h >> n) may take two words to one: of it this says only that no byte
\* of the keys made of Bytes is lost.
HashesAsMeant ==
  /\ Len(key) = 1 => \A b \in 0..255 :
       /\ rd_crc32_update({}, <<b>>) = crc32_reflect(Divided(32, Poly32, {}, <<b>>, TRUE), 32)
       /\ hash_crc32a({}, <<b>>) = rd_crc32_update({}, <<b>>)
       /\ hash_crc16({}, <<b>>) = Divided(16, Poly16, {}, <<b>>, FALSE)
  /\ key # <<>> =>
       LET one == Returned(hash[1])
           two == Returned(hash[2])
       IN /\ rd_crc32_finalize(crc) = Crc32 /\ rd_crc32(key) = Crc32
          /\ one.crc32a = Crc32 /\ one.crc32 = {i \in 0..14 : i + 16 \in Crc32}
          /\ Cut(one.crc16, 16) = register.crc16
          /\ key # other =>
               /\ \A f \in DOMAIN one \ {"crc16", "crc32"} : one[f] # two[f]
               /\ hash_hsieh(key) # hash_hsieh(other) /\ hash_murmur(key) # hash_murmur(other)
=============================================================================
