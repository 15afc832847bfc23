-------------------------------- MODULE Spd --------------------------------
(***************************************************************************)
(* What system/spd.c makes of the bytes of an SPD EEPROM: parse_spd and    *)
(* the seven parse_spd_* functions.                                        *)
(*                                                                         *)
(* The bytes read from a module are [size, pages]: the size of a page (128 *)
(* on DDR5, else 256) and a function from page numbers to pages, a page a  *)
(* function from offsets to bytes.  A byte that is not listed is 0; a page *)
(* that could not be read is Unread, and all its bytes are 255.            *)
(* Times are in picoseconds: the code's floating point values are sums of  *)
(* multiples of 1 ps, and a conversion of an infinite value to uint16_t    *)
(* gives 0 in the x86 builds.  The text of a part number is one character. *)
(***************************************************************************)
EXTENDS Integers, Sequences, Functions, SequencesExt

Unread == [o \in {-1} |-> 255]

Byte(g, a) ==
    LET n == a \div g.size
        p == IF n \in DOMAIN g.pages THEN g.pages[n] ELSE Unread
        o == a % g.size
    IN  IF p = Unread THEN 255 ELSE IF o \in DOMAIN p THEN p[o] ELSE 0

\* Bits lo .. lo + n - 1 of a byte; two bytes, low one first; a byte with a sign.
Bits(x, lo, n) == (x \div 2 ^ lo) % 2 ^ n
Word(g, a)     == Byte(g, a + 1) * 256 + Byte(g, a)
Signed(x)      == IF x < 128 THEN x ELSE x - 256
Bcd(x)         == (x - 6 * (x \div 16)) % 256
Quot(a, b)     == IF b <= 0 THEN 0 ELSE a \div b

\* (uint16_t)(tns/tCK + ROUNDING_FACTOR), and its counterpart with the rounding
\* factor of DDR5.
Clocks(t, tck)  == Quot(10 * t + 9 * tck, 10 * tck) % 65536
Clocks5(t, tck) == Quot(t + tck - 30, tck) % 65536

\* Bytes in medium (125 ps) and fine (1 ps) units.
Fine(g, a, f) == Byte(g, a) * 125 + Signed(Byte(g, f))
\* A byte with four more bits in another byte.
Wide(g, a, hi) == Byte(g, a) * 125 + hi * 32000

\* The position of the highest of the low seven bits that is set.
TopBit(x) == FoldLeft(LAMBDA n, i : IF Bits(x, i, 1) = 1 THEN i ELSE n, -1, <<0, 1, 2, 3, 4, 5, 6>>)

Lookup(table, x, default) ==
    IF \E e \in table : e[1] = x THEN (CHOOSE e \in table : e[1] = x)[2] ELSE default

\* read_sku: a part number of one character.
Sku(g, a) == IF Byte(g, a) \in 33 .. 127 THEN Byte(g, a) ELSE 0

\* The manufacturer: a bank and a code, or a row of continuation codes.
Jedec(g, a) == (Byte(g, a) % 32) * 256 + (Byte(g, a + 1) % 128)
Continued(g) ==
    LET end == CHOOSE c \in 64 .. 72 : /\ c = 72 \/ Byte(g, c) # 127
                                       /\ \A d \in 64 .. c - 1 : Byte(g, d) = 127
    IN  (end - 64) * 256 + (Byte(g, end) % 128)

NoInfo == [valid |-> FALSE, type |-> "none", size |-> 0, freq |-> 0, ecc |-> FALSE, xmp |-> 0,
           tCL |-> 0, tRCD |-> 0, tRP |-> 0, tRAS |-> 0, jedec |-> 0, sku |-> 0,
           temp |-> FALSE, week |-> 0, bad_crc |-> FALSE]

-----------------------------------------------------------------------------
(* DDR5                                                                     *)

Ddr5Density == {<<1, 512>>, <<2, 1024>>, <<3, 1536>>, <<4, 2048>>, <<5, 3072>>, <<6, 4096>>,
                <<7, 6144>>, <<8, 8192>>}

\* The size of a rank of each kind, times the ranks.
Ddr5Rank(g, i) ==
    LET first == Byte(g, 4 * i)
        dies == first \div 32
        wide == Byte(g, 235)
    IN  ((Lookup(Ddr5Density, first % 32, 0)
          * (IF dies \in 2 .. 5 THEN 2 ^ (dies - 1) ELSE 1)
          * (IF Bits(wide, 5, 2) = 1 THEN 2 ELSE 1)
          * 2 ^ ((wide % 4) + 3)) \div 2 ^ (Bits(Byte(g, 4 * i + 2), 5, 2) + 2))
        * 2 ^ Bits(Byte(g, 234), 3, 3)

Ddr5Size(g) == Ddr5Rank(g, 1) + IF Byte(g, 234) \div 64 # 0 THEN Ddr5Rank(g, 2) ELSE 0

\* The faster of the two XMP profiles: its offset and its clock.
Ddr5Profile(g) ==
    FoldLeft(LAMBDA best, off :
               LET t == Word(g, 709 + off) IN
               IF t < 100 \/ (best.tck # 0 /\ t >= best.tck) THEN best ELSE [off |-> off, tck |-> t],
             [off |-> 0, tck |-> 0], <<0, 64>>)

ParseSpdDdr5(g) ==
    LET xmp  == Byte(g, 640) = 12 /\ Byte(g, 641) = 74
        best == Ddr5Profile(g)
        tck  == IF xmp THEN best.tck ELSE Word(g, 20)
        base == IF xmp THEN 717 + best.off ELSE 30
        tcl  == Clocks5(Word(g, base), tck)
        part == [NoInfo EXCEPT !.type = "DDR5", !.size = Ddr5Size(g), !.xmp = IF xmp THEN 3 ELSE 0,
                               !.ecc = Bits(Byte(g, 235), 3, 2) > 0]
    IN  IF tck = 0 THEN part
        ELSE [part EXCEPT !.valid = TRUE, !.temp = TRUE,
                !.freq = ((((2000000 \div tck) % 65536) + 50) \div 100) * 100,
                !.tCL  = tcl + (tcl % 2),
                !.tRCD = Clocks5(Word(g, base + 2), tck),
                !.tRP  = Clocks5(Word(g, base + 4), tck),
                !.tRAS = Clocks5(Word(g, base + 6), tck),
                !.jedec = Jedec(g, 512), !.sku = Sku(g, 521), !.week = Bcd(Byte(g, 516))]

-----------------------------------------------------------------------------
(* DDR4 and DDR3                                                            *)

\* The shift of a 32-bit value, as the x86 builds do it.
Shifted(n) == 2 ^ (n % 32)

Ddr4Size(g) ==
    Shifted(Bits(Byte(g, 4), 0, 4) + 5 + Bits(Byte(g, 13), 0, 3) + 3 - (Bits(Byte(g, 12), 0, 3) + 2)
            + Bits(Byte(g, 12), 3, 3) + Bits(Byte(g, 6), 4, 3))

\* The frequency rounded to the nearest x00, x33 or x66.
Ddr4Freq(tck) ==
    LET hundred == Quot(2000000 + 50 * tck, 100 * tck) * 100
        over    == 2000000 - hundred * tck          \* tck times the distance
    IN  IF tck <= 0 THEN 0
        ELSE IF 2 * over > 33 * tck THEN hundred + 33
        ELSE IF 2 * over < -33 * tck THEN hundred - 34 ELSE hundred

ParseSpdDdr4(g) ==
    LET xmp == Byte(g, 384) = 12 /\ Byte(g, 385) = 74
        tck == IF xmp THEN Fine(g, 396, 431) ELSE Fine(g, 18, 125)
        t(a, f, x, y) == Clocks(IF xmp THEN Fine(g, x, y) ELSE Fine(g, a, f), tck)
    IN  [NoInfo EXCEPT !.valid = TRUE, !.type = "DDR4", !.size = Ddr4Size(g),
           !.ecc = Bits(Byte(g, 13), 3, 1) = 1, !.xmp = IF xmp THEN 2 ELSE 0, !.freq = Ddr4Freq(tck),
           !.tCL = t(24, 123, 401, 430), !.tRCD = t(25, 122, 402, 429), !.tRP = t(26, 121, 403, 428),
           !.tRAS = Clocks(IF xmp THEN Wide(g, 405, Byte(g, 404) % 16) + Signed(Byte(g, 427))
                           ELSE Wide(g, 28, Byte(g, 27) % 16), tck),
           !.jedec = Jedec(g, 320), !.sku = Sku(g, 329), !.week = Bcd(Byte(g, 324))]

Ddr3Freqs == {<<20, 800>>, <<15, 1066>>, <<12, 1333>>, <<10, 1600>>, <<9, 1866>>, <<8, 2133>>,
              <<7, 2400>>, <<6, 2666>>}

Ddr3Size(g) ==
    Shifted(Bits(Byte(g, 4), 0, 4) + 5 + Bits(Byte(g, 8), 0, 3) + 3 - (Bits(Byte(g, 7), 0, 3) + 2))
    * (Bits(Byte(g, 7), 3, 3) + 1)

\* The speed: the faster of two XMP profiles, with two profiles of a draft of XMP that
\* have their own time unit.
Ddr3Freq(g, xmp) ==
    LET first == Byte(g, 186)
        second == Byte(g, 221)
        tck == IF ~xmp THEN Byte(g, 12) ELSE IF second > 5 /\ second < first THEN second ELSE first
    IN  CASE xmp /\ Byte(g, 181) = 12 /\ first = 10 -> 2400
          [] xmp /\ Byte(g, 181) = 14 /\ first = 15 -> 1866
          [] OTHER -> Lookup(Ddr3Freqs, tck, 0)

\* The timings of a profile are all in its time unit, which cancels out; fast ones
\* have their clock corrected.
ParseSpdDdr3(g) ==
    LET xmp  == Byte(g, 176) = 12 /\ Byte(g, 177) = 74
        freq == Ddr3Freq(g, xmp)
        unit == 10 * Byte(g, 186) - IF freq >= 1866 /\ Byte(g, 181) = 8 THEN 4 ELSE 0
        tck  == Fine(g, 12, 34)
        t(a, f, x) == IF xmp THEN Clocks(10 * Byte(g, x), unit) ELSE Clocks(Fine(g, a, f), tck)
    IN  [NoInfo EXCEPT !.valid = TRUE, !.type = "DDR3", !.size = Ddr3Size(g),
           !.ecc = Bits(Byte(g, 8), 3, 1) = 1, !.xmp = IF xmp THEN 1 ELSE 0, !.freq = freq,
           !.tCL = t(16, 35, 187), !.tRCD = t(18, 36, 192), !.tRP = t(20, 37, 191),
           !.tRAS = IF xmp THEN Clocks(10 * ((Byte(g, 194) % 16) * 256 + Byte(g, 195)), unit)
                    ELSE Clocks(Wide(g, 22, Byte(g, 21) % 16), tck),
           !.jedec = Jedec(g, 117), !.sku = Sku(g, 128), !.week = Bcd(Byte(g, 121))]

-----------------------------------------------------------------------------
(* DDR2, DDR, SDRAM and RDRAM                                               *)

Ddr2Sizes == {<<1, 1024>>, <<2, 2048>>, <<4, 4096>>, <<8, 8192>>, <<16, 16384>>, <<32, 128>>,
              <<64, 256>>, <<128, 512>>}
DdrSizes  == {<<1, 1024>>, <<2, 2048>>, <<4, 4096>>, <<8, 32>>, <<16, 64>>, <<32, 128>>,
              <<64, 256>>, <<128, 512>>}
Ddr2Fractions == {<<10, 250>>, <<11, 330>>, <<12, 660>>, <<13, 750>>, <<14, 875>>}

\* A clock of whole and tenths of nanoseconds, and a time in quarters.
Tenths(x)   == (x \div 16) * 1000 + (x % 16) * 100
Quarters(x) == (x \div 4) * 1000 + (x % 4) * 250

ParseSpdDdr2(g) ==
    LET epp == Byte(g, 99) = 109 /\ Byte(g, 102) = 177
        off == IF epp THEN (Byte(g, 103) % 4) * 12 ELSE 0
        b9  == Byte(g, IF epp THEN 109 + off ELSE 9)
        tck == (b9 \div 16) * 1000
               + IF b9 % 16 < 10 THEN (b9 % 16) * 100 ELSE Lookup(Ddr2Fractions, b9 % 16, 0)
        at(a, x) == Byte(g, IF epp THEN x + off ELSE a)
        top == TopBit(at(18, 110))
    IN  [NoInfo EXCEPT !.valid = TRUE, !.type = "DDR2",
           !.size = Lookup(Ddr2Sizes, Byte(g, 31), 512) * (Bits(Byte(g, 5), 0, 3) + 1),
           !.ecc = Byte(g, 11) \div 2 = 1, !.xmp = IF epp THEN 20 ELSE 0,
           !.freq = Quot(2000000, tck) % 65536, !.tCL = IF top < 0 THEN 0 ELSE top,
           !.tRCD = Clocks(Quarters(at(29, 111)), tck), !.tRP = Clocks(Quarters(at(27, 112)), tck),
           !.tRAS = Clocks(1000 * at(30, 113), tck),
           !.jedec = Continued(g), !.sku = Sku(g, 73), !.week = Bcd(Byte(g, 94))]

ParseSpdDdr(g) ==
    LET tck == Tenths(Byte(g, 9))
        top == TopBit(Byte(g, 18))
    IN  [NoInfo EXCEPT !.valid = TRUE, !.type = "DDR",
           !.size = Lookup(DdrSizes, Byte(g, 31), 0) * Byte(g, 5),
           !.ecc = Byte(g, 11) \div 2 = 1, !.freq = Quot(2000000, tck) % 65536,
           !.tCL = IF top < 0 THEN 0 ELSE 1 + top \div 2,
           !.tRCD = Clocks(Quarters(Byte(g, 29)), tck), !.tRP = Clocks(Quarters(Byte(g, 27)), tck),
           !.tRAS = Clocks(1000 * Byte(g, 30), tck),
           !.jedec = Continued(g), !.sku = Sku(g, 73), !.week = Bcd(Byte(g, 94))]

ParseSpdSdram(g) ==
    LET tck  == Tenths(Byte(g, 9))
        rows == Byte(g, 3) % 16
        cols == Byte(g, 4) % 16
        sane == /\ rows # 0 /\ cols # 0 /\ rows + cols \in 18 .. 29
                /\ Byte(g, 5) <= 8 /\ Byte(g, 17) <= 8
    IN  [NoInfo EXCEPT !.valid = TRUE, !.type = "SDRAM",
           !.size = IF sane THEN 2 ^ (rows + cols - 17) * Byte(g, 5) * Byte(g, 17) ELSE 0,
           !.ecc = Byte(g, 11) \div 2 = 1, !.freq = Quot(1000000, tck) % 65536,
           !.tCL = TopBit(Byte(g, 18)) + 1,
           !.tRCD = Clocks(1000 * Byte(g, 29), tck), !.tRP = Clocks(1000 * Byte(g, 27), tck),
           !.tRAS = Clocks(1000 * Byte(g, 30), tck),
           !.jedec = Continued(g), !.sku = Sku(g, 73), !.week = Bcd(Byte(g, 94))]

RdramFreqs == {<<26, 600>>, <<21, 711>>, <<19, 800>>, <<14, 1066>>, <<12, 1200>>}

ParseSpdRdram(g) ==
    LET cells == Lookup({<<132, 8>>, <<197, 16>>}, Byte(g, 5), 0)
        b4    == Byte(g, 4)
        banks == IF b4 > 150 THEN 1 + (b4 \div 16 - 9) + ((b4 % 16) - 6) ELSE 1
        freq  == Lookup(RdramFreqs, Byte(g, 15), 0)
    IN  IF cells = 0 \/ freq = 0 THEN [NoInfo EXCEPT !.type = "RDRAM"]
        ELSE [NoInfo EXCEPT !.valid = TRUE, !.type = "RDRAM", !.size = cells * Byte(g, 99) * banks,
                !.ecc = Byte(g, 100) = 18, !.freq = freq,
                !.tCL = Byte(g, 14), !.tRCD = Byte(g, 12), !.tRP = Byte(g, 10), !.tRAS = Byte(g, 11),
                !.jedec = Continued(g), !.sku = Sku(g, 73), !.week = Bcd(Byte(g, 94))]

-----------------------------------------------------------------------------
\* parse_spd without the check of the checksum.  A module that does not answer, or
\* of a type that is not known, has no information.
ParseSpd(g) ==
    LET t == Byte(g, 2) IN
    CASE Byte(g, 0) = 255 -> NoInfo
      [] t = 18 -> ParseSpdDdr5(g)
      [] t = 12 -> ParseSpdDdr4(g)
      [] t = 11 -> ParseSpdDdr3(g)
      [] t = 8  -> ParseSpdDdr2(g)
      [] t = 7  -> ParseSpdDdr(g)
      [] t = 4  -> ParseSpdSdram(g)
      [] t = 1 /\ Byte(g, 1) = 8 -> ParseSpdRdram(g)
      [] OTHER  -> NoInfo

\* The pages that parse_spd reads after byte 0 and byte 2, in the order of the reads.
PagesRead(g) ==
    LET t == Byte(g, 2) IN
    CASE t = 18 -> <<1, 5, 6, 0, 4>>
      [] t = 12 -> <<1, 0, 1>>
      [] OTHER  -> <<0>>

\* The pages read for the checksum (spd_checksum_ok): where it is stored, and what it covers.
PagesChecked(g) ==
    LET t == Byte(g, 2) IN
    CASE t = 18 -> <<3, 0, 1, 2, 3>>
      [] t \in {12, 11, 8, 7, 4} -> <<0>>
      [] OTHER -> <<>>
=============================================================================
