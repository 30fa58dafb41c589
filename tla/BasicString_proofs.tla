--------------------------- MODULE BasicString_proofs ---------------------------
(***************************************************************************)
(* The strings, for every number of strings and blocks, every size of the  *)
(* buffer and of characters, and every size_type: what growth() returns,   *)
(* who owns the storage, and where the terminator is.                      *)
(***************************************************************************)
EXTENDS BasicString, FiniteSetTheorems, WellFoundedInduction, TLAPS

-------------------------------------------------------------------------------
(* growth() *)

\* A sum that fits size_type is not truncated.
LEMMA Fits ==
  ASSUME NEW n \in Nat, n <= MaxLength
  PROVE  ToLength(n) = n
BY LengthAssumption DEF ToLength

\* Eight more than a number, rounded down to a multiple of eight, is above it.
LEMMA RoundUp ==
  ASSUME NEW n \in Nat
  PROVE  /\ ((n + 8) \div 8) * 8 \in n + 1 .. n + 8
         /\ ((n + 8) \div 8) * 8 \in Nat
OBVIOUS

\* While a raw size of raw characters can be counted in bytes with eight to
\* spare, growth() asks for at least one character more than raw (so that the
\* terminator, which raw counts, and another character fit), for no more than
\* eight bytes above it, and for a number that size_type represents.  Every call
\* in string_func.h relies on the first part and none tests the premise.
THEOREM GrowthHoldsMore ==
  ASSUME NEW raw \in Lengths, CharSize * raw + 8 <= MaxLength
  PROVE  /\ growth(raw) \in Lengths
         /\ growth(raw) > raw
         /\ CharSize * growth(raw) <= CharSize * raw + 8
<1> DEFINE bytes == CharSize * raw
           rounded == ((bytes + 8) \div 8) * 8
<1>1. raw \in Nat /\ bytes \in Nat /\ MaxLength \in Nat
  BY LengthAssumption DEF Lengths
<1>2. growth(raw) = rounded \div CharSize
  <2>1. ToLength(bytes) = bytes /\ ToLength(bytes + 8) = bytes + 8
    BY <1>1, Fits
  <2> QED
    BY <2>1 DEF growth
<1>3. rounded \in bytes + 1 .. bytes + 8
  BY <1>1, RoundUp
<1>4. ASSUME NEW k \in Nat, rounded = 8 * k
      PROVE  /\ growth(raw) \in Nat /\ CharSize * growth(raw) = rounded
  <2> HIDE DEF bytes
  <2>1. CASE CharSize = 1
    BY <1>2, <1>4, <2>1
  <2>2. CASE CharSize = 2
    BY <1>2, <1>4, <2>2
  <2>3. CASE CharSize = 4
    BY <1>2, <1>4, <2>3
  <2> QED
    BY <2>1, <2>2, <2>3, LengthAssumption
<1>5. growth(raw) \in Nat /\ CharSize * growth(raw) = rounded
  <2>1. (bytes + 8) \div 8 \in Nat
    BY <1>1
  <2>2. rounded = 8 * ((bytes + 8) \div 8)
    BY <2>1
  <2> QED
    BY <2>1, <2>2, <1>4
<1> HIDE DEF rounded
<1>6. CASE CharSize = 1
  BY <1>1, <1>3, <1>5, <1>6 DEF Lengths
<1>7. CASE CharSize = 2
  BY <1>1, <1>3, <1>5, <1>7 DEF Lengths
<1>8. CASE CharSize = 4
  BY <1>1, <1>3, <1>5, <1>8 DEF Lengths
<1> QED
  BY <1>6, <1>7, <1>8, LengthAssumption

\* At the other end of the range the product or the sum wraps: a string whose
\* bytes with eight more just do not fit asks for a capacity that does not even
\* hold the terminator.
THEOREM GrowthWraps ==
  ASSUME CharSize = 1, NEW raw \in Lengths, raw + 8 > MaxLength, MaxLength >= 16
  PROVE  growth(raw) <= 8 /\ growth(raw) < raw
<1>1. raw \in Nat /\ MaxLength \in Nat /\ raw <= MaxLength
  BY LengthAssumption DEF Lengths
<1>2. ToLength(CharSize * raw) = raw
  BY <1>1, Fits
<1>3. ToLength(raw + 8) = raw + 8 - (MaxLength + 1)
  <2> DEFINE n == raw + 8 - (MaxLength + 1)
  <2>1. n \in Nat /\ n < MaxLength + 1 /\ raw + 8 = n + (MaxLength + 1)
    BY <1>1
  <2> QED
    BY <2>1, <1>1 DEF ToLength
<1>4. growth(raw) = ((raw + 8 - (MaxLength + 1)) \div 8) * 8
  BY <1>1, <1>2, <1>3 DEF growth
<1>5. raw + 8 - (MaxLength + 1) \in 0 .. 7
  BY <1>1
<1> QED
  BY <1>1, <1>4, <1>5

\* A number that is truncated loses whole multiples of the range of size_type.
LEMMA Multiple ==
  ASSUME NEW n \in Nat
  PROVE  \E j \in Nat : n = j * (MaxLength + 1) + ToLength(n)
<1>1. MaxLength + 1 \in Nat \ {0}
  BY LengthAssumption
<1>2. n = (MaxLength + 1) * (n \div (MaxLength + 1)) + (n % (MaxLength + 1))
      /\ n \div (MaxLength + 1) \in Nat
  BY <1>1
<1> QED
  BY <1>1, <1>2 DEF ToLength

LEMMA Truncated ==
  /\ \A n \in Int : ToLength(n) \in Lengths
  /\ \A n \in Int : ToLength(n) \in Nat
  /\ \A n \in Int : ToLength(n) \in Int
  /\ \A n \in Lengths : n \in Int
  /\ \A n \in Lengths : ToLength(n) = n
  /\ Lengths \subseteq Nat /\ MaxLength \in Nat /\ MaxLength >= 15
  /\ npos \in Lengths
BY LengthAssumption DEF ToLength, Lengths, npos

\* Whatever wraps, growth() returns a length.
LEMMA GrowthLength ==
  ASSUME NEW raw \in Lengths
  PROVE  growth(raw) \in Lengths
<1>1. PICK bytes \in Nat : bytes = CharSize * raw
  BY LengthAssumption, Truncated
<1>2. PICK m \in Lengths : m = ToLength(bytes)
  <2>1. bytes \in Int
    BY <1>1
  <2> QED
    BY <2>1, Truncated
<1>3. PICK n \in Lengths : n = ToLength(m + 8)
  <2>1. m + 8 \in Int
    BY Truncated
  <2> QED
    BY <2>1, Truncated
<1>4. n \in Nat /\ n <= MaxLength /\ MaxLength \in Nat /\ CharSize \in {1, 2, 4}
  BY LengthAssumption, Truncated DEF Lengths
<1>5. (n \div 8) * 8 \in Nat /\ (n \div 8) * 8 <= n
  BY <1>4
<1>6. growth(raw) = ((n \div 8) * 8) \div CharSize
  BY <1>1, <1>2, <1>3 DEF growth
<1>7. \A k \in Nat : k <= n => k \div CharSize \in Nat /\ k \div CharSize <= n
  BY <1>4
<1> QED
  BY <1>4, <1>5, <1>6, <1>7 DEF Lengths

\* growth() never returns what is one short of the characters and the terminator:
\* a capacity that holds the characters holds the terminator, too.
LEMMA GrowthNotOneShort ==
  ASSUME NEW raw \in Lengths
  PROVE  growth(raw) # raw - 1
<1>1. PICK bytes \in Nat : bytes = CharSize * raw
  BY LengthAssumption, Truncated
<1>2. PICK m \in Lengths : m = ToLength(bytes)
  <2>1. bytes \in Int
    BY <1>1
  <2> QED
    BY <2>1, Truncated
<1>3. PICK n \in Lengths : n = ToLength(m + 8)
  <2>1. m + 8 \in Int
    BY Truncated
  <2> QED
    BY <2>1, Truncated
<1>4. m \in Nat /\ n \in Nat /\ raw \in Nat /\ CharSize \in {1, 2, 4}
  BY LengthAssumption, Truncated
<1>5. PICK i \in Nat : bytes = i * (MaxLength + 1) + m
  BY <1>2, Multiple
<1>6. PICK k \in Nat : m + 8 = k * (MaxLength + 1) + n
  BY <1>3, <1>4, Multiple
<1>7. PICK p \in Nat : p = i * (MaxLength + 1) /\ (p = 0 \/ p >= 16)
  BY Truncated
<1>8. PICK q \in Nat : q = k * (MaxLength + 1) /\ (q = 0 \/ q >= 16)
  BY Truncated
<1>9. bytes + 8 = p + q + n
  BY <1>4, <1>5, <1>6, <1>7, <1>8
<1>10. PICK r \in Nat : r = n \div 8
  BY <1>4
<1>11. 8 * r <= n /\ n <= 8 * r + 7
  BY <1>4, <1>10
<1>12. growth(raw) = (8 * r) \div CharSize
  BY <1>1, <1>2, <1>3, <1>10 DEF growth
<1>13. CASE CharSize = 1
  BY <1>1, <1>4, <1>7, <1>8, <1>9, <1>11, <1>12, <1>13
<1>14. CASE CharSize = 2
  BY <1>1, <1>4, <1>7, <1>8, <1>9, <1>11, <1>12, <1>14
<1>15. CASE CharSize = 4
  BY <1>1, <1>4, <1>7, <1>8, <1>9, <1>11, <1>12, <1>15
<1> QED
  BY <1>4, <1>13, <1>14, <1>15

-------------------------------------------------------------------------------
(* characters in storage *)

Letters == Alphabet \cup {Junk}

\* A block or buffer of c characters, and what an access outside makes of it.
Block(c) == [0 .. c - 1 -> Letters]
Mem(c) == Block(c) \cup {Lost}
Word == Seq(Letters) \cup {Lost}

LEMMA BlockCap ==
  ASSUME NEW c \in Nat, NEW s \in Block(c)
  PROVE  Cap(s) = c /\ DOMAIN s = 0 .. c - 1 /\ (c \in Lengths => s # Lost)
<1>1. DOMAIN s = 0 .. c - 1
  BY DEF Block
<1>2. Cardinality(0 .. c - 1) = c
  BY FS_Interval
<1>3. c \in Lengths => s # Lost
  BY StringsAssumption DEF Block, Letters
<1> QED
  BY <1>1, <1>2, <1>3 DEF Cap

LEMMA LettersOf ==
  /\ Nul \in Letters /\ Ch \in Letters /\ Junk \in Letters /\ Nul # Junk /\ Ch # Junk
  /\ Alphabet \subseteq Letters /\ N \in Lengths /\ N \in Nat \ {0}
BY StringsAssumption, BufferAssumption, Truncated DEF Letters

\* What is in the range 0 .. n - 1 or 1 .. n is no Lost.
LEMMA WordNotLost ==
  ASSUME NEW n \in Lengths, NEW xs \in [1 .. n -> Letters]
  PROVE  xs # Lost
BY StringsAssumption DEF Letters

LEMMA WriteMem ==
  ASSUME NEW c \in Nat, NEW s \in Mem(c), NEW a \in Int, NEW xs \in Word
  PROVE  /\ Write(s, a, xs) \in Mem(c)
         /\ Write(s, a, xs) # Lost /\ xs # <<>> =>
              s # Lost /\ xs # Lost /\ a >= 0 /\ a + Len(xs) <= c
<1>1. CASE xs = <<>>
  BY <1>1 DEF Write
<1>2. CASE xs # <<>> /\ ~(xs # Lost /\ Inside(s, a, Len(xs)))
  BY <1>2 DEF Write, Mem
<1>3. CASE xs # <<>> /\ xs # Lost /\ Inside(s, a, Len(xs))
  <2>1. s \in Block(c) /\ xs \in Seq(Letters) /\ Len(xs) \in Nat
    BY <1>3 DEF Inside, Mem, Word
  <2>2. a >= 0 /\ a + Len(xs) <= c /\ DOMAIN s = 0 .. c - 1
    BY <1>3, <2>1, BlockCap DEF Inside
  <2>3. Write(s, a, xs)
          = [i \in 0 .. c - 1 |-> IF i \in a .. a + Len(xs) - 1 THEN xs[i - a + 1] ELSE s[i]]
    BY <1>3, <2>2 DEF Write
  <2>4. ASSUME NEW i \in 0 .. c - 1
        PROVE  (IF i \in a .. a + Len(xs) - 1 THEN xs[i - a + 1] ELSE s[i]) \in Letters
    BY <2>1, <2>4 DEF Block
  <2>5. Write(s, a, xs) \in Block(c)
    BY <2>3, <2>4 DEF Block
  <2> QED
    BY <1>3, <2>2, <2>5 DEF Mem, Inside
<1> QED
  BY <1>1, <1>2, <1>3

LEMMA TerminateMem ==
  ASSUME NEW c \in Nat, NEW s \in Mem(c), NEW n \in Int
  PROVE  /\ cond_null_terminate(s, n) \in Mem(c)
         /\ cond_null_terminate(s, n) # Lost => s # Lost /\ n \in 0 .. c - 1
<1>1. <<Nul>> \in Word /\ <<Nul>> # <<>> /\ Len(<<Nul>>) = 1
  BY LettersOf DEF Word
<1>2. Write(s, n, <<Nul>>) \in Mem(c)
      /\ (Write(s, n, <<Nul>>) # Lost => s # Lost /\ n >= 0 /\ n + 1 <= c)
  BY <1>1, WriteMem
<1> QED
  BY <1>2 DEF cond_null_terminate

LEMMA CharsWord ==
  ASSUME NEW c \in Nat, NEW s \in Mem(c), NEW a \in Int, NEW n \in Int
  PROVE  /\ Chars(s, a, n) \in Word
         /\ Chars(s, a, n) # Lost => Len(Chars(s, a, n)) = n /\ n \in Nat
<1>1. CASE n = 0
  BY <1>1 DEF Chars, Word
<1>2. CASE n # 0 /\ ~Inside(s, a, n)
  BY <1>2 DEF Chars, Word
<1>3. CASE n # 0 /\ Inside(s, a, n)
  <2>1. s \in Block(c) /\ n \in Nat
    BY <1>3 DEF Inside, Mem
  <2>2. a >= 0 /\ a + n <= c
    BY <1>3, <2>1, BlockCap DEF Inside
  <2>3. Chars(s, a, n) = [i \in 1 .. n |-> s[a + i - 1]]
    BY <1>3 DEF Chars
  <2>4. \A i \in 1 .. n : s[a + i - 1] \in Letters
    BY <2>1, <2>2 DEF Block
  <2>5. [i \in 1 .. n |-> s[a + i - 1]] \in Seq(Letters)
        /\ Len([i \in 1 .. n |-> s[a + i - 1]]) = n
    BY <2>1, <2>4
  <2> QED
    BY <2>1, <2>3, <2>5 DEF Word
<1> QED
  BY <1>1, <1>2, <1>3

LEMMA StorageMem ==
  /\ \A c \in Nat : Zeroed(c) \in Mem(c) /\ Unset(c) \in Mem(c)
  /\ \A c \in Nat : Zeroed(c) \in Block(c) /\ Unset(c) \in Block(c)
BY LettersOf DEF Zeroed, Unset, Filled, Mem, Block

LEMMA FillWord ==
  ASSUME NEW n \in Int, NEW ch \in Letters
  PROVE  Fill(n, ch) \in Seq(Letters) /\ (n \in Nat => Len(Fill(n, ch)) = n)
<1>1. CASE n \in Nat
  BY <1>1 DEF Fill
<1>2. CASE n \notin Nat
  <2>1. 1 .. n = 1 .. 0
    BY <1>2
  <2>2. Fill(n, ch) = [i \in 1 .. 0 |-> ch]
    BY <2>1 DEF Fill
  <2>3. [i \in 1 .. 0 |-> ch] \in Seq(Letters)
    OBVIOUS
  <2> QED
    BY <1>2, <2>2, <2>3
<1> QED
  BY <1>1, <1>2

LEMMA SeenBlock ==
  ASSUME NEW c \in Nat, NEW s \in Block(c), NEW n \in Int
  PROVE  Seen(s, n) \in Block(c)
<1>1. DOMAIN s = 0 .. c - 1
  BY BlockCap
<1> QED
  BY <1>1, LettersOf DEF Seen, Block

\* A range inside a block is read as it is.
LEMMA CharsInside ==
  ASSUME NEW c \in Lengths, NEW s \in Block(c), NEW a \in Nat, NEW n \in Nat, a + n <= c
  PROVE  /\ Chars(s, a, n) \in Seq(Letters) /\ Len(Chars(s, a, n)) = n
         /\ Chars(s, a, n) # Lost /\ Chars(s, a, n) \in Word
         /\ \A i \in 1 .. n : Chars(s, a, n)[i] = s[a + i - 1]
<1>1. c \in Nat /\ Cap(s) = c /\ s # Lost /\ n \in Lengths
  BY Truncated, BlockCap DEF Lengths
<1>2. Inside(s, a, n)
  BY <1>1 DEF Inside
<1>3. \A i \in 1 .. n : s[a + i - 1] \in Letters
  BY <1>1 DEF Block
<1>4. Chars(s, a, n) = [i \in 1 .. n |-> s[a + i - 1]]
  BY <1>2 DEF Chars
<1>5. [i \in 1 .. n |-> s[a + i - 1]] \in [1 .. n -> Letters]
  BY <1>3
<1>6. [i \in 1 .. n |-> s[a + i - 1]] # Lost
  BY <1>1, <1>5, WordNotLost
<1>7. [i \in 1 .. n |-> s[a + i - 1]] \in Seq(Letters)
      /\ Len([i \in 1 .. n |-> s[a + i - 1]]) = n
  BY <1>3
<1> QED
  BY <1>4, <1>6, <1>7 DEF Word

\* The characters below n have been written.
Shown(s, n) == \A i \in 0 .. n - 1 : s[i] # Junk

LEMMA TextWord ==
  ASSUME NEW xs \in Seq(Alphabet), Len(xs) \in Lengths
  PROVE  xs \in Seq(Letters) /\ xs # Lost /\ xs \in Word
<1>1. xs \in Seq(Letters)
  BY LettersOf
<1>2. xs \in [1 .. Len(xs) -> Letters]
  BY <1>1
<1> QED
  BY <1>1, <1>2, WordNotLost DEF Word

\* t is s with the characters xs in it from a on.
Overlaid(t, c, s, a, xs) ==
  /\ t \in Block(c)
  /\ \A i \in 0 .. c - 1 : t[i] = IF i \in a .. a + Len(xs) - 1 THEN xs[i - a + 1] ELSE s[i]

LEMMA WriteInside ==
  ASSUME NEW c \in Lengths, NEW s \in Block(c), NEW a \in Nat, NEW xs,
         xs \in Seq(Letters), xs # Lost, a + Len(xs) <= c
  PROVE  Overlaid(Write(s, a, xs), c, s, a, xs)
<1>1. c \in Nat /\ Cap(s) = c /\ DOMAIN s = 0 .. c - 1 /\ s # Lost
  BY Truncated, BlockCap
<1>2. Len(xs) \in Nat
  OBVIOUS
<1>3. CASE xs = <<>>
  <2>1. Write(s, a, xs) = s /\ Len(xs) = 0
    BY <1>3 DEF Write
  <2>2. \A i \in 0 .. c - 1 : i \notin a .. a + Len(xs) - 1
    BY <2>1
  <2> QED
    BY <2>1, <2>2 DEF Overlaid
<1>4. CASE xs # <<>>
  <2>1. Inside(s, a, Len(xs))
    BY <1>1, <1>2 DEF Inside
  <2>2. Write(s, a, xs)
          = [i \in 0 .. c - 1 |-> IF i \in a .. a + Len(xs) - 1 THEN xs[i - a + 1] ELSE s[i]]
    BY <1>1, <1>4, <2>1 DEF Write
  <2>3. ASSUME NEW i \in 0 .. c - 1
        PROVE  (IF i \in a .. a + Len(xs) - 1 THEN xs[i - a + 1] ELSE s[i]) \in Letters
    BY <1>1, <1>2 DEF Block
  <2> QED
    BY <2>2, <2>3 DEF Block, Overlaid
<1> QED
  BY <1>3, <1>4

LEMMA TerminateInside ==
  ASSUME NEW c \in Lengths, NEW s \in Block(c), NEW n \in Nat, n < c
  PROVE  /\ cond_null_terminate(s, n) \in Block(c)
         /\ \A i \in 0 .. c - 1 : i # n => cond_null_terminate(s, n)[i] = s[i]
<1>1. 1 \in Lengths /\ c \in Nat
  BY Truncated DEF Lengths
<1>2. <<Nul>> \in [1 .. 1 -> Letters] /\ <<Nul>> \in Seq(Letters) /\ Len(<<Nul>>) = 1
  BY LettersOf
<1>3. <<Nul>> # Lost
  BY <1>1, <1>2, WordNotLost
<1>4. n + Len(<<Nul>>) <= c
  BY <1>1, <1>2
<1>5. /\ Write(s, n, <<Nul>>) \in Block(c)
      /\ \A i \in 0 .. c - 1 :
           Write(s, n, <<Nul>>)[i] = IF i \in n .. n + Len(<<Nul>>) - 1 THEN <<Nul>>[i - n + 1]
                                     ELSE s[i]
  BY <1>2, <1>3, <1>4, WriteInside DEF Overlaid
<1>6. \A i \in 0 .. c - 1 : i # n => Write(s, n, <<Nul>>)[i] = s[i]
  BY <1>1, <1>2, <1>5
<1> QED
  BY <1>5, <1>6 DEF cond_null_terminate

\* What has been written and is read is text.
LEMMA CharsShown ==
  ASSUME NEW c \in Lengths, NEW s \in Block(c), NEW a \in Nat, NEW n \in Nat, a + n <= c,
         \A i \in a .. a + n - 1 : s[i] # Junk
  PROVE  /\ Chars(s, a, n) \in Seq(Alphabet) /\ Chars(s, a, n) \in Seq(Letters)
         /\ Len(Chars(s, a, n)) = n /\ Chars(s, a, n) # Lost
         /\ \A i \in 1 .. n : Chars(s, a, n)[i] = s[a + i - 1]
<1>1. /\ Chars(s, a, n) \in Seq(Letters) /\ Len(Chars(s, a, n)) = n /\ Chars(s, a, n) # Lost
      /\ \A i \in 1 .. n : Chars(s, a, n)[i] = s[a + i - 1]
  BY CharsInside
<1>2. \A i \in 1 .. n : s[a + i - 1] \in Alphabet
  <2> SUFFICES ASSUME NEW i \in 1 .. n PROVE s[a + i - 1] \in Alphabet
    OBVIOUS
  <2>1. c \in Nat /\ a + i - 1 \in a .. a + n - 1 /\ a + i - 1 \in 0 .. c - 1
    BY Truncated
  <2> QED
    BY <2>1 DEF Block, Letters
<1>3. \A i \in 1 .. n : Chars(s, a, n)[i] \in Alphabet
  BY <1>1, <1>2
<1> QED
  BY <1>1, <1>3

LEMMA TerminateShown ==
  ASSUME NEW c \in Lengths, NEW s \in Block(c), NEW n \in Nat, n < c, NEW k \in Nat, k <= n,
         Shown(s, k)
  PROVE  cond_null_terminate(s, n) \in Block(c) /\ Shown(cond_null_terminate(s, n), k)
<1>1. c \in Nat
  BY Truncated
<1>2. \A i \in 0 .. k - 1 : i \in 0 .. c - 1 /\ i # n
  BY <1>1
<1> QED
  BY <1>2, TerminateInside DEF Shown

LEMMA SeenShown ==
  ASSUME NEW c \in Lengths, NEW s \in Block(c), NEW n \in Nat, n <= c, Shown(s, n)
  PROVE  Seen(s, n) \in Block(c) /\ Shown(Seen(s, n), n)
<1>1. c \in Nat /\ DOMAIN s = 0 .. c - 1
  BY Truncated, BlockCap
<1>2. \A i \in 0 .. n - 1 : Seen(s, n)[i] = s[i]
  BY <1>1 DEF Seen
<1>3. Seen(s, n) \in Block(c)
  BY <1>1, SeenBlock
<1> QED
  BY <1>2, <1>3 DEF Shown

-------------------------------------------------------------------------------
(* what the functions of string_func.h make of a string's storage *)

Results == {"ok", "length_error", "out_of_range"}

\* Storage with room for a terminator behind the characters, which is a block only
\* where realloc allows one and where it is new or had been one (pinned); or Lost.
Made(realloc, pinned, st) ==
  /\ st = [out |-> st.out, dyn |-> st.dyn, new |-> st.new, size |-> st.size, s |-> st.s]
  /\ st.out \in Results /\ st.dyn \in BOOLEAN /\ st.new \in BOOLEAN /\ st.size \in Lengths
  /\ st.dyn => realloc /\ (st.new \/ pinned)
  /\ st.new => st.dyn
  /\ \E c \in Lengths : /\ st.s \in Mem(c)
                        /\ st.s # Lost => st.size < c
                        /\ ~st.dyn => c = N

LEMMA InPlaceMade ==
  ASSUME NEW realloc, NEW pinned, NEW st, Made(realloc, pinned, st), NEW c \in Lengths,
         ~st.dyn => c = N, NEW s \in Mem(c), NEW n \in Lengths, s # Lost => n < c
  PROVE  Made(realloc, pinned, InPlace(st, s, n))
BY DEF Made, InPlace

LEMMA InBlockMade ==
  ASSUME NEW realloc, NEW pinned, NEW st, Made(realloc, pinned, st), NEW c \in Lengths, realloc,
         NEW s \in Mem(c), NEW n \in Lengths, s # Lost => n < c
  PROVE  Made(realloc, pinned, InBlock(st, s, n))
BY DEF Made, InBlock

LEMMA InBufferMade ==
  ASSUME NEW realloc, NEW pinned, NEW st, Made(realloc, pinned, st),
         NEW s \in Mem(N), NEW n \in Lengths, s # Lost => n < N
  PROVE  Made(realloc, pinned, InBuffer(st, s, n))
BY LettersOf DEF Made, InBuffer

LEMMA RefusedMade ==
  ASSUME NEW realloc, NEW pinned, NEW st, Made(realloc, pinned, st), NEW out \in Results
  PROVE  Made(realloc, pinned, Refused(st, out))
<1>0. st = [out |-> st.out, dyn |-> st.dyn, new |-> st.new, size |-> st.size, s |-> st.s]
  BY DEF Made
<1>1. Refused(st, out) = [out |-> out, dyn |-> st.dyn, new |-> st.new, size |-> st.size, s |-> st.s]
  BY <1>0 DEF Refused
<1> QED
  BY <1>1 DEF Made

\* A growth, or the exception of a string that cannot grow.
LEMMA OverflowMade ==
  ASSUME NEW realloc, NEW pinned, NEW st, Made(realloc, pinned, st), NEW raw \in Lengths,
         NEW s, s \in Mem(growth(raw)), NEW n \in Lengths, s # Lost => n < growth(raw)
  PROVE  Made(realloc, pinned, Overflow(realloc, st, InBlock(st, s, n)))
<1>1. growth(raw) \in Lengths
  BY GrowthLength
<1>2. CASE realloc
  BY <1>1, <1>2, InBlockMade DEF Overflow
<1>3. CASE ~realloc
  BY <1>3, RefusedMade DEF Overflow, Results
<1> QED
  BY <1>2, <1>3

\* The storage that a function is given.
LEMMA OfMade ==
  ASSUME NEW realloc, NEW pinned, NEW st, Made(realloc, pinned, st), st.s # Lost
  PROVE  /\ Cap(st.s) \in Lengths /\ st.s \in Block(Cap(st.s)) /\ st.s \in Mem(Cap(st.s))
         /\ st.size < Cap(st.s) /\ (~st.dyn => Cap(st.s) = N) /\ st.size \in Lengths
         /\ RawSize(st.size) = st.size + 1 /\ st.size + 1 \in Lengths
         /\ st.size \in Int /\ Cap(st.s) \in Nat
<1>1. PICK c \in Lengths : st.s \in Mem(c) /\ st.size < c /\ (~st.dyn => c = N)
  BY DEF Made
<1>2. st.s \in Block(c) /\ c \in Nat
  BY <1>1, Truncated DEF Mem
<1>3. Cap(st.s) = c
  BY <1>2, BlockCap
<1>4. st.size + 1 \in Lengths /\ st.size \in Lengths
  BY <1>1, Truncated DEF Made, Lengths
<1>5. st.size \in Int /\ c \in Nat
  BY <1>4, Truncated
<1>6. ToLength(st.size + 1) = st.size + 1
  BY <1>4, Truncated
<1> QED
  BY <1>1, <1>2, <1>3, <1>4, <1>5, <1>6 DEF RawSize

LEMMA Raw ==
  /\ \A n \in Int : RawSize(n) \in Lengths /\ growth(RawSize(n)) \in Lengths
  /\ \A n \in Int : growth(RawSize(n)) \in Nat
<1>1. \A n \in Int : RawSize(n) \in Lengths
  <2> SUFFICES ASSUME NEW n \in Int PROVE RawSize(n) \in Lengths
    OBVIOUS
  <2>1. n + 1 \in Int
    OBVIOUS
  <2> QED
    BY <2>1, Truncated DEF RawSize
<1>2. \A n \in Int : growth(RawSize(n)) \in Lengths
  BY <1>1, GrowthLength
<1> QED
  BY <1>1, <1>2, Truncated

LEMMA ClearMade ==
  ASSUME NEW realloc, NEW pinned, NEW st, Made(realloc, pinned, st), st.s # Lost
  PROVE  Made(realloc, pinned, clear(st))
<1> DEFINE c == Cap(st.s)
           s == cond_null_terminate(st.s, 0)
<1>1. c \in Lengths /\ c \in Nat /\ st.s \in Mem(c) /\ (~st.dyn => c = N)
  BY OfMade, Truncated
<1>2. s \in Mem(c) /\ (s # Lost => 0 < c) /\ 0 \in Lengths
  BY <1>1, TerminateMem, Truncated DEF Lengths
<1>3. clear(st) = InPlace(st, s, 0)
  BY DEF clear
<1> HIDE DEF c, s
<1> QED
  BY <1>1, <1>2, <1>3, InPlaceMade

LEMMA ShrinkMade ==
  ASSUME NEW pinned, NEW st, Made(TRUE, pinned, st), st.s # Lost
  PROVE  Made(TRUE, pinned, shrink_to_fit(st))
<1> DEFINE n == st.size
           g == growth(RawSize(n))
           xs == Chars(st.s, 0, n)
           t == Write(Unset(g), 0, xs)
           u == cond_null_terminate(Write(Zeroed(N), 0, xs), n)
<1>1. /\ Cap(st.s) \in Lengths /\ Cap(st.s) \in Nat /\ st.s \in Mem(Cap(st.s)) /\ n \in Lengths
      /\ n \in Nat /\ RawSize(n) = n + 1 /\ n + 1 \in Lengths
      /\ st.s \in Block(Cap(st.s)) /\ n < Cap(st.s)
  BY OfMade, Truncated
<1>2. xs \in Word /\ (xs # Lost => Len(xs) = n)
  BY <1>1, CharsWord
<1>3. g \in Lengths /\ g \in Nat /\ g # n
  <2>1. g # (n + 1) - 1
    BY <1>1, GrowthNotOneShort
  <2> QED
    BY <1>1, <2>1, Raw
<1>4. t \in Mem(g) /\ (t # Lost /\ xs # <<>> => n < g)
  <2>1. Unset(g) \in Mem(g)
    BY <1>3, StorageMem
  <2>2. t \in Mem(g) /\ (t # Lost /\ xs # <<>> => xs # Lost /\ 0 + Len(xs) <= g)
    BY <1>2, <1>3, <2>1, WriteMem
  <2> QED
    BY <1>1, <1>2, <1>3, <2>2
<1>5. N < RawSize(n) => xs # <<>>
  <2>1. 0 \in Nat /\ 0 + n <= Cap(st.s)
    BY <1>1
  <2>2. Len(xs) = n
    BY <1>1, <2>1, CharsInside
  <2> QED
    BY <1>1, <2>2, LettersOf
<1>6. u \in Mem(N) /\ (u # Lost => n < N)
  <2>1. Zeroed(N) \in Mem(N) /\ N \in Nat
    BY LettersOf, StorageMem
  <2>2. 0 \in Int /\ n \in Int
    BY <1>1
  <2> HIDE DEF n, xs
  <2>3. Write(Zeroed(N), 0, xs) \in Mem(N)
    BY <1>2, <2>1, <2>2, WriteMem
  <2>4. u \in Mem(N) /\ (u # Lost => n \in 0 .. N - 1)
    BY <2>1, <2>2, <2>3, TerminateMem
  <2> QED
    BY <1>1, <2>1, <2>4
<1>7. shrink_to_fit(st) = IF Cap(st.s) <= N THEN st
                          ELSE IF N < RawSize(n) THEN IF g = Cap(st.s) THEN st ELSE InBlock(st, t, n)
                          ELSE InBuffer(st, u, n)
  BY DEF shrink_to_fit
<1> HIDE DEF n, g, xs, t, u
<1>8. N < RawSize(n) => Made(TRUE, pinned, InBlock(st, t, n))
  BY <1>1, <1>3, <1>4, <1>5, InBlockMade
<1>9. Made(TRUE, pinned, InBuffer(st, u, n))
  BY <1>1, <1>6, InBufferMade
<1> QED
  BY <1>7, <1>8, <1>9

LEMMA ReserveMade ==
  ASSUME NEW pinned, NEW st, Made(TRUE, pinned, st), st.s # Lost, NEW n \in Int
  PROVE  Made(TRUE, pinned, reserve(st, n))
<1> DEFINE k == st.size
           g == growth(RawSize(n))
           xs == Chars(st.s, 0, k + 1)
           t == Write(Unset(g), 0, xs)
<1>1. /\ Cap(st.s) \in Nat /\ st.s \in Mem(Cap(st.s)) /\ k \in Lengths /\ k \in Nat
      /\ Cap(st.s) \in Lengths /\ st.s \in Block(Cap(st.s)) /\ k < Cap(st.s)
  BY OfMade, Truncated
<1>2. xs \in Word /\ (xs # Lost => Len(xs) = k + 1)
  <2>1. k + 1 \in Int /\ 0 \in Int
    BY <1>1
  <2> QED
    BY <1>1, <2>1, CharsWord
<1>3. g \in Lengths /\ g \in Nat
  BY Raw
<1>4. t \in Mem(g) /\ (t # Lost => k < g)
  <2>1. Unset(g) \in Mem(g)
    BY <1>3, StorageMem
  <2>2. t \in Mem(g) /\ (t # Lost /\ xs # <<>> => xs # Lost /\ 0 + Len(xs) <= g)
    BY <1>2, <1>3, <2>1, WriteMem
  <2>3. xs # <<>>
    <3>1. 0 \in Nat /\ k + 1 \in Nat /\ 0 + (k + 1) <= Cap(st.s)
      BY <1>1
    <3>2. Len(xs) = k + 1
      BY <1>1, <3>1, CharsInside
    <3> QED
      BY <1>1, <3>2
  <2> QED
    BY <1>1, <1>2, <1>3, <2>2, <2>3
<1>5. reserve(st, n) = IF RawSize(n) <= Cap(st.s) THEN st ELSE InBlock(st, t, k)
  BY DEF reserve
<1> HIDE DEF k, g, xs, t
<1> QED
  BY <1>1, <1>3, <1>4, <1>5, InBlockMade

\* Where a function reads its characters from.
Source(src) ==
  \/ \E xs \in Seq(Letters) : src = Foreign(xs)
  \/ \E a, b \in Nat : a <= b /\ src = Own(a, b)

LEMMA TruncatedLess ==
  ASSUME NEW n \in Nat
  PROVE  ToLength(n) <= n
<1>1. PICK j \in Nat : n = j * (MaxLength + 1) + ToLength(n)
  BY Multiple
<1>2. j * (MaxLength + 1) \in Nat
  BY Truncated
<1>3. n \in Int
  OBVIOUS
<1>4. ToLength(n) \in Nat
  BY <1>3, Truncated
<1> QED
  BY <1>1, <1>2, <1>4

LEMMA FromWord ==
  ASSUME NEW c \in Nat, NEW s \in Mem(c), NEW src, Source(src)
  PROVE  /\ From(src, s) \in Word /\ Distance(src) \in Lengths
         /\ From(src, s) # Lost => Distance(src) <= Len(From(src, s))
<1>1. ASSUME NEW xs \in Seq(Letters), src = Foreign(xs)
      PROVE  /\ From(src, s) \in Word /\ Distance(src) \in Lengths
             /\ Distance(src) <= Len(From(src, s))
  <2>1. From(src, s) = xs /\ Distance(src) = ToLength(Len(xs)) /\ Len(xs) \in Nat
    BY <1>1 DEF From, Distance, Foreign
  <2> QED
    BY <2>1, Truncated, TruncatedLess DEF Word
<1>2. ASSUME NEW a \in Nat, NEW b \in Nat, a <= b, src = Own(a, b)
      PROVE  /\ From(src, s) \in Word /\ Distance(src) \in Lengths
             /\ From(src, s) # Lost => Distance(src) <= Len(From(src, s))
  <2>1. From(src, s) = Chars(s, a, b - a) /\ Distance(src) = ToLength(b - a) /\ b - a \in Nat
    BY <1>2 DEF From, Distance, Own
  <2>2. /\ Chars(s, a, b - a) \in Word
        /\ Chars(s, a, b - a) # Lost => Len(Chars(s, a, b - a)) = b - a
    BY <2>1, CharsWord
  <2> QED
    BY <2>1, <2>2, Truncated, TruncatedLess
<1> QED
  BY <1>1, <1>2 DEF Source

\* The characters xs and a terminator behind them.
LEMMA HoldMem ==
  ASSUME NEW c \in Nat, NEW s \in Mem(c), NEW xs \in Seq(Letters), NEW n \in Lengths, n <= Len(xs)
  PROVE  /\ cond_null_terminate(Write(s, 0, xs), Len(xs)) \in Mem(c)
         /\ cond_null_terminate(Write(s, 0, xs), Len(xs)) # Lost => n < c
<1>1. Len(xs) \in Nat /\ xs \in Word /\ n \in Nat
  BY Truncated DEF Word
<1>2. Write(s, 0, xs) \in Mem(c)
  BY <1>1, WriteMem
<1>3. /\ cond_null_terminate(Write(s, 0, xs), Len(xs)) \in Mem(c)
      /\ cond_null_terminate(Write(s, 0, xs), Len(xs)) # Lost => Len(xs) \in 0 .. c - 1
  BY <1>1, <1>2, TerminateMem
<1> QED
  BY <1>1, <1>3

LEMMA ConstructMade ==
  ASSUME NEW realloc, NEW pinned, NEW st, Made(realloc, pinned, st), st.s # Lost,
         NEW sz \in Lengths, NEW xs \in Seq(Letters), sz <= Len(xs)
  PROVE  Made(realloc, pinned, uninitialized_construct(realloc, st, sz, xs))
<1> DEFINE g == growth(RawSize(sz))
           t == cond_null_terminate(Write(Unset(g), 0, xs), Len(xs))
           u == cond_null_terminate(Write(st.s, 0, xs), Len(xs))
<1>1. /\ Cap(st.s) \in Lengths /\ Cap(st.s) \in Nat /\ st.s \in Mem(Cap(st.s))
      /\ ~st.dyn => Cap(st.s) = N
  BY OfMade, Truncated
<1>2. g \in Nat /\ RawSize(sz) \in Lengths /\ sz \in Int
  BY Raw, Truncated
<1>3. t \in Mem(g) /\ (t # Lost => sz < g)
  BY <1>2, StorageMem, HoldMem
<1>4. u \in Mem(Cap(st.s)) /\ (u # Lost => sz < Cap(st.s))
  BY <1>1, HoldMem
<1>5. uninitialized_construct(realloc, st, sz, xs)
        = IF N < RawSize(sz) THEN Overflow(realloc, st, InBlock(st, t, sz)) ELSE InPlace(st, u, sz)
  BY DEF uninitialized_construct
<1>6. Made(realloc, pinned, Overflow(realloc, st, InBlock(st, t, sz)))
  <2> HIDE DEF t
  <2> QED
    BY <1>2, <1>3, OverflowMade
<1>7. Made(realloc, pinned, InPlace(st, u, sz))
  <2> HIDE DEF u
  <2> QED
    BY <1>1, <1>4, InPlaceMade
<1> QED
  BY <1>5, <1>6, <1>7

LEMMA AssignMade ==
  ASSUME NEW realloc, NEW pinned, NEW st, Made(realloc, pinned, st), st.s # Lost,
         NEW sz \in Lengths, NEW src, Source(src), sz = Distance(src)
  PROVE  Made(realloc, pinned, uninitialized_assign(realloc, st, sz, src))
<1> DEFINE g == growth(RawSize(sz))
           Hold(s, xs) == IF xs = Lost THEN Lost ELSE cond_null_terminate(Write(s, 0, xs), Len(xs))
           t == Hold(Unset(g), From(src, st.s))
           u == Hold(st.s, From(src, st.s))
           w == Hold(Zeroed(N), From(src, Lost))
           unpins == realloc /\ RawSize(sz) <= N /\ st.dyn
<1>1. /\ Cap(st.s) \in Lengths /\ Cap(st.s) \in Nat /\ st.s \in Mem(Cap(st.s))
      /\ ~st.dyn => Cap(st.s) = N
  BY OfMade, Truncated
<1>2. g \in Nat /\ RawSize(sz) \in Lengths /\ sz \in Int
  BY Raw, Truncated
<1>3. ASSUME NEW c \in Nat, NEW s \in Mem(c), NEW d \in Nat, NEW r \in Mem(d)
      PROVE  Hold(s, From(src, r)) \in Mem(c) /\ (Hold(s, From(src, r)) # Lost => sz < c)
  <2>1. PICK xs \in Word : xs = From(src, r) /\ (xs # Lost => sz <= Len(xs))
    BY FromWord
  <2>2. CASE xs = Lost
    BY <2>1, <2>2 DEF Mem
  <2>3. CASE xs # Lost
    <3>1. xs \in Seq(Letters)
      BY <2>3 DEF Word
    <3>2. /\ cond_null_terminate(Write(s, 0, xs), Len(xs)) \in Mem(c)
          /\ cond_null_terminate(Write(s, 0, xs), Len(xs)) # Lost => sz < c
      BY <2>1, <2>3, <3>1, HoldMem
    <3> QED
      BY <2>1, <2>3, <3>2
  <2> QED
    BY <2>2, <2>3
<1>4. t \in Mem(g) /\ (t # Lost => sz < g)
  BY <1>1, <1>2, <1>3, StorageMem
<1>5. u \in Mem(Cap(st.s)) /\ (u # Lost => sz < Cap(st.s))
  BY <1>1, <1>3
<1>6. w \in Mem(N) /\ (w # Lost => sz < N)
  <2>1. Lost \in Mem(0) /\ N \in Nat /\ Zeroed(N) \in Mem(N)
    BY LettersOf, StorageMem DEF Mem
  <2> QED
    BY <1>3, <2>1
<1>7. uninitialized_assign(realloc, st, sz, src)
        = IF unpins THEN InBuffer(st, w, sz)
          ELSE IF Cap(st.s) < RawSize(sz) THEN Overflow(realloc, st, InBlock(st, t, sz))
          ELSE InPlace(st, u, sz)
  BY DEF uninitialized_assign
<1> HIDE DEF t, u, w, unpins, Hold
<1>8. Made(realloc, pinned, InBuffer(st, w, sz))
  BY <1>6, InBufferMade
<1>9. Made(realloc, pinned, Overflow(realloc, st, InBlock(st, t, sz)))
  BY <1>2, <1>4, OverflowMade
<1>10. Made(realloc, pinned, InPlace(st, u, sz))
  BY <1>1, <1>5, InPlaceMade
<1> QED
  BY <1>7, <1>8, <1>9, <1>10

LEMMA OverwriteMade ==
  ASSUME NEW realloc, NEW pinned, NEW st, Made(realloc, pinned, st), st.s # Lost,
         NEW sz \in Int, NEW a \in Int, NEW xs \in Word, NEW n \in Lengths
  PROVE  Made(realloc, pinned, resize_and_overwrite(realloc, st, sz, a, xs, n))
<1> DEFINE g == growth(RawSize(sz))
           new == Write(Unset(g), 0, Chars(st.s, 0, st.size))
           Done(s) == cond_null_terminate(Write(s, a, xs), n)
<1>0. n \in Int
  BY Truncated
<1>1. /\ Cap(st.s) \in Lengths /\ Cap(st.s) \in Nat /\ st.s \in Mem(Cap(st.s))
      /\ ~st.dyn => Cap(st.s) = N
      /\ st.size \in Int
  BY OfMade
<1>2. g \in Nat /\ RawSize(sz) \in Lengths
  BY Raw, Truncated
<1>3. ASSUME NEW c \in Nat, NEW s \in Mem(c)
      PROVE  Done(s) \in Mem(c) /\ (Done(s) # Lost => n < c)
  <2>1. Write(s, a, xs) \in Mem(c)
    BY WriteMem
  <2>2. /\ cond_null_terminate(Write(s, a, xs), n) \in Mem(c)
        /\ cond_null_terminate(Write(s, a, xs), n) # Lost => n \in 0 .. c - 1
    BY <1>0, <1>1, <2>1, TerminateMem
  <2> QED
    BY <2>2
<1>4. new \in Mem(g)
  <2>1. Chars(st.s, 0, st.size) \in Word /\ 0 \in Int
    BY <1>1, CharsWord
  <2> QED
    BY <1>2, <2>1, StorageMem, WriteMem
<1>5. Done(new) \in Mem(g) /\ (Done(new) # Lost => n < g)
  <2> HIDE DEF new, Done
  <2> QED
    BY <1>2, <1>3, <1>4
<1>6. Done(st.s) \in Mem(Cap(st.s)) /\ (Done(st.s) # Lost => n < Cap(st.s))
  BY <1>1, <1>3
<1>7. resize_and_overwrite(realloc, st, sz, a, xs, n)
        = IF RawSize(sz) <= Cap(st.s) THEN InPlace(st, Done(st.s), n)
          ELSE Overflow(realloc, st, InBlock(st, Done(new), n))
  BY DEF resize_and_overwrite
<1> HIDE DEF new, Done
<1>8. Made(realloc, pinned, InPlace(st, Done(st.s), n))
  BY <1>1, <1>6, InPlaceMade
<1>9. Made(realloc, pinned, Overflow(realloc, st, InBlock(st, Done(new), n)))
  BY <1>2, <1>5, OverflowMade
<1> QED
  BY <1>7, <1>8, <1>9

LEMMA ResizeMade ==
  ASSUME NEW realloc, NEW pinned, NEW st, Made(realloc, pinned, st), st.s # Lost,
         NEW sz \in Lengths, NEW ch \in Letters
  PROVE  Made(realloc, pinned, resize(realloc, st, sz, ch))
<1> DEFINE xs == IF sz > st.size THEN Fill(sz - st.size, ch) ELSE <<>>
<1>1. st.size \in Int /\ sz \in Int
  BY OfMade, Truncated
<1>2. xs \in Word
  BY <1>1, FillWord DEF Word
<1>3. resize(realloc, st, sz, ch) = resize_and_overwrite(realloc, st, sz, st.size, xs, sz)
  BY DEF resize
<1> HIDE DEF xs
<1> QED
  BY <1>1, <1>2, <1>3, OverwriteMade

LEMMA AppendFillMade ==
  ASSUME NEW realloc, NEW pinned, NEW st, Made(realloc, pinned, st), st.s # Lost,
         NEW count \in Int, NEW ch \in Letters
  PROVE  Made(realloc, pinned, append_fill(realloc, st, count, ch))
<1> DEFINE sz == ToLength(st.size + count)
           xs == IF sz < st.size THEN Lost ELSE Fill(sz - st.size, ch)
<1>0. st.size \in Int
  BY OfMade
<1>1. st.size \in Int /\ st.size + count \in Int
  BY <1>0
<1>2. sz \in Lengths
  BY <1>1, Truncated
<1> HIDE DEF sz
<1>3. sz \in Int /\ sz - st.size \in Int
  BY <1>1, <1>2, Truncated
<1>4. xs \in Word
  BY <1>3, FillWord DEF Word
<1>5. append_fill(realloc, st, count, ch) = resize_and_overwrite(realloc, st, sz, st.size, xs, sz)
  BY DEF append_fill, sz
<1> HIDE DEF xs
<1> QED
  BY <1>1, <1>2, <1>3, <1>4, <1>5, OverwriteMade

LEMMA AppendCopyMade ==
  ASSUME NEW realloc, NEW pinned, NEW st, Made(realloc, pinned, st), st.s # Lost,
         NEW src, Source(src)
  PROVE  Made(realloc, pinned, append_copy(realloc, st, src))
<1> DEFINE sz == ToLength(st.size + Distance(src))
<1>1. Cap(st.s) \in Nat /\ st.s \in Mem(Cap(st.s)) /\ st.size \in Int
  BY OfMade
<1>2. From(src, st.s) \in Word /\ Distance(src) \in Lengths
  BY <1>1, FromWord
<1>2a. Distance(src) \in Int
  BY <1>2, Truncated
<1>3. st.size + Distance(src) \in Int
  BY <1>1, <1>2a
<1>4. sz \in Lengths
  BY <1>3, Truncated
<1>5. append_copy(realloc, st, src)
        = resize_and_overwrite(realloc, st, sz, st.size, From(src, st.s), sz)
  BY DEF append_copy
<1> HIDE DEF sz
<1> QED
  BY <1>1, <1>2, <1>4, <1>5, Truncated, OverwriteMade

LEMMA ReplaceMade ==
  ASSUME NEW realloc, NEW pinned, NEW st, Made(realloc, pinned, st), st.s # Lost,
         NEW pos \in Int, NEW old \in Int, NEW new \in Int, NEW src, Source(src)
  PROVE  Made(realloc, pinned, replace_aux(realloc, st, pos, old, new, src))
<1> DEFINE n == ToLength(st.size - old + new)
           g == growth(RawSize(n))
           tail == st.size - (pos + old)
           moved == IF old = new THEN st.s ELSE CopyWithin(st.s, pos + old, tail, pos + new)
           here == Write(moved, pos, From(src, moved))
           front == Write(Unset(g), 0, Chars(st.s, 0, pos))
           head == Write(front, pos, From(src, st.s))
           there == Write(head, pos + new, Chars(st.s, pos + old, tail))
<1>1. /\ Cap(st.s) \in Lengths /\ Cap(st.s) \in Nat /\ st.s \in Mem(Cap(st.s))
      /\ ~st.dyn => Cap(st.s) = N
      /\ st.size \in Int
  BY OfMade
<1>2. st.size - old + new \in Int /\ pos + old \in Int /\ tail \in Int /\ pos + new \in Int
  BY <1>1
<1>3. n \in Lengths
  BY <1>2, Truncated
<1>4. n \in Int
  <2> HIDE DEF n
  <2> QED
    BY <1>3, Truncated
<1>5. g \in Nat /\ RawSize(n) \in Lengths
  <2> HIDE DEF n
  <2> QED
    BY <1>4, Raw
<1>6. Chars(st.s, pos + old, tail) \in Word /\ Chars(st.s, 0, pos) \in Word /\ 0 \in Int
  <2> HIDE DEF tail
  <2> QED
    BY <1>1, <1>2, CharsWord
<1>7. moved \in Mem(Cap(st.s))
  BY <1>1, <1>2, <1>6, WriteMem DEF CopyWithin
<1>8. here \in Mem(Cap(st.s))
  <2> HIDE DEF moved
  <2>1. From(src, moved) \in Word
    BY <1>1, <1>7, FromWord
  <2> QED
    BY <1>1, <1>7, <2>1, WriteMem
<1>9. front \in Mem(g)
  <2> HIDE DEF g
  <2> QED
    BY <1>5, <1>6, StorageMem, WriteMem
<1>10. head \in Mem(g)
  <2> HIDE DEF g, front
  <2>1. From(src, st.s) \in Word
    BY <1>1, FromWord
  <2> QED
    BY <1>5, <1>9, <2>1, WriteMem
<1>11. there \in Mem(g)
  <2> HIDE DEF g, head, tail
  <2> QED
    BY <1>2, <1>5, <1>6, <1>10, WriteMem
<1>12. replace_aux(realloc, st, pos, old, new, src)
         = IF pos > st.size THEN Refused(st, "out_of_range")
           ELSE IF RawSize(n) <= Cap(st.s) THEN InPlace(st, cond_null_terminate(here, n), n)
           ELSE Overflow(realloc, st, InBlock(st, cond_null_terminate(there, n), n))
  BY Zenon DEF replace_aux
<1> HIDE DEF n, g, here, there
<1>13. Made(realloc, pinned, Refused(st, "out_of_range"))
  BY RefusedMade DEF Results
<1>14. Made(realloc, pinned, InPlace(st, cond_null_terminate(here, n), n))
  <2>1. /\ cond_null_terminate(here, n) \in Mem(Cap(st.s))
        /\ cond_null_terminate(here, n) # Lost => n \in 0 .. Cap(st.s) - 1
    BY <1>1, <1>4, <1>8, TerminateMem
  <2>2. cond_null_terminate(here, n) # Lost => n < Cap(st.s)
    BY <1>1, <2>1
  <2> QED
    BY <1>1, <1>3, <2>1, <2>2, InPlaceMade
<1>15. Made(realloc, pinned, Overflow(realloc, st, InBlock(st, cond_null_terminate(there, n), n)))
  <2>1. /\ cond_null_terminate(there, n) \in Mem(g)
        /\ cond_null_terminate(there, n) # Lost => n \in 0 .. g - 1
    BY <1>4, <1>5, <1>11, TerminateMem
  <2>2. cond_null_terminate(there, n) # Lost => n < g
    BY <1>5, <2>1
  <2> QED
    BY <1>3, <1>5, <2>1, <2>2, OverflowMade DEF g
<1> QED
  BY <1>12, <1>13, <1>14, <1>15

LEMMA EraseMade ==
  ASSUME NEW realloc, NEW pinned, NEW st, Made(realloc, pinned, st), st.s # Lost,
         NEW index \in Int, NEW count \in Int
  PROVE  Made(realloc, pinned, erase(st, index, count))
<1> DEFINE room == ToLength(st.size - index)
           k == IF count < room THEN count ELSE room
           rpos == ToLength(index + k)
           n == ToLength(st.size - k)
           s == CopyWithin(st.s, rpos, st.size - rpos, index)
<1>1. /\ Cap(st.s) \in Lengths /\ Cap(st.s) \in Nat /\ st.s \in Mem(Cap(st.s))
      /\ ~st.dyn => Cap(st.s) = N
      /\ st.size \in Int
  BY OfMade
<1>2. room \in Int
  <2>1. st.size - index \in Int
    BY <1>1
  <2>2. ToLength(st.size - index) \in Int
    BY <2>1, Truncated
  <2> QED
    BY <2>2
<1>3. k \in Int
  <2> HIDE DEF room
  <2> QED
    BY <1>2
<1>4. rpos \in Int /\ n \in Lengths /\ n \in Int /\ st.size - rpos \in Int
  <2> HIDE DEF k
  <2>1. index + k \in Int /\ st.size - k \in Int
    BY <1>1, <1>3
  <2>2. rpos \in Lengths /\ n \in Lengths
    BY <2>1, Truncated
  <2> HIDE DEF rpos, n
  <2>3. rpos \in Int /\ n \in Int
    BY <2>2, Truncated
  <2> QED
    BY <1>1, <2>2, <2>3
<1>5. s \in Mem(Cap(st.s))
  <2> HIDE DEF rpos
  <2>1. Chars(st.s, rpos, st.size - rpos) \in Word
    BY <1>1, <1>4, CharsWord
  <2> QED
    BY <1>1, <2>1, WriteMem DEF CopyWithin
<1>6. erase(st, index, count) = InPlace(st, cond_null_terminate(s, n), n)
  BY DEF erase
<1> HIDE DEF n, s
<1>7. /\ cond_null_terminate(s, n) \in Mem(Cap(st.s))
      /\ cond_null_terminate(s, n) # Lost => n \in 0 .. Cap(st.s) - 1
  BY <1>1, <1>4, <1>5, TerminateMem
<1>8. cond_null_terminate(s, n) # Lost => n < Cap(st.s)
  BY <1>1, <1>7
<1> QED
  BY <1>1, <1>4, <1>6, <1>7, <1>8, InPlaceMade

LEMMA PopBackMade ==
  ASSUME NEW realloc, NEW pinned, NEW st, Made(realloc, pinned, st), st.s # Lost
  PROVE  Made(realloc, pinned, pop_back(st))
<1> DEFINE n == ToLength(st.size - 1)
           s == cond_null_terminate(st.s, n)
<1>1. /\ Cap(st.s) \in Lengths /\ Cap(st.s) \in Nat /\ st.s \in Mem(Cap(st.s))
      /\ ~st.dyn => Cap(st.s) = N
      /\ st.size \in Int
  BY OfMade
<1>2. n \in Lengths
  <2>1. st.size - 1 \in Int
    BY <1>1
  <2> QED
    BY <2>1, Truncated
<1>3. pop_back(st) = InPlace(st, s, n)
  BY DEF pop_back
<1> HIDE DEF n
<1>4. s \in Mem(Cap(st.s)) /\ (s # Lost => n \in 0 .. Cap(st.s) - 1)
  BY <1>1, <1>2, Truncated, TerminateMem
<1> HIDE DEF s
<1>5. s # Lost => n < Cap(st.s)
  BY <1>1, <1>4
<1> QED
  BY <1>1, <1>2, <1>3, <1>4, <1>5, InPlaceMade

-------------------------------------------------------------------------------
(* what a call makes of a string is the string's own and has been written *)

Sound(st) == st.s # Lost /\ Shown(st.s, st.size)

\* A length of which growth() makes a capacity that holds it, or a length for
\* which there is room already.
Room(realloc, n) == IF realloc THEN CharSize * (n + 1) + 8 <= MaxLength ELSE n < MaxLength
Roomy(realloc, st, n) == n < Cap(st.s) \/ Room(realloc, n)

LEMMA RoomGrows ==
  ASSUME NEW realloc, NEW n \in Nat, Room(realloc, n)
  PROVE  /\ n \in Lengths /\ n + 1 \in Lengths /\ RawSize(n) = n + 1 /\ ToLength(n) = n
         /\ realloc => growth(n + 1) \in Lengths /\ growth(n + 1) > n + 1
<1>1. n + 1 <= MaxLength /\ MaxLength \in Nat
  <2>1. CASE realloc
    <3>1. CharSize * (n + 1) + 8 <= MaxLength
      BY <2>1 DEF Room
    <3>2. CASE CharSize = 1
      BY <3>1, <3>2, LengthAssumption
    <3>3. CASE CharSize = 2
      BY <3>1, <3>3, LengthAssumption
    <3>4. CASE CharSize = 4
      BY <3>1, <3>4, LengthAssumption
    <3> QED
      BY <3>2, <3>3, <3>4, LengthAssumption
  <2>2. CASE ~realloc
    BY <2>2, LengthAssumption DEF Room
  <2> QED
    BY <2>1, <2>2
<1>2. n \in Lengths /\ n + 1 \in Lengths
  BY <1>1 DEF Lengths
<1>3. RawSize(n) = n + 1 /\ ToLength(n) = n
  BY <1>2, Truncated DEF RawSize
<1>4. ASSUME realloc PROVE growth(n + 1) \in Lengths /\ growth(n + 1) > n + 1
  BY <1>2, <1>4, GrowthHoldsMore DEF Room
<1> QED
  BY <1>2, <1>3, <1>4

\* With the storage's own room.
LEMMA RoomyGrows ==
  ASSUME NEW realloc, NEW pinned, NEW st, Made(realloc, pinned, st), st.s # Lost,
         NEW n \in Nat, Roomy(realloc, st, n)
  PROVE  /\ n \in Lengths /\ n + 1 \in Lengths /\ RawSize(n) = n + 1 /\ ToLength(n) = n
         /\ n >= Cap(st.s) /\ realloc => growth(n + 1) \in Lengths /\ growth(n + 1) > n + 1
<1>1. CASE n < Cap(st.s)
  <2>1. Cap(st.s) \in 0 .. MaxLength /\ MaxLength \in Nat
    BY OfMade, Truncated DEF Lengths
  <2>2. n \in Lengths /\ n + 1 \in Lengths
    BY <1>1, <2>1 DEF Lengths
  <2>3. RawSize(n) = n + 1 /\ ToLength(n) = n
    BY <2>2, Truncated DEF RawSize
  <2> QED
    BY <1>1, <2>1, <2>2, <2>3
<1>2. CASE Room(realloc, n)
  BY <1>2, RoomGrows
<1> QED
  BY <1>1, <1>2 DEF Roomy

\* Characters written where what is before them has been.
LEMMA WriteShown ==
  ASSUME NEW c \in Lengths, NEW s \in Block(c), NEW k \in Nat, k <= c, Shown(s, k),
         NEW a \in Nat, a <= k, NEW xs, xs \in Seq(Alphabet), Len(xs) \in Nat, a + Len(xs) <= c,
         NEW m \in Nat, m <= k \/ m <= a + Len(xs)
  PROVE  Write(s, a, xs) \in Block(c) /\ Shown(Write(s, a, xs), m)
<1>1. c \in Nat /\ c <= MaxLength /\ MaxLength \in Nat
  BY Truncated DEF Lengths
<1>2. Len(xs) \in Lengths
  BY <1>1 DEF Lengths
<1>3. xs \in Seq(Letters) /\ xs # Lost
  BY ONLY <1>2, xs \in Seq(Alphabet), TextWord
<1>4. /\ Write(s, a, xs) \in Block(c)
      /\ \A i \in 0 .. c - 1 :
           Write(s, a, xs)[i] = IF i \in a .. a + Len(xs) - 1 THEN xs[i - a + 1] ELSE s[i]
  <2>1. Overlaid(Write(s, a, xs), c, s, a, xs)
    BY ONLY <1>3, c \in Lengths, s \in Block(c), a \in Nat, a + Len(xs) <= c, WriteInside
  <2> QED
    BY <2>1 DEF Overlaid
<1>5. Junk \notin Alphabet
  BY StringsAssumption
<1>6. ASSUME NEW i \in 0 .. m - 1 PROVE Write(s, a, xs)[i] # Junk
  <2>1. i \in 0 .. c - 1
    BY <1>1
  <2>2. CASE i \in a .. a + Len(xs) - 1
    <3>1. xs[i - a + 1] \in Alphabet
      BY <2>2
    <3> QED
      BY <1>4, <1>5, <2>1, <2>2, <3>1
  <2>3. CASE i \notin a .. a + Len(xs) - 1
    <3>1. i \in 0 .. k - 1
      BY <2>1, <2>3
    <3> QED
      BY <1>4, <2>1, <2>3, <3>1 DEF Shown
  <2> QED
    BY <2>2, <2>3
<1> QED
  BY <1>4, <1>6 DEF Shown

\* And a terminator behind them.
LEMMA DoneShown ==
  ASSUME NEW c \in Lengths, NEW s \in Block(c), NEW k \in Nat, k <= c, Shown(s, k),
         NEW a \in Nat, a <= k, NEW xs, xs \in Seq(Alphabet), Len(xs) \in Nat, a + Len(xs) <= c,
         NEW m \in Nat, m <= k \/ m <= a + Len(xs), NEW n \in Nat, m <= n, n < c
  PROVE  /\ cond_null_terminate(Write(s, a, xs), n) \in Block(c)
         /\ Shown(cond_null_terminate(Write(s, a, xs), n), m)
<1>1. Write(s, a, xs) \in Block(c) /\ Shown(Write(s, a, xs), m)
  BY WriteShown
<1> QED
  BY <1>1, TerminateShown

\* Storage that nothing has been written to.
LEMMA UnsetShown ==
  ASSUME NEW c \in Lengths
  PROVE  /\ Unset(c) \in Block(c) /\ Shown(Unset(c), 0)
         /\ Zeroed(c) \in Block(c) /\ Shown(Zeroed(c), 0)
BY Truncated, StorageMem DEF Shown

\* What there is to know of sound storage.
LEMMA OfSound ==
  ASSUME NEW realloc, NEW pinned, NEW st, Made(realloc, pinned, st), Sound(st)
  PROVE  /\ Cap(st.s) \in Lengths /\ Cap(st.s) \in Nat /\ st.s \in Block(Cap(st.s))
         /\ st.size \in Lengths /\ st.size \in Nat /\ st.size < Cap(st.s)
         /\ Shown(st.s, st.size) /\ st.s # Lost /\ (~st.dyn => Cap(st.s) = N)
<1>1. st.s # Lost /\ Shown(st.s, st.size)
  BY DEF Sound
<1>2. /\ Cap(st.s) \in Lengths /\ Cap(st.s) \in Nat /\ st.s \in Block(Cap(st.s))
      /\ st.size \in Lengths /\ st.size < Cap(st.s) /\ (~st.dyn => Cap(st.s) = N)
  BY <1>1, OfMade
<1>3. st.size \in Nat
  BY <1>2, Truncated
<1> QED
  BY <1>1, <1>2, <1>3

\* The characters of a sound storage, or some of them.
LEMMA SoundChars ==
  ASSUME NEW realloc, NEW pinned, NEW st, Made(realloc, pinned, st), Sound(st),
         NEW a \in Nat, NEW n \in Nat, a + n <= st.size
  PROVE  /\ Chars(st.s, a, n) \in Seq(Alphabet) /\ Len(Chars(st.s, a, n)) = n
         /\ Chars(st.s, a, n) # Lost
<1>1. /\ Cap(st.s) \in Lengths /\ st.s \in Block(Cap(st.s)) /\ st.size < Cap(st.s)
      /\ st.size \in Int /\ Cap(st.s) \in Nat
  BY OfMade DEF Sound
<1>2. a + n <= Cap(st.s)
  BY <1>1
<1>3. \A i \in a .. a + n - 1 : st.s[i] # Junk
  BY <1>1 DEF Sound, Shown
<1>4. Cap(st.s) \in Lengths /\ st.s \in Block(Cap(st.s))
  BY <1>1
<1> QED
  BY <1>2, <1>3, <1>4, CharsShown

LEMMA SoundOf ==
  ASSUME NEW c \in Lengths, NEW s \in Block(c), NEW n \in Nat, Shown(s, n), NEW st
  PROVE  Sound(InPlace(st, s, n)) /\ Sound(InBlock(st, s, n)) /\ Sound(InBuffer(st, s, n))
<1>1. s # Lost
  BY Truncated, BlockCap
<1> QED
  BY <1>1 DEF Sound, InPlace, InBlock, InBuffer

LEMMA SoundRefused ==
  ASSUME NEW realloc, NEW pinned, NEW st, Made(realloc, pinned, st), Sound(st), NEW out
  PROVE  Sound(Refused(st, out))
<1>1. Refused(st, out).s = st.s /\ Refused(st, out).size = st.size
  BY DEF Refused, Made
<1> QED
  BY <1>1 DEF Sound

LEMMA SoundOverflow ==
  ASSUME NEW realloc, NEW pinned, NEW st, Made(realloc, pinned, st), Sound(st), NEW grown,
         realloc => Sound(grown)
  PROVE  Sound(Overflow(realloc, st, grown))
BY SoundRefused DEF Overflow

LEMMA ClearSound ==
  ASSUME NEW realloc, NEW pinned, NEW st, Made(realloc, pinned, st), Sound(st)
  PROVE  Sound(clear(st))
<1>1. Cap(st.s) \in Lengths /\ st.s \in Block(Cap(st.s)) /\ 0 < Cap(st.s) /\ Shown(st.s, 0)
  BY OfMade, Truncated DEF Sound, Shown
<1>2. /\ cond_null_terminate(st.s, 0) \in Block(Cap(st.s))
      /\ Shown(cond_null_terminate(st.s, 0), 0)
  BY <1>1, TerminateShown
<1> QED
  BY <1>1, <1>2, SoundOf DEF clear

\* The operation keeps to the room it is told of, and returns no more characters
\* than there are.
LEMMA OverwriteSound ==
  ASSUME NEW realloc, NEW pinned, NEW st, Made(realloc, pinned, st), Sound(st),
         NEW sz \in Nat, RawSize(sz) = sz + 1,
         NEW a \in Nat, a <= st.size, NEW xs, xs \in Seq(Alphabet), Len(xs) \in Nat,
         NEW n \in Nat, n <= st.size \/ n <= a + Len(xs),
         sz < Cap(st.s) => n < Cap(st.s) /\ a + Len(xs) <= Cap(st.s),
         sz >= Cap(st.s) /\ realloc =>
           /\ growth(sz + 1) \in Lengths /\ n < growth(sz + 1) /\ a + Len(xs) <= growth(sz + 1)
           /\ st.size <= growth(sz + 1)
  PROVE  Sound(resize_and_overwrite(realloc, st, sz, a, xs, n))
<1> DEFINE g == growth(sz + 1)
           new == Write(Unset(g), 0, Chars(st.s, 0, st.size))
           Done(s) == cond_null_terminate(Write(s, a, xs), n)
<1>1. /\ Cap(st.s) \in Lengths /\ st.s \in Block(Cap(st.s)) /\ Cap(st.s) \in Nat
      /\ st.size \in Nat /\ st.size < Cap(st.s) /\ st.size <= Cap(st.s)
      /\ Shown(st.s, st.size)
  BY OfSound
<1>2. resize_and_overwrite(realloc, st, sz, a, xs, n)
        = IF sz < Cap(st.s) THEN InPlace(st, Done(st.s), n)
          ELSE Overflow(realloc, st, InBlock(st, Done(new), n))
  <2>1. (sz + 1 <= Cap(st.s)) <=> (sz < Cap(st.s))
    BY <1>1
  <2> QED
    BY <2>1 DEF resize_and_overwrite
<1>3. ASSUME sz < Cap(st.s)
      PROVE  Done(st.s) \in Block(Cap(st.s)) /\ Shown(Done(st.s), n)
  BY <1>1, <1>3, DoneShown
<1>4. ASSUME sz >= Cap(st.s), realloc
      PROVE  g \in Lengths /\ Done(new) \in Block(g) /\ Shown(Done(new), n)
  <2>1. g \in Lengths /\ n < g /\ a + Len(xs) <= g /\ st.size <= g
    BY <1>4
  <2>2. /\ Chars(st.s, 0, st.size) \in Seq(Alphabet) /\ Len(Chars(st.s, 0, st.size)) = st.size
    BY <1>1, SoundChars
  <2> HIDE DEF g
  <2>3. new \in Block(g) /\ Shown(new, st.size)
    <3>1. Unset(g) \in Block(g) /\ Shown(Unset(g), 0) /\ g \in Nat
      BY <2>1, UnsetShown, Truncated
    <3> QED
      BY <1>1, <2>1, <2>2, <3>1, WriteShown
  <2> HIDE DEF new
  <2>4. Done(new) \in Block(g) /\ Shown(Done(new), n)
    BY <1>1, <2>1, <2>3, DoneShown
  <2> QED
    BY <2>1, <2>4
<1> HIDE DEF Done, new, g
<1>5. ASSUME sz < Cap(st.s) PROVE Sound(InPlace(st, Done(st.s), n))
  BY <1>1, <1>3, <1>5, SoundOf
<1>6. ASSUME sz >= Cap(st.s) PROVE Sound(Overflow(realloc, st, InBlock(st, Done(new), n)))
  <2>1. realloc => Sound(InBlock(st, Done(new), n))
    BY <1>4, <1>6, SoundOf
  <2> QED
    BY <2>1, SoundOverflow
<1> QED
  BY <1>1, <1>2, <1>5, <1>6

LEMMA FillText ==
  ASSUME NEW n \in Nat, NEW ch \in Alphabet
  PROVE  Fill(n, ch) \in Seq(Alphabet) /\ Len(Fill(n, ch)) = n
BY DEF Fill

LEMMA ResizeSound ==
  ASSUME NEW realloc, NEW pinned, NEW st, Made(realloc, pinned, st), Sound(st),
         NEW sz \in Nat, Roomy(realloc, st, sz), NEW ch \in Alphabet
  PROVE  Sound(resize(realloc, st, sz, ch))
<1> DEFINE xs == IF sz > st.size THEN Fill(sz - st.size, ch) ELSE <<>>
<1>1. st.size \in Nat /\ st.size < Cap(st.s) /\ Cap(st.s) \in Nat
  BY OfSound
<1>2. /\ RawSize(sz) = sz + 1
      /\ (sz >= Cap(st.s) /\ realloc =>
           growth(sz + 1) \in Lengths /\ growth(sz + 1) \in Nat /\ growth(sz + 1) > sz + 1)
  BY RoomyGrows, Truncated DEF Sound
<1>3. xs \in Seq(Alphabet) /\ Len(xs) = IF sz > st.size THEN sz - st.size ELSE 0
  <2>1. CASE sz > st.size
    <3>1. sz - st.size \in Nat
      BY <1>1, <2>1
    <3> QED
      BY <2>1, <3>1, FillText
  <2>2. CASE ~(sz > st.size)
    BY <2>2
  <2> QED
    BY <2>1, <2>2
<1>4. resize(realloc, st, sz, ch) = resize_and_overwrite(realloc, st, sz, st.size, xs, sz)
  BY DEF resize
<1> HIDE DEF xs
<1>5. /\ Len(xs) \in Nat /\ (sz <= st.size \/ sz <= st.size + Len(xs))
      /\ sz < Cap(st.s) => sz < Cap(st.s) /\ st.size + Len(xs) <= Cap(st.s)
      /\ sz >= Cap(st.s) /\ realloc =>
           /\ growth(sz + 1) \in Lengths /\ sz < growth(sz + 1)
           /\ st.size + Len(xs) <= growth(sz + 1) /\ st.size <= growth(sz + 1)
  BY <1>1, <1>2, <1>3
<1> QED
  BY <1>1, <1>2, <1>3, <1>4, <1>5, OverwriteSound

\* The characters xs behind those of the string.
LEMMA AppendSound ==
  ASSUME NEW realloc, NEW pinned, NEW st, Made(realloc, pinned, st), Sound(st),
         NEW xs, xs \in Seq(Alphabet), NEW sz \in Nat, sz = st.size + Len(xs),
         Roomy(realloc, st, sz)
  PROVE  Sound(resize_and_overwrite(realloc, st, sz, st.size, xs, sz))
<1>1. st.size \in Nat /\ st.size < Cap(st.s) /\ Cap(st.s) \in Nat /\ Len(xs) \in Nat
  BY OfSound
<1>2. /\ RawSize(sz) = sz + 1
      /\ (sz >= Cap(st.s) /\ realloc =>
           growth(sz + 1) \in Lengths /\ growth(sz + 1) \in Nat /\ growth(sz + 1) > sz + 1)
  BY RoomyGrows, Truncated DEF Sound
<1>3. /\ (sz <= st.size \/ sz <= st.size + Len(xs))
      /\ sz < Cap(st.s) => sz < Cap(st.s) /\ st.size + Len(xs) <= Cap(st.s)
      /\ sz >= Cap(st.s) /\ realloc =>
           /\ growth(sz + 1) \in Lengths /\ sz < growth(sz + 1)
           /\ st.size + Len(xs) <= growth(sz + 1) /\ st.size <= growth(sz + 1)
  BY <1>1, <1>2
<1> QED
  BY <1>1, <1>2, <1>3, OverwriteSound

LEMMA AppendFillSound ==
  ASSUME NEW realloc, NEW pinned, NEW st, Made(realloc, pinned, st), Sound(st),
         NEW count \in Nat, Roomy(realloc, st, st.size + count), NEW ch \in Alphabet
  PROVE  Sound(append_fill(realloc, st, count, ch))
<1>1. st.size \in Nat
  BY OfSound
<1>2. PICK sz \in Nat : sz = st.size + count
  BY <1>1
<1>3. ToLength(sz) = sz
  BY <1>2, RoomyGrows DEF Sound
<1>4. ~(sz < st.size) /\ sz - st.size = count
  BY <1>1, <1>2
<1>5. append_fill(realloc, st, count, ch)
        = resize_and_overwrite(realloc, st, sz, st.size, Fill(count, ch), sz)
  BY <1>2, <1>3, <1>4 DEF append_fill
<1>6. Fill(count, ch) \in Seq(Alphabet) /\ sz = st.size + Len(Fill(count, ch))
  BY <1>2, FillText
<1> QED
  BY <1>2, <1>5, <1>6, AppendSound

\* The source has n characters.
Reads(src, s, n) == From(src, s) \in Seq(Alphabet) /\ Len(From(src, s)) = n /\ Distance(src) = n

LEMMA AppendCopySound ==
  ASSUME NEW realloc, NEW pinned, NEW st, Made(realloc, pinned, st), Sound(st),
         NEW src, NEW n \in Nat, Reads(src, st.s, n), Roomy(realloc, st, st.size + n)
  PROVE  Sound(append_copy(realloc, st, src))
<1>1. st.size \in Nat
  BY OfSound
<1>2. PICK sz \in Nat : sz = st.size + n
  BY <1>1
<1>3. ToLength(sz) = sz
  BY <1>2, RoomyGrows DEF Sound
<1>4. append_copy(realloc, st, src)
        = resize_and_overwrite(realloc, st, sz, st.size, From(src, st.s), sz)
  BY <1>2, <1>3 DEF append_copy, Reads
<1> QED
  BY <1>2, <1>4, AppendSound DEF Reads

\* The storage that a construction finds is the buffer.
LEMMA ConstructSound ==
  ASSUME NEW realloc, NEW pinned, NEW st, Made(realloc, pinned, st), Sound(st), ~st.dyn,
         NEW xs, xs \in Seq(Alphabet), NEW sz \in Nat, Len(xs) = sz, Room(realloc, sz)
  PROVE  Sound(uninitialized_construct(realloc, st, sz, xs))
<1> DEFINE Hold(s) == cond_null_terminate(Write(s, 0, xs), Len(xs))
           g == growth(sz + 1)
<1>1. RawSize(sz) = sz + 1 /\ (realloc => g \in Lengths /\ g \in Nat /\ g > sz + 1)
  BY RoomGrows, Truncated
<1>2. st.s \in Block(N) /\ Shown(st.s, 0) /\ N \in Lengths /\ N \in Nat
  BY OfSound, LettersOf DEF Shown
<1>3. uninitialized_construct(realloc, st, sz, xs)
        = IF N < sz + 1 THEN Overflow(realloc, st, InBlock(st, Hold(Unset(g)), sz))
          ELSE InPlace(st, Hold(st.s), sz)
  BY <1>1 DEF uninitialized_construct
<1> HIDE DEF g
<1>4. ASSUME NEW c \in Lengths, NEW s \in Block(c), Shown(s, 0), sz < c
      PROVE  Hold(s) \in Block(c) /\ Shown(Hold(s), sz)
  <2>1. c \in Nat /\ 0 \in Nat /\ 0 <= c /\ 0 <= 0 /\ 0 + Len(xs) <= c /\ Len(xs) \in Nat
        /\ sz <= 0 + Len(xs) /\ sz <= Len(xs) /\ Len(xs) < c
    BY <1>4, Truncated
  <2> QED
    BY <1>4, <2>1, DoneShown
<1> HIDE DEF Hold
<1>5. CASE N < sz + 1
  <2>1. ASSUME realloc PROVE Sound(InBlock(st, Hold(Unset(g)), sz))
    <3>1. g \in Lengths /\ sz < g /\ Unset(g) \in Block(g) /\ Shown(Unset(g), 0)
      BY <1>1, <2>1, UnsetShown
    <3>2. Hold(Unset(g)) \in Block(g) /\ Shown(Hold(Unset(g)), sz)
      BY <1>4, <3>1
    <3> QED
      BY <3>1, <3>2, SoundOf
  <2> QED
    BY <1>3, <1>5, <2>1, SoundOverflow
<1>6. CASE ~(N < sz + 1)
  <2>1. sz < N
    BY <1>2, <1>6
  <2>2. Hold(st.s) \in Block(N) /\ Shown(Hold(st.s), sz)
    BY <1>2, <1>4, <2>1
  <2> QED
    BY <1>2, <1>3, <1>6, <2>2, SoundOf
<1> QED
  BY <1>5, <1>6

\* A part of the string itself is no source where its block is released first.
LEMMA AssignSound ==
  ASSUME NEW realloc, NEW pinned, NEW st, Made(realloc, pinned, st), Sound(st),
         NEW sz \in Nat, Room(realloc, sz) \/ sz < Cap(st.s), NEW src, Reads(src, st.s, sz),
         st.dyn /\ 0 < sz /\ RawSize(sz) <= N => ~src.own,
         src.own => src.last - src.first = sz
  PROVE  Sound(uninitialized_assign(realloc, st, sz, src))
<1> DEFINE Hold(s, xs) == IF xs = Lost THEN Lost
                          ELSE cond_null_terminate(Write(s, 0, xs), Len(xs))
           g == growth(sz + 1)
           unpins == realloc /\ RawSize(sz) <= N /\ st.dyn
           xs1 == From(src, st.s)
<1>1. /\ RawSize(sz) = sz + 1 /\ sz \in Lengths
      /\ sz >= Cap(st.s) /\ realloc => g \in Lengths /\ g > sz + 1
  BY RoomyGrows DEF Roomy, Sound
<1>2. /\ Cap(st.s) \in Lengths /\ Cap(st.s) \in Nat /\ st.s \in Block(Cap(st.s))
      /\ Shown(st.s, 0) /\ N \in Lengths /\ N \in Nat
  BY OfSound, LettersOf DEF Shown
<1>3. xs1 \in Seq(Alphabet) /\ Len(xs1) = sz
  BY DEF Reads
<1>4. uninitialized_assign(realloc, st, sz, src)
        = IF unpins THEN InBuffer(st, Hold(Zeroed(N), From(src, Lost)), sz)
          ELSE IF Cap(st.s) < sz + 1
            THEN Overflow(realloc, st, InBlock(st, Hold(Unset(g), xs1), sz))
            ELSE InPlace(st, Hold(st.s, xs1), sz)
  BY <1>1 DEF uninitialized_assign
<1>5. ASSUME unpins PROVE From(src, Lost) = xs1
  <2>1. CASE src.own
    <3>1. sz = 0 /\ src.last - src.first = 0
      BY <1>5, <2>1
    <3> QED
      BY <2>1, <3>1 DEF From, Chars
  <2>2. CASE ~src.own
    BY <2>2 DEF From
  <2> QED
    BY <2>1, <2>2
<1>6. unpins => sz < N
  BY <1>1, <1>2
<1> HIDE DEF g, unpins, xs1
<1>7. ASSUME NEW c \in Lengths, NEW s \in Block(c), Shown(s, 0), sz < c
      PROVE  Hold(s, xs1) \in Block(c) /\ Shown(Hold(s, xs1), sz)
  <2>0. xs1 # Lost
    BY ONLY <1>1, <1>3, TextWord
  <2>1. c \in Nat /\ 0 \in Nat /\ 0 <= c /\ 0 <= 0 /\ 0 + Len(xs1) <= c /\ Len(xs1) \in Nat
        /\ sz <= 0 + Len(xs1) /\ sz <= Len(xs1) /\ Len(xs1) < c
    BY <1>3, <1>7, Truncated
  <2> QED
    BY <1>3, <1>7, <2>0, <2>1, DoneShown
<1> HIDE DEF Hold
<1>8. CASE unpins
  <2>1. Zeroed(N) \in Block(N) /\ Shown(Zeroed(N), 0)
    BY <1>2, UnsetShown
  <2>2. Hold(Zeroed(N), xs1) \in Block(N) /\ Shown(Hold(Zeroed(N), xs1), sz)
    BY <1>2, <1>6, <1>7, <1>8, <2>1
  <2> QED
    BY <1>2, <1>4, <1>5, <1>8, <2>2, SoundOf
<1>9. CASE ~unpins /\ Cap(st.s) < sz + 1
  <2>1. ASSUME realloc PROVE Sound(InBlock(st, Hold(Unset(g), xs1), sz))
    <3>1. g \in Lengths /\ g > sz + 1
      BY <1>1, <1>2, <1>9, <2>1
    <3>2. sz < g /\ Unset(g) \in Block(g) /\ Shown(Unset(g), 0)
      BY <3>1, UnsetShown, Truncated
    <3>3. Hold(Unset(g), xs1) \in Block(g) /\ Shown(Hold(Unset(g), xs1), sz)
      BY <1>7, <3>1, <3>2
    <3> QED
      BY <3>1, <3>3, SoundOf
  <2> QED
    BY <1>4, <1>9, <2>1, SoundOverflow
<1>10. CASE ~unpins /\ ~(Cap(st.s) < sz + 1)
  <2>1. sz < Cap(st.s)
    BY <1>2, <1>10
  <2>2. Hold(st.s, xs1) \in Block(Cap(st.s)) /\ Shown(Hold(st.s, xs1), sz)
    BY <1>2, <1>7, <2>1
  <2> QED
    BY <1>2, <1>4, <1>10, <2>2, SoundOf
<1> QED
  BY <1>8, <1>9, <1>10

LEMMA ShrinkSound ==
  ASSUME NEW pinned, NEW st, Made(TRUE, pinned, st), Sound(st), Room(TRUE, st.size)
  PROVE  Sound(shrink_to_fit(st))
<1> DEFINE g == growth(st.size + 1)
           xs == Chars(st.s, 0, st.size)
           inBlock == Write(Unset(g), 0, xs)
           inBuffer == cond_null_terminate(Write(Zeroed(N), 0, xs), st.size)
<1>1. st.size \in Nat /\ N \in Lengths /\ N \in Nat
  BY OfSound, LettersOf
<1>2. RawSize(st.size) = st.size + 1 /\ g \in Lengths /\ g > st.size + 1
  BY <1>1, RoomGrows
<1>3. xs \in Seq(Alphabet) /\ Len(xs) = st.size
  <2>1. 0 \in Nat /\ 0 + st.size <= st.size
    BY <1>1
  <2> QED
    BY <1>1, <2>1, SoundChars
<1>4. shrink_to_fit(st)
        = IF Cap(st.s) <= N THEN st
          ELSE IF N < st.size + 1
            THEN IF g = Cap(st.s) THEN st ELSE InBlock(st, inBlock, st.size)
            ELSE InBuffer(st, inBuffer, st.size)
  BY <1>2 DEF shrink_to_fit
<1> HIDE DEF g, xs
<1>5. inBlock \in Block(g) /\ Shown(inBlock, st.size)
  <2>1. Unset(g) \in Block(g) /\ Shown(Unset(g), 0) /\ g \in Nat
    BY <1>2, UnsetShown, Truncated
  <2> QED
    BY <1>1, <1>2, <1>3, <2>1, WriteShown
<1>6. ASSUME ~(N < st.size + 1)
      PROVE  inBuffer \in Block(N) /\ Shown(inBuffer, st.size)
  <2>1. Zeroed(N) \in Block(N) /\ Shown(Zeroed(N), 0) /\ st.size < N
    BY <1>1, <1>6, UnsetShown
  <2> QED
    BY <1>1, <1>3, <2>1, DoneShown
<1> HIDE DEF inBlock, inBuffer
<1>7. Sound(InBlock(st, inBlock, st.size))
  BY <1>1, <1>2, <1>5, SoundOf
<1>8. ~(N < st.size + 1) => Sound(InBuffer(st, inBuffer, st.size))
  BY <1>1, <1>6, SoundOf
<1> QED
  BY <1>4, <1>7, <1>8

LEMMA ReserveSound ==
  ASSUME NEW pinned, NEW st, Made(TRUE, pinned, st), Sound(st), NEW n \in Nat, Room(TRUE, n)
  PROVE  Sound(reserve(st, n))
<1> DEFINE g == growth(n + 1)
           xs == Chars(st.s, 0, st.size + 1)
           new == Write(Unset(g), 0, xs)
<1>1. /\ Cap(st.s) \in Lengths /\ Cap(st.s) \in Nat /\ st.s \in Block(Cap(st.s))
      /\ st.size \in Nat /\ st.size < Cap(st.s) /\ Shown(st.s, st.size)
  BY OfSound
<1>2. RawSize(n) = n + 1 /\ g \in Lengths /\ g \in Nat /\ g > n + 1
  BY RoomGrows, Truncated
<1>3. /\ xs \in Seq(Letters) /\ Len(xs) = st.size + 1 /\ xs # Lost
      /\ \A i \in 1 .. st.size + 1 : xs[i] = st.s[i - 1]
  <2>1. st.size + 1 \in Nat /\ 0 \in Nat /\ 0 + (st.size + 1) <= Cap(st.s)
    BY <1>1
  <2>0. PICK k \in Nat : k = st.size + 1
    BY <2>1
  <2>2. /\ xs \in Seq(Letters) /\ Len(xs) = st.size + 1 /\ xs # Lost
        /\ \A i \in 1 .. st.size + 1 : xs[i] = st.s[0 + i - 1]
    <3>1. 0 + k <= Cap(st.s) /\ 0 \in Nat
      BY <2>0, <2>1
    <3>2. /\ Chars(st.s, 0, k) \in Seq(Letters) /\ Len(Chars(st.s, 0, k)) = k
          /\ Chars(st.s, 0, k) # Lost /\ \A i \in 1 .. k : Chars(st.s, 0, k)[i] = st.s[0 + i - 1]
      BY <1>1, <3>1, CharsInside
    <3> QED
      BY <2>0, <3>2
  <2>3. \A i \in 1 .. st.size + 1 : 0 + i - 1 = i - 1
    BY <1>1
  <2> QED
    BY <2>2, <2>3
<1>4. reserve(st, n) = IF n + 1 <= Cap(st.s) THEN st ELSE InBlock(st, new, st.size)
  BY <1>2 DEF reserve
<1> HIDE DEF g, xs
<1>5. CASE ~(n + 1 <= Cap(st.s))
  <2>1. Unset(g) \in Block(g)
    BY <1>2, UnsetShown
  <2>2. 0 + Len(xs) <= g /\ 0 \in Nat
    BY <1>1, <1>2, <1>3, <1>5
  <2>3. /\ new \in Block(g)
        /\ \A i \in 0 .. g - 1 :
             new[i] = IF i \in 0 .. 0 + Len(xs) - 1 THEN xs[i - 0 + 1] ELSE Unset(g)[i]
    BY <1>2, <1>3, <2>1, <2>2, WriteInside DEF Overlaid
  <2> HIDE DEF new
  <2>4. ASSUME NEW i \in 0 .. st.size - 1 PROVE new[i] # Junk
    <3>1. i \in 0 .. g - 1 /\ i \in 0 .. 0 + Len(xs) - 1 /\ i - 0 + 1 = i + 1
          /\ i + 1 \in 1 .. st.size + 1 /\ (i + 1) - 1 = i
      BY <1>1, <1>2, <1>3, <1>5
    <3>2. new[i] = st.s[i]
      BY <1>3, <2>3, <3>1
    <3> QED
      BY <1>1, <3>2 DEF Shown
  <2>5. Sound(InBlock(st, new, st.size))
    BY <1>1, <1>2, <2>3, <2>4, SoundOf DEF Shown
  <2> QED
    BY <1>4, <1>5, <2>5
<1> QED
  BY <1>4, <1>5

\* What becomes of the characters when the tail is moved in place: those of the
\* string stay written, and so do those of the tail where it is now.
LEMMA MovedShown ==
  ASSUME NEW c \in Lengths, NEW s \in Block(c), NEW size0 \in Nat, size0 <= c, Shown(s, size0),
         NEW from \in Nat, NEW tail \in Nat, from + tail <= size0, NEW to \in Nat, to + tail <= c
  PROVE  /\ CopyWithin(s, from, tail, to) \in Block(c)
         /\ Shown(CopyWithin(s, from, tail, to), size0)
         /\ \A i \in to .. to + tail - 1 : CopyWithin(s, from, tail, to)[i] # Junk
<1> DEFINE xs == Chars(s, from, tail)
           moved == Write(s, to, xs)
<1>1. c \in Nat
  BY Truncated
<1>2. from + tail <= c /\ \A i \in from .. from + tail - 1 : s[i] # Junk
  BY <1>1 DEF Shown
<1>3. xs \in Seq(Alphabet) /\ xs \in Seq(Letters) /\ Len(xs) = tail /\ xs # Lost
  BY <1>2, CharsShown
<1>4. CopyWithin(s, from, tail, to) = moved
  BY DEF CopyWithin
<1> HIDE DEF xs
<1>5. to + Len(xs) <= c /\ xs \in Seq(Letters) /\ xs # Lost
  BY <1>3
<1>6. /\ moved \in Block(c)
      /\ \A i \in 0 .. c - 1 :
           moved[i] = IF i \in to .. to + Len(xs) - 1 THEN xs[i - to + 1] ELSE s[i]
  BY <1>5, WriteInside DEF Overlaid
<1> HIDE DEF moved
<1>7. Junk \notin Alphabet
  BY StringsAssumption
<1>8. ASSUME NEW i \in to .. to + tail - 1 PROVE moved[i] # Junk
  <2>1. i \in 0 .. c - 1 /\ i \in to .. to + Len(xs) - 1 /\ i - to + 1 \in 1 .. Len(xs)
    BY <1>1, <1>3
  <2>2. xs[i - to + 1] \in Alphabet
    BY <1>3, <2>1
  <2> QED
    BY <1>6, <1>7, <2>1, <2>2
<1>9. ASSUME NEW i \in 0 .. size0 - 1, i \notin to .. to + tail - 1 PROVE moved[i] # Junk
  <2>1. i \in 0 .. c - 1 /\ i \notin to .. to + Len(xs) - 1
    BY <1>1, <1>3, <1>9
  <2> QED
    BY <1>6, <2>1 DEF Shown
<1>10. Shown(moved, size0)
  BY <1>8, <1>9 DEF Shown
<1> QED
  BY <1>4, <1>6, <1>8, <1>10

\* A source of n characters: a text, or a part of the string whose characters
\* are those of st.
Supplies(src, st, n) ==
  /\ Distance(src) = n
  /\ \/ \E xs \in Seq(Alphabet) : Len(xs) = n /\ src = Foreign(xs)
     \/ \E a \in Nat, b \in Nat : a + n = b /\ b <= st.size /\ src = Own(a, b)

LEMMA SuppliesReads ==
  ASSUME NEW c \in Lengths, NEW s \in Block(c), NEW st, st.size \in Nat, st.size <= c,
         Shown(s, st.size), NEW n \in Nat, NEW src, Supplies(src, st, n)
  PROVE  Reads(src, s, n) /\ (src.own => src.last - src.first = n)
<1>1. CASE \E xs \in Seq(Alphabet) : Len(xs) = n /\ src = Foreign(xs)
  BY <1>1 DEF Supplies, Reads, Foreign, From
<1>2. CASE \E a \in Nat, b \in Nat : a + n = b /\ b <= st.size /\ src = Own(a, b)
  <2>1. PICK a \in Nat, b \in Nat : a + n = b /\ b <= st.size /\ src = Own(a, b)
    BY <1>2
  <2>2. From(src, s) = Chars(s, a, n) /\ src.last - src.first = n
    <3>1. b - a = n
      BY <2>1
    <3>2. src.own /\ src.first = a /\ src.last = b
      BY <2>1 DEF Own
    <3> QED
      BY <3>1, <3>2 DEF From
  <2>3. a + n <= c /\ \A i \in a .. a + n - 1 : s[i] # Junk
    BY <2>1, Truncated DEF Shown
  <2>4. Chars(s, a, n) \in Seq(Alphabet) /\ Len(Chars(s, a, n)) = n
    BY <2>3, CharsShown
  <2> QED
    BY <2>2, <2>4 DEF Supplies, Reads
<1> QED
  BY <1>1, <1>2 DEF Supplies

LEMMA ReplaceSound ==
  ASSUME NEW realloc, NEW pinned, NEW st, Made(realloc, pinned, st), Sound(st),
         NEW pos \in Nat, NEW old \in Nat, pos + old <= st.size, NEW new \in Nat,
         NEW src, Supplies(src, st, new), Roomy(realloc, st, st.size - old + new)
  PROVE  Sound(replace_aux(realloc, st, pos, old, new, src))
<1>1. /\ Cap(st.s) \in Lengths /\ Cap(st.s) \in Nat /\ st.s \in Block(Cap(st.s))
      /\ st.size \in Nat /\ st.size < Cap(st.s) /\ Shown(st.s, st.size)
  BY OfSound
<1>2. PICK n \in Nat : n = st.size - old + new
  BY <1>1
<1>3. PICK tail \in Nat : tail = st.size - (pos + old)
  BY <1>1
<1>4. n = pos + new + tail
  BY <1>1, <1>2, <1>3
<1>5. /\ RawSize(n) = n + 1 /\ ToLength(n) = n
      /\ (n >= Cap(st.s) /\ realloc => growth(n + 1) \in Lengths /\ growth(n + 1) > n + 1)
  BY <1>2, RoomyGrows DEF Sound
<1> DEFINE c == growth(n + 1)
           moved == IF old = new THEN st.s ELSE CopyWithin(st.s, pos + old, tail, pos + new)
           here == Write(moved, pos, From(src, moved))
           head == Write(Write(Unset(c), 0, Chars(st.s, 0, pos)), pos, From(src, st.s))
           there == Write(head, pos + new, Chars(st.s, pos + old, tail))
<1>6. replace_aux(realloc, st, pos, old, new, src)
        = IF n < Cap(st.s) THEN InPlace(st, cond_null_terminate(here, n), n)
          ELSE Overflow(realloc, st, InBlock(st, cond_null_terminate(there, n), n))
  <2>1. ~(pos > st.size) /\ ((n + 1 <= Cap(st.s)) <=> (n < Cap(st.s)))
    BY <1>1
  <2>2. ToLength(st.size - old + new) = n
    BY <1>2, <1>5
  <2> QED
    BY <1>3, <1>5, <2>1, <2>2 DEF replace_aux
<1>7. ASSUME n < Cap(st.s) PROVE Sound(InPlace(st, cond_null_terminate(here, n), n))
  <2>1. /\ moved \in Block(Cap(st.s)) /\ Shown(moved, st.size)
        /\ \A i \in pos + new .. n - 1 : moved[i] # Junk
    <3>1. CASE old = new
      <4>1. \A i \in pos + new .. n - 1 : i \in 0 .. st.size - 1
        BY <1>1, <1>2, <3>1
      <4> QED
        BY <1>1, <3>1, <4>1 DEF Shown
    <3>2. CASE old # new
      <4>1. /\ pos + old \in Nat /\ pos + new \in Nat /\ (pos + old) + tail <= st.size
            /\ (pos + new) + tail <= Cap(st.s) /\ st.size <= Cap(st.s)
            /\ n - 1 = (pos + new) + tail - 1
        BY <1>1, <1>3, <1>4, <1>7
      <4>2. PICK from \in Nat, to \in Nat : from = pos + old /\ to = pos + new
        BY <4>1
      <4>3. /\ CopyWithin(st.s, from, tail, to) \in Block(Cap(st.s))
            /\ Shown(CopyWithin(st.s, from, tail, to), st.size)
            /\ \A i \in to .. to + tail - 1 : CopyWithin(st.s, from, tail, to)[i] # Junk
        BY <1>1, <4>1, <4>2, MovedShown
      <4> QED
        BY <3>2, <4>1, <4>2, <4>3
    <3> QED
      BY <3>1, <3>2
  <2> DEFINE xs == From(src, moved)
  <2> HIDE DEF moved
  <2>2. xs \in Seq(Alphabet) /\ Len(xs) = new
    BY <1>1, <2>1, SuppliesReads DEF Reads
  <2>3. xs \in Seq(Letters) /\ xs # Lost
    <3>1. new \in Lengths
      BY <1>1, <1>4, <1>7, Truncated DEF Lengths
    <3> QED
      BY ONLY <2>2, <3>1, TextWord
  <2>4. here = Write(moved, pos, xs)
    BY DEF here
  <2> HIDE DEF xs
  <2>5. pos + Len(xs) <= Cap(st.s)
    BY <1>1, <1>4, <1>7, <2>2
  <2>6. /\ here \in Block(Cap(st.s))
        /\ \A i \in 0 .. Cap(st.s) - 1 :
             here[i] = IF i \in pos .. pos + Len(xs) - 1 THEN xs[i - pos + 1] ELSE moved[i]
    <3>1. /\ Write(moved, pos, xs) \in Block(Cap(st.s))
          /\ \A i \in 0 .. Cap(st.s) - 1 :
               Write(moved, pos, xs)[i]
                 = IF i \in pos .. pos + Len(xs) - 1 THEN xs[i - pos + 1] ELSE moved[i]
      BY <1>1, <2>1, <2>3, <2>5, WriteInside DEF Overlaid
    <3> QED
      BY <2>4, <3>1
  <2> HIDE DEF here
  <2>7. Shown(here, n)
    <3> SUFFICES ASSUME NEW i \in 0 .. n - 1 PROVE here[i] # Junk
      BY DEF Shown
    <3>1. i \in 0 .. Cap(st.s) - 1 /\ Junk \notin Alphabet
      BY <1>1, <1>7, StringsAssumption
    <3>2. CASE i \in pos .. pos + new - 1
      <4>1. i - pos + 1 \in 1 .. Len(xs)
        BY <2>2, <3>2
      <4>2. xs[i - pos + 1] \in Alphabet
        BY <2>2, <4>1
      <4> QED
        BY <2>2, <2>6, <3>1, <3>2, <4>2
    <3>3. CASE i \notin pos .. pos + new - 1
      <4>1. i \in 0 .. st.size - 1 \/ i \in pos + new .. n - 1
        BY <1>1, <3>3
      <4>2. moved[i] # Junk
        BY <2>1, <4>1 DEF Shown
      <4> QED
        BY <2>2, <2>6, <3>1, <3>3, <4>2
    <3> QED
      BY <3>2, <3>3
  <2>8. /\ cond_null_terminate(here, n) \in Block(Cap(st.s))
        /\ Shown(cond_null_terminate(here, n), n)
    BY <1>1, <1>7, <2>6, <2>7, TerminateShown
  <2> QED
    BY <1>1, <2>8, SoundOf
<1>8. ASSUME n >= Cap(st.s), realloc
      PROVE  Sound(InBlock(st, cond_null_terminate(there, n), n))
  <2>1. c \in Lengths /\ c > n + 1 /\ c \in Nat
    BY <1>5, <1>8, Truncated
  <2> HIDE DEF c
  <2>2. Chars(st.s, 0, pos) \in Seq(Alphabet) /\ Len(Chars(st.s, 0, pos)) = pos
    <3>1. 0 \in Nat /\ 0 + pos <= st.size
      BY <1>1
    <3> QED
      BY <3>1, SoundChars
  <2>3. Chars(st.s, pos + old, tail) \in Seq(Alphabet) /\ Len(Chars(st.s, pos + old, tail)) = tail
    <3>1. pos + old \in Nat /\ (pos + old) + tail <= st.size
      BY <1>1, <1>3
    <3>2. PICK from \in Nat : from = pos + old
      BY <3>1
    <3> QED
      BY <3>1, <3>2, SoundChars
  <2>4. From(src, st.s) \in Seq(Alphabet) /\ Len(From(src, st.s)) = new
    BY <1>1, SuppliesReads DEF Reads
  <2> DEFINE front == Write(Unset(c), 0, Chars(st.s, 0, pos))
  <2>5. front \in Block(c) /\ Shown(front, pos)
    <3>1. Unset(c) \in Block(c) /\ Shown(Unset(c), 0) /\ 0 + Len(Chars(st.s, 0, pos)) <= c
          /\ pos <= 0 + Len(Chars(st.s, 0, pos)) /\ 0 \in Nat /\ 0 <= c /\ 0 <= 0
      BY <1>4, <2>1, <2>2, UnsetShown
    <3> QED
      BY <2>1, <2>2, <3>1, WriteShown
  <2> HIDE DEF front
  <2>6. PICK m \in Nat : m = pos + new
    BY <1>1
  <2>7. head \in Block(c) /\ Shown(head, m)
    <3>1. pos <= c /\ pos <= pos /\ pos + Len(From(src, st.s)) <= c
          /\ m <= pos + Len(From(src, st.s))
      BY <1>4, <2>1, <2>4, <2>6
    <3>2. Write(front, pos, From(src, st.s)) \in Block(c)
          /\ Shown(Write(front, pos, From(src, st.s)), m)
      BY <2>1, <2>4, <2>5, <3>1, WriteShown
    <3> QED
      BY <3>2 DEF front, head
  <2> HIDE DEF head
  <2> DEFINE xs == Chars(st.s, pos + old, tail)
  <2>8. /\ cond_null_terminate(Write(head, m, xs), n) \in Block(c)
        /\ Shown(cond_null_terminate(Write(head, m, xs), n), n)
    <3>1. xs \in Seq(Alphabet) /\ Len(xs) \in Nat /\ m <= c /\ m <= m /\ m + Len(xs) <= c
          /\ n <= m + Len(xs) /\ n <= n /\ n < c
      BY <1>4, <2>1, <2>3, <2>6
    <3> HIDE DEF xs
    <3> QED
      BY <2>1, <2>7, <3>1, DoneShown
  <2>9. there = Write(head, m, xs)
    BY <2>6
  <2> HIDE DEF there, xs
  <2> QED
    BY <2>1, <2>8, <2>9, SoundOf
<1> HIDE DEF here, there
<1>9. ASSUME n >= Cap(st.s)
      PROVE  Sound(Overflow(realloc, st, InBlock(st, cond_null_terminate(there, n), n)))
  BY <1>8, <1>9, SoundOverflow
<1> QED
  BY <1>1, <1>6, <1>7, <1>9

\* A position behind the end is refused.
LEMMA ReplaceRefuses ==
  ASSUME NEW realloc, NEW pinned, NEW st, Made(realloc, pinned, st), Sound(st),
         NEW pos \in Nat, pos > st.size, NEW old, NEW new, NEW src
  PROVE  Sound(replace_aux(realloc, st, pos, old, new, src))
<1>1. replace_aux(realloc, st, pos, old, new, src) = Refused(st, "out_of_range")
  BY DEF replace_aux
<1> QED
  BY <1>1, SoundRefused

LEMMA EraseSound ==
  ASSUME NEW realloc, NEW pinned, NEW st, Made(realloc, pinned, st), Sound(st),
         NEW index \in Nat, index <= st.size, NEW count \in Nat
  PROVE  Sound(erase(st, index, count))
<1>1. /\ Cap(st.s) \in Lengths /\ Cap(st.s) \in Nat /\ st.s \in Block(Cap(st.s))
      /\ st.size \in Nat /\ st.size < Cap(st.s) /\ Shown(st.s, st.size)
  BY OfSound
<1>2. PICK room \in Nat : room = st.size - index
  BY <1>1
<1>3. PICK c \in Nat : c = (IF count < room THEN count ELSE room) /\ c <= room
  BY <1>2
<1>4. PICK rpos \in Nat, n \in Nat, tail \in Nat :
        rpos = index + c /\ n = st.size - c /\ tail = st.size - rpos
  BY <1>1, <1>2, <1>3
<1>5. room \in Lengths /\ rpos \in Lengths /\ n \in Lengths
  <2>1. st.size \in 0 .. MaxLength /\ MaxLength \in Nat
    BY OfSound, Truncated DEF Lengths
  <2>2. room <= st.size /\ rpos <= st.size /\ n <= st.size
    BY <1>1, <1>2, <1>3, <1>4
  <2> QED
    BY <2>1, <2>2 DEF Lengths
<1>6. ToLength(st.size - index) = room /\ ToLength(index + c) = rpos /\ ToLength(st.size - c) = n
  BY <1>2, <1>4, <1>5, Truncated
<1>7. erase(st, index, count)
        = InPlace(st, cond_null_terminate(Write(st.s, index, Chars(st.s, rpos, tail)), n), n)
  BY <1>3, <1>4, <1>6 DEF erase, CopyWithin
<1> DEFINE xs == Chars(st.s, rpos, tail)
<1>8. xs \in Seq(Alphabet) /\ Len(xs) = tail
  <2>1. rpos + tail <= st.size
    BY <1>1, <1>4
  <2> QED
    BY <2>1, SoundChars
<1> HIDE DEF xs
<1>9. /\ st.size <= Cap(st.s) /\ Len(xs) \in Nat /\ index + Len(xs) <= Cap(st.s)
      /\ n <= st.size /\ n <= n /\ n < Cap(st.s)
  BY <1>1, <1>2, <1>3, <1>4, <1>8
<1>10. /\ cond_null_terminate(Write(st.s, index, xs), n) \in Block(Cap(st.s))
       /\ Shown(cond_null_terminate(Write(st.s, index, xs), n), n)
  BY <1>1, <1>8, <1>9, DoneShown
<1> QED
  BY <1>1, <1>7, <1>10, SoundOf DEF xs

LEMMA PopBackSound ==
  ASSUME NEW realloc, NEW pinned, NEW st, Made(realloc, pinned, st), Sound(st), st.size > 0
  PROVE  Sound(pop_back(st))
<1>1. /\ Cap(st.s) \in Lengths /\ Cap(st.s) \in Nat /\ st.s \in Block(Cap(st.s))
      /\ st.size \in Nat /\ st.size < Cap(st.s) /\ Shown(st.s, st.size)
  BY OfSound
<1>2. PICK n \in Nat : n = st.size - 1
  BY <1>1
<1>3. ToLength(st.size - 1) = n
  <2>1. n \in Lengths
    BY <1>1, <1>2, Truncated DEF Lengths
  <2> QED
    BY <1>2, <2>1, Truncated
<1>4. /\ cond_null_terminate(st.s, n) \in Block(Cap(st.s))
      /\ Shown(cond_null_terminate(st.s, n), n)
  <2>1. n < Cap(st.s) /\ n <= n /\ Shown(st.s, n)
    BY <1>1, <1>2 DEF Shown
  <2> QED
    BY <1>1, <2>1, TerminateShown
<1> QED
  BY <1>1, <1>3, <1>4, SoundOf DEF pop_back

-------------------------------------------------------------------------------
(* find_and_replace: induction over its rounds *)

LEMMA Least ==
  ASSUME NEW S \in SUBSET Nat, S # {}
  PROVE  \E i \in S : \A j \in S : i <= j
<1> DEFINE R == OpToRel(<, Nat)
<1>1. IsWellFoundedOn(R, Nat)
  BY NatLessThanWellFounded, Zenon
<1>2. \A m, n \in Nat : m < n => <<m, n>> \in R
  BY DEF OpToRel
<1> HIDE DEF R
<1>3. PICK i \in S : \A j \in S : ~(<<j, i>> \in R)
  BY <1>1, WFMin
<1>4. \A j \in S : ~(j < i)
  BY <1>2, <1>3
<1> QED
  BY <1>4

\* Induction over the numbers, for a set.
LEMMA SetInduction ==
  ASSUME NEW T, 0 \in T, \A n \in Nat : n \in T => n + 1 \in T
  PROVE  \A n \in Nat : n \in T
<1> DEFINE U == Nat \ T
<1>1. SUFFICES ASSUME U # {} PROVE FALSE
  OBVIOUS
<1>2. PICK n \in U : \A m \in U : n <= m
  BY <1>1, Least
<1>3. n # 0 /\ n - 1 \in Nat /\ ~(n <= n - 1) /\ (n - 1) + 1 = n
  BY <1>2
<1> QED
  BY <1>2, <1>3

\* A step on a set can be repeated any number of times.
LEMMA Repeated ==
  ASSUME NEW A, NEW a \in A, NEW step \in [A -> A]
  PROVE  \E f \in [Nat -> A] : f[0] = a /\ \A n \in Nat : f[n + 1] = step[f[n]]
<1> DEFINE Starts(n, g) == g[0] = a /\ \A i \in 1 .. n : g[i] = step[g[i - 1]]
           T == {n \in Nat : \E g \in [0 .. n -> A] : Starts(n, g)}
<1>1. 0 \in T
  <2>1. [i \in 0 .. 0 |-> a] \in [0 .. 0 -> A]
    OBVIOUS
  <2>2. Starts(0, [i \in 0 .. 0 |-> a])
    OBVIOUS
  <2> QED
    BY <2>1, <2>2
<1>2. ASSUME NEW n \in Nat, n \in T PROVE n + 1 \in T
  <2>1. PICK g \in [0 .. n -> A] : Starts(n, g)
    BY <1>2
  <2> DEFINE h == [i \in 0 .. n + 1 |-> IF i = n + 1 THEN step[g[n]] ELSE g[i]]
  <2>2. h \in [0 .. n + 1 -> A]
    OBVIOUS
  <2>3. h[0] = a /\ h[n + 1] = step[h[n]]
    BY <2>1
  <2>4. \A i \in 1 .. n : h[i] = step[h[i - 1]]
    BY <2>1
  <2>5. Starts(n + 1, h)
    <3> HIDE DEF h
    <3>1. \A i \in 1 .. n + 1 : i = n + 1 \/ i \in 1 .. n
      OBVIOUS
    <3>2. (n + 1) - 1 = n
      OBVIOUS
    <3> QED
      BY <2>3, <2>4, <3>1, <3>2
  <2>6. n + 1 \in Nat
    OBVIOUS
  <2> HIDE DEF h, Starts
  <2> QED
    BY <2>2, <2>5, <2>6
<1>3. \A n \in Nat : n \in T
  <2> HIDE DEF T
  <2> QED
    BY <1>1, <1>2, SetInduction
<1> DEFINE G == [n \in Nat |-> CHOOSE g \in [0 .. n -> A] : Starts(n, g)]
<1>4. ASSUME NEW n \in Nat PROVE G[n] \in [0 .. n -> A] /\ Starts(n, G[n])
  BY <1>3
<1>5. ASSUME NEW m \in Nat PROVE \A n \in Nat : m <= n => G[n][m] = G[m][m]
  <2> DEFINE V == {k \in Nat : \A n \in Nat : k <= n => G[n][k] = G[k][k]}
  <2> HIDE DEF G
  <2>1. 0 \in V
    BY <1>4
  <2>2. ASSUME NEW k \in Nat, k \in V PROVE k + 1 \in V
    <3> SUFFICES ASSUME NEW n \in Nat, k + 1 <= n PROVE G[n][k + 1] = G[k + 1][k + 1]
      OBVIOUS
    <3>1. k <= n /\ k + 1 \in 1 .. n /\ k + 1 \in 1 .. k + 1 /\ (k + 1) - 1 = k /\ k <= k + 1 /\ k + 1 \in Nat
      OBVIOUS
    <3>2. G[n][k + 1] = step[G[n][k]] /\ G[k + 1][k + 1] = step[G[k + 1][k]]
      BY <1>4, <3>1
    <3>3. G[n][k] = G[k][k] /\ G[k + 1][k] = G[k][k]
      BY <2>2, <3>1
    <3> QED
      BY <3>2, <3>3
  <2>3. m \in V
    <3> HIDE DEF V
    <3> QED
      BY <2>1, <2>2, SetInduction
  <2> QED
    BY <2>3
<1> HIDE DEF G
<1> DEFINE f == [n \in Nat |-> G[n][n]]
<1>6. f \in [Nat -> A]
  BY <1>4
<1>7. ASSUME NEW n \in Nat PROVE f[n] = IF n = 0 THEN a ELSE step[f[n - 1]]
  <2>1. CASE n = 0
    BY <1>4, <2>1
  <2>2. CASE n # 0
    <3>1. n - 1 \in Nat /\ n - 1 <= n /\ n \in 1 .. n
      BY <2>2
    <3>2. G[n][n] = step[G[n][n - 1]]
      BY <1>4, <3>1
    <3>3. G[n][n - 1] = G[n - 1][n - 1]
      BY <1>5, <3>1
    <3> QED
      BY <2>2, <3>1, <3>2, <3>3
  <2> QED
    BY <2>1, <2>2
<1> HIDE DEF f
<1>8. f[0] = a
  BY <1>7
<1>9. ASSUME NEW n \in Nat PROVE f[n + 1] = step[f[n]]
  <2>1. n + 1 \in Nat /\ n + 1 # 0 /\ (n + 1) - 1 = n
    OBVIOUS
  <2> QED
    BY <1>7, <2>1
<1> QED
  BY <1>6, <1>8, <1>9

LEMMA FindLength ==
  ASSUME NEW st, st.size \in Lengths, NEW what \in Seq(Letters), NEW pos \in Nat
  PROVE  find(st, what, pos) \in Lengths
<1> DEFINE found == {i \in pos .. st.size - Len(what) : Chars(st.s, i, Len(what)) = what}
<1>1. st.size \in Nat /\ Len(what) \in Nat /\ st.size <= MaxLength /\ MaxLength \in Nat
  BY Truncated DEF Lengths
<1>2. found \in SUBSET Nat /\ \A i \in found : i \in Lengths
  BY <1>1 DEF Lengths
<1>3. find(st, what, pos)
        = IF found = {} THEN npos ELSE CHOOSE i \in found : \A j \in found : i <= j
  BY DEF find
<1> HIDE DEF found
<1>4. found # {} => (CHOOSE i \in found : \A j \in found : i <= j) \in found
  BY <1>2, Least
<1> QED
  BY <1>2, <1>3, <1>4, Truncated

\* The rounds, and what each of them leaves.
Rounds(rounds, realloc, pinned, st, what, with) ==
  /\ rounds[0] = [st |-> st, fpos |-> find(st, what, 0)]
  /\ \A n \in Nat : /\ rounds[n + 1] = Round(realloc, what, with, rounds[n])
                    /\ Made(realloc, pinned, rounds[n].st) /\ rounds[n].fpos \in Lengths
  /\ find_and_replace(realloc, st, what, with) = IF what = <<>> THEN st ELSE rounds[st.size].st

LEMMA FindRounds ==
  ASSUME NEW realloc, NEW pinned, NEW st, Made(realloc, pinned, st), st.s # Lost,
         NEW what, what \in Seq(Letters), NEW with, with \in Seq(Letters)
  PROVE  \E rounds : Rounds(rounds, realloc, pinned, st, what, with)
<1> DEFINE Storages == {t \in [out : Results, dyn : BOOLEAN, new : BOOLEAN, size : Lengths,
                               s : UNION {Mem(c) : c \in Lengths}] : Made(realloc, pinned, t)}
           A == [st : Storages, fpos : Lengths]
           first == [st |-> st, fpos |-> find(st, what, 0)]
           step == [acc \in A |-> Round(realloc, what, with, acc)]
           rounds[n \in Nat] == IF n = 0 THEN first ELSE Round(realloc, what, with, rounds[n - 1])
<1>1. ASSUME NEW t, Made(realloc, pinned, t) PROVE t \in Storages
  <2>1. t = [out |-> t.out, dyn |-> t.dyn, new |-> t.new, size |-> t.size, s |-> t.s]
        /\ t.out \in Results /\ t.dyn \in BOOLEAN /\ t.new \in BOOLEAN /\ t.size \in Lengths
    BY <1>1 DEF Made
  <2>2. t.s \in UNION {Mem(c) : c \in Lengths}
    BY <1>1 DEF Made
  <2> QED
    BY <1>1, <2>1, <2>2
<1>2. \A t \in Storages : Made(realloc, pinned, t) /\ t.size \in Lengths
  BY DEF Made
<1> HIDE DEF Storages
<1>3. first \in A
  <2>1. find(st, what, 0) \in Lengths
    BY FindLength DEF Made
  <2> QED
    BY <1>1, <2>1
<1>4. ASSUME NEW acc \in A PROVE Round(realloc, what, with, acc) \in A
  <2> DEFINE t == replace_copy(realloc, acc.st, acc.fpos, Len(what), Foreign(with))
             p == ToLength(acc.fpos + Len(with))
  <2>0. Round(realloc, what, with, acc)
          = IF acc.fpos = npos \/ acc.st.out # "ok" \/ acc.st.s = Lost THEN acc
            ELSE [st |-> t, fpos |-> IF t.s = Lost THEN npos ELSE find(t, what, p)]
    BY DEF Round
  <2>1. CASE acc.fpos = npos \/ acc.st.out # "ok" \/ acc.st.s = Lost
    BY <2>0, <2>1
  <2>2. CASE ~(acc.fpos = npos \/ acc.st.out # "ok" \/ acc.st.s = Lost)
    <3>1. /\ Made(realloc, pinned, acc.st) /\ acc.st.s # Lost /\ acc.fpos \in Lengths
          /\ Source(Foreign(with))
      BY <1>2, <2>2 DEF Source
    <3>2. acc.fpos \in Int /\ acc.fpos \in Nat
      BY <3>1, Truncated
    <3>3. Len(what) \in Int /\ Len(with) \in Nat /\ 0 \in Nat
      OBVIOUS
    <3>4. Distance(Foreign(with)) \in Int
      <4>1. Distance(Foreign(with)) = ToLength(Len(with)) /\ Len(with) \in Int
        BY DEF Distance, Foreign
      <4> QED
        BY <4>1, Truncated
    <3>5. t = replace_aux(realloc, acc.st, acc.fpos, Len(what), Distance(Foreign(with)), Foreign(with))
      BY DEF replace_copy
    <3> HIDE DEF t
    <3>6. Made(realloc, pinned, t)
      BY <3>1, <3>2, <3>3, <3>4, <3>5, ReplaceMade
    <3>7. p \in Nat
      <4>1. acc.fpos + Len(with) \in Int
        BY <3>2, <3>3
      <4> QED
        BY <4>1, Truncated
    <3> HIDE DEF p
    <3>8. find(t, what, p) \in Lengths /\ npos \in Lengths
      BY <3>6, <3>7, FindLength, Truncated DEF Made
    <3> QED
      BY <1>1, <2>0, <2>2, <3>6, <3>8
  <2> QED
    BY <2>1, <2>2
<1> HIDE DEF A, first
<1>5. step \in [A -> A]
  BY <1>4
<1> HIDE DEF step, rounds
<1>5a. first \in A /\ step \in [A -> A]
  BY <1>3, <1>5
<1>6. PICK f \in [Nat -> A] : f[0] = first /\ \A n \in Nat : f[n + 1] = step[f[n]]
  BY ONLY <1>5a, Repeated
<1>7. f = [n \in Nat |-> IF n = 0 THEN first ELSE Round(realloc, what, with, f[n - 1])]
  <2>1. ASSUME NEW n \in Nat, n # 0 PROVE f[n] = Round(realloc, what, with, f[n - 1])
    <3>0. n - 1 \in Nat /\ (n - 1) + 1 = n
      BY <2>1
    <3>1. n - 1 \in Nat /\ f \in [Nat -> A] /\ f[n] = step[f[n - 1]]
      BY <1>6, <3>0
    <3>2. f[n - 1] \in A
      BY <3>1
    <3> QED
      BY <3>1, <3>2 DEF step
  <2>2. \A n \in Nat : f[n] = IF n = 0 THEN first ELSE Round(realloc, what, with, f[n - 1])
    BY <1>6, <2>1
  <2>3. f \in [Nat -> A]
    BY <1>6
  <2> QED
    BY <2>2, <2>3
<1> HIDE DEF step
<1>8. rounds = [n \in Nat |-> IF n = 0 THEN first ELSE Round(realloc, what, with, rounds[n - 1])]
  BY <1>7 DEF rounds
<1>9. find_and_replace(realloc, st, what, with) = IF what = <<>> THEN st ELSE rounds[st.size].st
  BY DEF find_and_replace, first, rounds
<1> HIDE DEF rounds
<1> DEFINE T == {n \in Nat : rounds[n] \in A}
<1>10. rounds[0] = first /\ 0 \in T
  BY <1>3, <1>8
<1>11. ASSUME NEW n \in Nat
       PROVE  rounds[n + 1] = Round(realloc, what, with, rounds[n]) /\ (n \in T => n + 1 \in T)
  <2>1. n + 1 # 0 /\ (n + 1) - 1 = n /\ n + 1 \in Nat
    OBVIOUS
  <2>2. rounds[n + 1] = Round(realloc, what, with, rounds[n])
    BY <1>8, <2>1
  <2> QED
    BY <1>4, <2>1, <2>2
<1>12. \A n \in Nat : rounds[n] \in A
  <2>1. \A n \in Nat : n \in T
    <3> HIDE DEF T
    <3> QED
      BY <1>10, <1>11, SetInduction
  <2> QED
    BY <2>1
<1>13. ASSUME NEW n \in Nat
       PROVE  Made(realloc, pinned, rounds[n].st) /\ rounds[n].fpos \in Lengths
  BY <1>2, <1>12 DEF A
<1>14. rounds[0] = [st |-> st, fpos |-> find(st, what, 0)]
  BY <1>10 DEF first
<1>15. Rounds(rounds, realloc, pinned, st, what, with)
  BY <1>9, <1>11, <1>13, <1>14 DEF Rounds
<1> QED
  BY <1>15

LEMMA FindAndReplaceMade ==
  ASSUME NEW realloc, NEW pinned, NEW st, Made(realloc, pinned, st), st.s # Lost,
         NEW what, what \in Seq(Letters), NEW with, with \in Seq(Letters)
  PROVE  Made(realloc, pinned, find_and_replace(realloc, st, what, with))
<1>1. PICK rounds : Rounds(rounds, realloc, pinned, st, what, with)
  BY FindRounds
<1>2. st.size \in Nat
  BY OfMade, Truncated
<1> QED
  BY <1>1, <1>2 DEF Rounds

\* Where find() finds anything.
LEMMA FindBounds ==
  ASSUME NEW st, st.size \in Nat, NEW what, Len(what) \in Nat, NEW pos \in Nat,
         find(st, what, pos) # npos
  PROVE  /\ find(st, what, pos) \in Nat /\ pos <= find(st, what, pos)
         /\ find(st, what, pos) + Len(what) <= st.size
<1> DEFINE found == {i \in pos .. st.size - Len(what) : Chars(st.s, i, Len(what)) = what}
<1>1. /\ find(st, what, pos)
           = IF found = {} THEN npos ELSE CHOOSE i \in found : \A j \in found : i <= j
      /\ found \in SUBSET Nat
      /\ \A i \in found : i \in Nat /\ pos <= i /\ i + Len(what) <= st.size
  BY DEF find
<1> HIDE DEF found
<1>2. found # {}
  BY <1>1
<1>3. (CHOOSE i \in found : \A j \in found : i <= j) \in found
  BY <1>1, <1>2, Least
<1> QED
  BY <1>1, <1>2, <1>3

LEMMA ReplaceSize ==
  ASSUME NEW realloc, NEW pinned, NEW st, Made(realloc, pinned, st), NEW pos, NEW old, NEW new,
         NEW src
  PROVE  replace_aux(realloc, st, pos, old, new, src).size
           \in {st.size, ToLength(st.size - old + new)}
<1>1. Refused(st, "out_of_range").size = st.size /\ Refused(st, "length_error").size = st.size
  BY DEF Refused, Made
<1>2. \A s, n : InPlace(st, s, n).size = n /\ InBlock(st, s, n).size = n
  BY DEF InPlace, InBlock
<1>3. \A s, n : Overflow(realloc, st, InBlock(st, s, n)).size \in {st.size, n}
  BY <1>1, <1>2 DEF Overflow
<1> QED
  BY <1>1, <1>2, <1>3, Zenon DEF replace_aux

\* The rounds before acc have replaced some of the n0 characters there were, and
\* what is found next is behind what they have put in.
Replaced(n0, what, with, acc) ==
  \E j, p, q \in Nat :
    /\ p = j * Len(with) /\ q = j * Len(what)
    /\ acc.st.size + q = n0 + p
    /\ acc.fpos # npos => p <= acc.fpos /\ acc.fpos + Len(what) <= acc.st.size

\* No more than n0 \div l ranges of l characters are replaced.
LEMMA Replaceable ==
  ASSUME NEW n0 \in Nat, NEW l \in Nat \ {0}, NEW k \in Nat, k * l <= n0, NEW d \in Nat
  PROVE  k * d <= (n0 \div l) * d /\ n0 \div l \in Nat
<1>1. PICK q \in Nat, r \in Nat : q = n0 \div l /\ n0 = q * l + r /\ r < l
  OBVIOUS
<1>2. k <= q
  <2> SUFFICES ASSUME q + 1 <= k PROVE FALSE
    BY <1>1
  <2>1. PICK e \in Nat : k = q + 1 + e
    <3>1. k - (q + 1) \in Nat /\ k = q + 1 + (k - (q + 1))
      BY <1>1
    <3> QED
      BY <3>1
  <2>2. k * l = q * l + l + e * l /\ e * l \in Nat
    BY <1>1, <2>1
  <2>3. q * l \in Nat /\ k * l \in Nat
    BY <1>1
  <2> QED
    BY <1>1, <2>2, <2>3
<1>3. PICK e \in Nat : q = k + e
  <2>1. q - k \in Nat /\ q = k + (q - k)
    BY <1>1, <1>2
  <2> QED
    BY <2>1
<1>4. q * d = k * d + e * d /\ e * d \in Nat /\ k * d \in Nat
  BY <1>3
<1> QED
  BY <1>1, <1>4

LEMMA RoomBelow ==
  ASSUME NEW realloc, NEW n \in Nat, NEW m \in Nat, m <= n, Room(realloc, n)
  PROVE  Room(realloc, m)
<1>1. MaxLength \in Nat
  BY LengthAssumption
<1>2. CASE CharSize = 1
  BY <1>1, <1>2 DEF Room
<1>3. CASE CharSize = 2
  BY <1>1, <1>3 DEF Room
<1>4. CASE CharSize = 4
  BY <1>1, <1>4 DEF Room
<1> QED
  BY <1>2, <1>3, <1>4, LengthAssumption

\* The sizes before and after a round that replaces l characters by m.
LEMMA RoundSizes ==
  ASSUME NEW z \in Nat, NEW l \in Nat, NEW m \in Nat, NEW p \in Nat, NEW q \in Nat,
         NEW n0 \in Nat, NEW fpos \in Nat, z + q = n0 + p, p <= fpos, fpos + l <= z
  PROVE  /\ z - l + m \in Nat /\ (z - l + m) + q + l = n0 + p + m /\ q + l <= n0
         /\ fpos + m <= z - l + m /\ m <= z - l + m
OBVIOUS

LEMMA RoundSound ==
  ASSUME NEW realloc, NEW pinned, NEW acc, Made(realloc, pinned, acc.st), Sound(acc.st),
         acc.fpos \in Lengths, NEW n0 \in Nat,
         NEW what, what \in Seq(Alphabet), NEW l \in Nat \ {0}, Len(what) = l,
         NEW with, with \in Seq(Alphabet), NEW m \in Nat, Len(with) = m,
         l <= m => Room(realloc, n0 + (n0 \div l) * (m - l)),
         Replaced(n0, what, with, acc)
  PROVE  /\ Sound(Round(realloc, what, with, acc).st)
         /\ Replaced(n0, what, with, Round(realloc, what, with, acc))
<1> DEFINE st == acc.st
           fpos == acc.fpos
           t == replace_copy(realloc, st, fpos, l, Foreign(with))
           next == ToLength(fpos + m)
<1>0. Round(realloc, what, with, acc)
        = IF fpos = npos \/ st.out # "ok" \/ st.s = Lost THEN acc
          ELSE [st |-> t, fpos |-> IF t.s = Lost THEN npos ELSE find(t, what, next)]
  BY DEF Round
<1>1. CASE fpos = npos \/ st.out # "ok" \/ st.s = Lost
  BY <1>0, <1>1
<1>2. CASE ~(fpos = npos \/ st.out # "ok" \/ st.s = Lost)
  <2>1. PICK j \in Nat, p \in Nat, q \in Nat :
          /\ p = j * m /\ q = j * l /\ st.size + q = n0 + p /\ p <= fpos /\ fpos + l <= st.size
    BY <1>2 DEF Replaced
  <2>2. /\ st.size \in Nat /\ st.size \in Lengths /\ st.size < Cap(st.s) /\ Cap(st.s) \in Nat
        /\ fpos \in Nat
    BY OfSound, Truncated
  <2> HIDE DEF st, fpos
  <2>l. PICK z \in Nat : z = st.size /\ z + q = n0 + p /\ p <= fpos /\ fpos + l <= z
    BY <2>1, <2>2
  <2>3. PICK k \in Nat : k = j + 1
    BY <2>1
  <2>4. k * m = p + m /\ k * l = q + l /\ k * m \in Nat /\ k * l \in Nat /\ k * l <= n0
    <3>1. k * m = j * m + m /\ k * l = j * l + l /\ k * m \in Nat /\ k * l \in Nat
      BY <2>3
    <3>2. q + l <= n0
      BY <2>2, <2>l
    <3> QED
      BY <2>1, <3>1, <3>2
  <2>5. PICK n \in Nat : n = st.size - l + m /\ n + q + l = n0 + p + m
                            /\ fpos + m <= n /\ m <= n
    <3>1. /\ z - l + m \in Nat /\ (z - l + m) + q + l = n0 + p + m
          /\ fpos + m <= z - l + m /\ m <= z - l + m
      <4>1. /\ z \in Nat /\ l \in Nat /\ m \in Nat /\ p \in Nat /\ q \in Nat /\ n0 \in Nat
            /\ fpos \in Nat /\ z + q = n0 + p /\ p <= fpos /\ fpos + l <= z
        BY <2>2, <2>l
      <4> QED
        BY ONLY <4>1, RoundSizes
    <3> QED
      BY <2>l, <3>1
  <2>6. Roomy(realloc, st, n)
    <3>1. CASE l <= m
      <4>1. PICK d \in Nat : d = m - l
        BY <3>1
      <4>2. k * d <= (n0 \div l) * d /\ n0 \div l \in Nat
        BY <2>4, Replaceable
      <4>3. PICK e \in Nat : e = (n0 \div l) * d
        BY <4>2
      <4>4. k * d = k * m - k * l
        BY <4>1
      <4>5. n <= n0 + e /\ n0 + e \in Nat
        <5>1. PICK f \in Nat : f = k * d /\ f <= e
          BY <4>2, <4>3
        <5>2. f = (p + m) - (q + l)
          BY <2>4, <4>4, <5>1
        <5> QED
          BY <2>5, <5>1, <5>2
      <4>6. Room(realloc, n0 + e)
        BY <3>1, <4>1, <4>3
      <4> QED
        BY <4>5, <4>6, RoomBelow DEF Roomy
    <3>2. CASE ~(l <= m)
      BY <2>2, <2>5, <3>2 DEF Roomy
    <3> QED
      BY <3>1, <3>2
  <2>7. n \in Lengths /\ ToLength(n) = n
    BY <2>6, RoomyGrows DEF st, Sound
  <2>8. m \in Lengths /\ ToLength(m) = m /\ ToLength(Len(with)) = m
    <3>1. m <= n
      BY <2>2, <2>5
    <3>2. m \in Lengths
      BY <2>7, <3>1, Truncated DEF Lengths
    <3> QED
      BY <3>2, Truncated
  <2>9. Distance(Foreign(with)) = m /\ Supplies(Foreign(with), st, m)
    <3>1. Distance(Foreign(with)) = m
      BY <2>8 DEF Distance, Foreign
    <3> QED
      BY <3>1 DEF Supplies
  <2>10. t = replace_aux(realloc, st, fpos, l, m, Foreign(with))
    BY <2>9 DEF replace_copy
  <2>11. Sound(t)
    <3>1. Made(realloc, pinned, st) /\ Sound(st) /\ Roomy(realloc, st, st.size - l + m)
      BY <2>5, <2>6 DEF st
    <3> QED
      BY <2>1, <2>2, <2>9, <2>10, <3>1, ReplaceSound
  <2>12. t.size \in {st.size, n}
    <3>1. t.size \in {st.size, ToLength(st.size - l + m)}
      BY <2>10, ReplaceSize DEF st
    <3> QED
      BY <2>5, <2>7, <3>1
  <2>13. next = fpos + m /\ next \in Nat
    <3>1. fpos + m <= n /\ fpos + m \in Nat
      BY <2>2, <2>5
    <3>2. fpos + m \in Lengths
      BY <2>7, <3>1, Truncated DEF Lengths
    <3> QED
      BY <3>1, <3>2, Truncated
  <2> HIDE DEF t, next
  <2>14. PICK r : r = Round(realloc, what, with, acc)
    OBVIOUS
  <2>15. r.st = t /\ r.fpos = find(t, what, next)
    <3>1. t.s # Lost
      BY <2>11 DEF Sound
    <3> QED
      BY <1>0, <1>2, <2>14, <3>1
  <2>16. r.fpos # npos => next <= r.fpos /\ r.fpos + l <= t.size /\ r.fpos \in Nat
    <3>1. t.size \in Nat
      BY <2>2, <2>12
    <3> QED
      BY <2>13, <2>15, <3>1, FindBounds
  <2>17. Replaced(n0, what, with, r)
    <3>1. CASE t.size = st.size
      <4>1. r.fpos # npos => p <= r.fpos
        BY <2>2, <2>13, <2>16, <2>l
      <4> QED
        BY <2>1, <2>15, <2>16, <3>1, <4>1 DEF Replaced
    <3>2. CASE t.size = n
      <4>1. PICK p1 \in Nat, q1 \in Nat : p1 = k * m /\ q1 = k * l /\ p1 = p + m /\ q1 = q + l
        BY <2>4
      <4>2. t.size + q1 = n0 + p1
        <5>1. q1 = q + l /\ p1 = p + m
          BY <4>1
        <5> QED
          BY <2>5, <3>2, <5>1
      <4>3. r.fpos # npos => p1 <= r.fpos
        <5>1. p1 = p + m
          BY <4>1
        <5> QED
          BY <2>2, <2>13, <2>16, <2>l, <5>1
      <4> QED
        BY <2>15, <2>16, <4>1, <4>2, <4>3 DEF Replaced
    <3> QED
      BY <2>12, <3>1, <3>2
  <2> QED
    BY <2>11, <2>14, <2>15, <2>17
<1> QED
  BY <1>1, <1>2

LEMMA FindAndReplaceSound ==
  ASSUME NEW realloc, NEW pinned, NEW st, Made(realloc, pinned, st), Sound(st),
         NEW what, what \in Seq(Alphabet), NEW with, with \in Seq(Alphabet),
         Len(what) \in 1 .. Len(with) =>
           Room(realloc, st.size + (st.size \div Len(what)) * (Len(with) - Len(what)))
  PROVE  Sound(find_and_replace(realloc, st, what, with))
<1>1. what \in Seq(Letters) /\ with \in Seq(Letters) /\ st.s # Lost
  BY LettersOf DEF Sound
<1>2. PICK rounds : Rounds(rounds, realloc, pinned, st, what, with)
  BY <1>1, FindRounds
<1>3. CASE what = <<>>
  BY <1>2, <1>3 DEF Rounds
<1>4. CASE what # <<>>
  <2>1. PICK l \in Nat \ {0} : l = Len(what)
    BY <1>4
  <2>2. PICK m \in Nat : m = Len(with)
    OBVIOUS
  <2>3. PICK n0 \in Nat : n0 = st.size
    BY OfSound
  <2>4. l <= m => Room(realloc, n0 + (n0 \div l) * (m - l))
    BY <2>1, <2>2, <2>3
  <2> DEFINE T == {n \in Nat : Sound(rounds[n].st) /\ Replaced(n0, what, with, rounds[n])}
  <2>5. 0 \in T
    <3>0. rounds[0] = [st |-> st, fpos |-> find(st, what, 0)]
      BY <1>2 DEF Rounds
    <3>1. PICK acc : acc = rounds[0] /\ acc.st = st /\ acc.fpos = find(st, what, 0)
      BY <3>0
    <3>2. acc.fpos # npos => 0 <= acc.fpos /\ acc.fpos + l <= st.size
      BY <2>1, <2>3, <3>1, FindBounds
    <3>3. 0 = 0 * m /\ 0 = 0 * l /\ st.size + 0 = n0 + 0 /\ 0 \in Nat
      BY <2>3
    <3>4. Replaced(n0, what, with, acc)
      BY <2>1, <2>2, <3>1, <3>2, <3>3 DEF Replaced
    <3> QED
      BY <3>1, <3>4
  <2>6. ASSUME NEW n \in Nat, n \in T PROVE n + 1 \in T
    <3>1. PICK acc : acc = rounds[n]
      OBVIOUS
    <3>2. /\ rounds[n + 1] = Round(realloc, what, with, acc)
          /\ Made(realloc, pinned, acc.st) /\ acc.fpos \in Lengths
      BY <1>2, <3>1 DEF Rounds
    <3>3. Sound(acc.st) /\ Replaced(n0, what, with, acc)
      BY <2>6, <3>1
    <3>4. /\ Sound(Round(realloc, what, with, acc).st)
          /\ Replaced(n0, what, with, Round(realloc, what, with, acc))
      BY <2>1, <2>2, <2>4, <3>2, <3>3, RoundSound
    <3>5. n + 1 \in Nat
      OBVIOUS
    <3> QED
      BY <3>2, <3>4, <3>5
  <2>7. \A n \in Nat : n \in T
    <3> HIDE DEF T
    <3> QED
      BY <2>5, <2>6, SetInduction
  <2>8. Sound(rounds[n0].st)
    BY <2>7
  <2> QED
    BY <1>2, <1>4, <2>3, <2>8 DEF Rounds
<1> QED
  BY <1>3, <1>4

-------------------------------------------------------------------------------
(* the terminator *)

\* Two blocks with the same characters.
LEMMA CharsSame ==
  ASSUME NEW c \in Lengths, NEW s \in Block(c), NEW d \in Lengths, NEW t \in Block(d),
         NEW n \in Nat, n <= c, n <= d, \A i \in 0 .. n - 1 : t[i] = s[i]
  PROVE  Chars(t, 0, n) = Chars(s, 0, n)
<1>1. c \in Nat /\ d \in Nat /\ Cap(s) = c /\ Cap(t) = d /\ s # Lost /\ t # Lost
  BY Truncated, BlockCap
<1>2. Inside(s, 0, n) /\ Inside(t, 0, n)
  BY <1>1 DEF Inside
<1>3. [i \in 1 .. n |-> t[0 + i - 1]] = [i \in 1 .. n |-> s[0 + i - 1]]
  <2>1. \A i \in 1 .. n : 0 + i - 1 \in 0 .. n - 1
    OBVIOUS
  <2> QED
    BY <2>1
<1> QED
  BY <1>2, <1>3 DEF Chars

\* The storage is terminated, or the call has thrown and left it alone.
Closes(st, r) ==
  \/ \E x : r.s = cond_null_terminate(x, r.size)
  \/ r.out # "ok" /\ r.s = st.s /\ r.size = st.size

\* Storage that has been terminated ends with the terminator.
LEMMA Terminated ==
  ASSUME NEW realloc, NEW pinned, NEW st, Made(realloc, pinned, st), st.s # Lost,
         NEW x, st.s = cond_null_terminate(x, st.size)
  PROVE  st.size \in DOMAIN st.s /\ st.s[st.size] = Nul
<1> DEFINE n == st.size
<1>1. /\ Cap(st.s) \in Nat /\ st.s \in Block(Cap(st.s)) /\ n < Cap(st.s) /\ n \in Nat
  BY OfMade, Truncated
<1>2. DOMAIN st.s = 0 .. Cap(st.s) - 1
  BY <1>1, BlockCap
<1>3. st.s = [i \in DOMAIN x |-> IF i \in n .. n + Len(<<Nul>>) - 1 THEN <<Nul>>[i - n + 1] ELSE x[i]]
  BY DEF cond_null_terminate, Write
<1>4. n \in DOMAIN x /\ n \in DOMAIN st.s
  BY <1>1, <1>2, <1>3
<1>5. n \in n .. n + Len(<<Nul>>) - 1 /\ n - n + 1 = 1
  BY <1>1
<1> QED
  BY <1>3, <1>4, <1>5

LEMMA TerminateNul ==
  ASSUME NEW c \in Lengths, NEW s \in Block(c), NEW n \in Nat, n < c
  PROVE  cond_null_terminate(s, n)[n] = Nul
<1>1. c \in Nat /\ DOMAIN s = 0 .. c - 1 /\ n \in 0 .. c - 1
  BY Truncated, BlockCap
<1>2. cond_null_terminate(s, n) \in Block(c)
  BY TerminateInside
<1>3. cond_null_terminate(s, n) # Lost
  BY <1>1, <1>2, BlockCap
<1>4. cond_null_terminate(s, n)
        = [i \in DOMAIN s |-> IF i \in n .. n + Len(<<Nul>>) - 1 THEN <<Nul>>[i - n + 1] ELSE s[i]]
  BY <1>3 DEF cond_null_terminate, Write
<1>5. n \in n .. n + Len(<<Nul>>) - 1 /\ n - n + 1 = 1
  OBVIOUS
<1> QED
  BY <1>1, <1>4, <1>5

LEMMA RefusedCloses ==
  ASSUME NEW realloc, NEW pinned, NEW st, Made(realloc, pinned, st), NEW out, out # "ok"
  PROVE  Closes(st, Refused(st, out))
<1>1. Refused(st, out) = [out |-> out, dyn |-> st.dyn, new |-> st.new, size |-> st.size, s |-> st.s]
  BY DEF Refused, Made
<1> QED
  BY <1>1 DEF Closes

LEMMA OverwriteCloses ==
  ASSUME NEW realloc, NEW pinned, NEW st, Made(realloc, pinned, st),
         NEW sz, NEW a, NEW xs, NEW n
  PROVE  Closes(st, resize_and_overwrite(realloc, st, sz, a, xs, n))
<1>1. Closes(st, Refused(st, "length_error"))
  BY RefusedCloses
<1>2. \A s : Closes(st, InPlace(st, cond_null_terminate(s, n), n))
             /\ Closes(st, InBlock(st, cond_null_terminate(s, n), n))
  BY DEF Closes, InPlace, InBlock
<1> QED
  BY <1>1, <1>2 DEF resize_and_overwrite, Overflow

LEMMA ReplaceCloses ==
  ASSUME NEW realloc, NEW pinned, NEW st, Made(realloc, pinned, st),
         NEW pos, NEW old, NEW new, NEW src
  PROVE  Closes(st, replace_aux(realloc, st, pos, old, new, src))
<1>1. Closes(st, Refused(st, "length_error")) /\ Closes(st, Refused(st, "out_of_range"))
  BY RefusedCloses
<1>2. \A s, n : Closes(st, InPlace(st, cond_null_terminate(s, n), n))
                /\ Closes(st, InBlock(st, cond_null_terminate(s, n), n))
  BY DEF Closes, InPlace, InBlock
<1> QED
  BY <1>1, <1>2, Zenon DEF replace_aux, Overflow

LEMMA EraseCloses ==
  ASSUME NEW st, NEW i, NEW n
  PROVE  Closes(st, erase(st, i, n)) /\ Closes(st, pop_back(st)) /\ Closes(st, clear(st))
<1>1. \A s, m : Closes(st, InPlace(st, cond_null_terminate(s, m), m))
  BY DEF Closes, InPlace
<1> QED
  BY <1>1, Zenon DEF erase, pop_back, clear

\* A block shrunk to a smaller one, or to the buffer.
LEMMA ShrinkCloses ==
  ASSUME NEW st
  PROVE  \/ shrink_to_fit(st) = st \/ shrink_to_fit(st).dyn
         \/ Closes(st, shrink_to_fit(st))
<1>1. \A s, n : InBlock(st, s, n).dyn /\ Closes(st, InBuffer(st, cond_null_terminate(s, n), n))
  BY DEF InBlock, InBuffer, Closes
<1> QED
  BY <1>1, Zenon DEF shrink_to_fit

\* A string whose room grows takes what is behind its characters along.
LEMMA ReserveKeeps ==
  ASSUME NEW pinned, NEW st, Made(TRUE, pinned, st), st.s # Lost, NEW n \in Int,
         NEW r, r = reserve(st, n), r.s # Lost
  PROVE  /\ r.size = st.size /\ Chars(r.s, 0, st.size) = Chars(st.s, 0, st.size)
         /\ r.s[st.size] = st.s[st.size]
<1> DEFINE g == growth(RawSize(n))
           xs == Chars(st.s, 0, st.size + 1)
           new == Write(Unset(g), 0, xs)
<1>1. /\ Cap(st.s) \in Lengths /\ Cap(st.s) \in Nat /\ st.s \in Block(Cap(st.s))
      /\ st.size \in Nat /\ st.size < Cap(st.s)
  BY OfMade, Truncated
<1>2. g \in Lengths /\ g \in Nat
  BY Raw
<1>3. PICK k \in Nat : k = st.size + 1 /\ 0 + k <= Cap(st.s)
  BY <1>1
<1>4. /\ xs \in Seq(Letters) /\ Len(xs) = k /\ xs # Lost
      /\ \A i \in 1 .. k : xs[i] = st.s[0 + i - 1]
  <2>1. /\ Chars(st.s, 0, k) \in Seq(Letters) /\ Len(Chars(st.s, 0, k)) = k
        /\ Chars(st.s, 0, k) # Lost
        /\ \A i \in 1 .. k : Chars(st.s, 0, k)[i] = st.s[0 + i - 1]
    <3>1. 0 \in Nat /\ 0 + k <= Cap(st.s)
      BY <1>3
    <3> QED
      BY <1>1, <3>1, CharsInside
  <2> QED
    BY <1>3, <2>1
<1>5. r = IF RawSize(n) <= Cap(st.s) THEN st ELSE InBlock(st, new, st.size)
  BY DEF reserve
<1> HIDE DEF g, xs
<1>6. CASE r = InBlock(st, new, st.size)
  <2>1. r.s = new /\ r.size = st.size /\ new # Lost
    BY <1>6 DEF InBlock
  <2>2. Unset(g) \in Mem(g) /\ Unset(g) \in Block(g) /\ xs \in Word /\ xs # <<>> /\ 0 \in Int
        /\ 0 \in Nat
    <3>1. Len(xs) # 0
      BY <1>1, <1>3, <1>4
    <3>2. xs # <<>>
      BY <3>1
    <3> QED
      BY <1>2, <1>4, <3>2, StorageMem DEF Word
  <2>3. 0 + Len(xs) <= g
    BY <1>2, <2>1, <2>2, WriteMem
  <2>4. /\ new \in Block(g)
        /\ \A i \in 0 .. g - 1 :
             new[i] = IF i \in 0 .. 0 + Len(xs) - 1 THEN xs[i - 0 + 1] ELSE Unset(g)[i]
    <3>1. PICK u \in Block(g) : u = Unset(g)
      BY <2>2
    <3>2. Overlaid(Write(u, 0, xs), g, u, 0, xs)
      BY <1>2, <1>4, <2>2, <2>3, WriteInside
    <3> QED
      BY <3>1, <3>2 DEF Overlaid
  <2> HIDE DEF new
  <2>5. ASSUME NEW i \in 0 .. st.size PROVE new[i] = st.s[i]
    <3>1. i \in 0 .. g - 1 /\ i \in 0 .. 0 + Len(xs) - 1 /\ i - 0 + 1 = i + 1
          /\ i + 1 \in 1 .. k /\ 0 + (i + 1) - 1 = i
      BY <1>1, <1>2, <1>3, <1>4, <2>3
    <3> QED
      BY <1>4, <2>4, <3>1
  <2>6. /\ st.size <= g /\ st.size <= Cap(st.s) /\ st.size \in 0 .. st.size
        /\ \A i \in 0 .. st.size - 1 : new[i] = st.s[i]
    BY <1>1, <1>2, <1>3, <1>4, <2>3, <2>5
  <2>7. Chars(new, 0, st.size) = Chars(st.s, 0, st.size)
    BY <1>1, <1>2, <2>4, <2>6, CharsSame
  <2> QED
    BY <2>1, <2>5, <2>6, <2>7
<1>7. CASE r = st
  BY <1>7
<1> QED
  BY <1>5, <1>6, <1>7

\* A round that has replaced has terminated, and without one nothing has changed.
LEMMA FindCloses ==
  ASSUME NEW realloc, NEW pinned, NEW st, Made(realloc, pinned, st), st.s # Lost,
         NEW what, what \in Seq(Letters), NEW with, with \in Seq(Letters),
         NEW r, r = find_and_replace(realloc, st, what, with)
  PROVE  \/ \E x : r.s = cond_null_terminate(x, r.size)
         \/ r.s = st.s /\ r.size = st.size
<1> DEFINE Ends(t) == \/ \E x : t.s = cond_null_terminate(x, t.size)
                      \/ t.s = st.s /\ t.size = st.size
<1>1. PICK rounds : Rounds(rounds, realloc, pinned, st, what, with)
  BY FindRounds
<1> DEFINE T == {n \in Nat : Ends(rounds[n].st)}
<1>2. 0 \in T
  <2>1. rounds[0].st = st
    BY <1>1 DEF Rounds
  <2> QED
    BY <2>1
<1>3. ASSUME NEW n \in Nat, n \in T PROVE n + 1 \in T
  <2>1. PICK acc : acc = rounds[n]
    OBVIOUS
  <2>2. /\ rounds[n + 1] = Round(realloc, what, with, acc)
        /\ Made(realloc, pinned, acc.st)
    BY <1>1, <2>1 DEF Rounds
  <2>3. PICK t : t = replace_copy(realloc, acc.st, acc.fpos, Len(what), Foreign(with))
    OBVIOUS
  <2>4. Round(realloc, what, with, acc).st = acc.st \/ Round(realloc, what, with, acc).st = t
    BY <2>3 DEF Round
  <2>5. Closes(acc.st, t)
    BY <2>2, <2>3, ReplaceCloses DEF replace_copy
  <2>6. Ends(acc.st)
    BY <1>3, <2>1
  <2>7. Ends(t)
    BY <2>5, <2>6 DEF Closes
  <2> HIDE DEF Ends
  <2> QED
    BY <2>2, <2>4, <2>6, <2>7
<1>4. \A n \in Nat : n \in T
  <2> HIDE DEF T
  <2> QED
    BY <1>2, <1>3, SetInduction
<1>5. Ends(st)
  OBVIOUS
<1>6. st.size \in Nat
  BY OfMade, Truncated
<1>7. Ends(rounds[st.size].st)
  BY <1>4, <1>6
<1> HIDE DEF Ends
<1>8. Ends(r)
  BY <1>1, <1>5, <1>7 DEF Rounds
<1> QED
  BY <1>8 DEF Ends

\* Characters written from the start, and the terminator behind the last of them: if
\* that was inside the storage, the size did not wrap.
LEMMA HoldCloses ==
  ASSUME NEW c \in Lengths, NEW s \in Mem(c), NEW xs \in Seq(Letters),
         cond_null_terminate(Write(s, 0, xs), Len(xs)) # Lost
  PROVE  ToLength(Len(xs)) = Len(xs)
<1>1. Len(xs) \in Nat /\ xs \in Word /\ 0 \in Int /\ c \in Nat /\ c <= MaxLength /\ MaxLength \in Nat
  BY Truncated DEF Word, Lengths
<1>2. Write(s, 0, xs) \in Mem(c)
  BY <1>1, WriteMem
<1>3. Len(xs) \in 0 .. c - 1
  BY <1>1, <1>2, TerminateMem
<1>4. Len(xs) \in Lengths
  BY <1>1, <1>3 DEF Lengths
<1> QED
  BY <1>4, Truncated

LEMMA ConstructCloses ==
  ASSUME NEW realloc, NEW pinned, NEW st, Made(realloc, pinned, st), st.s # Lost,
         NEW sz \in Lengths, NEW xs \in Seq(Letters), sz = ToLength(Len(xs)),
         NEW r, r = uninitialized_construct(realloc, st, sz, xs), r.s # Lost
  PROVE  Closes(st, r)
<1> DEFINE Hold(s) == cond_null_terminate(Write(s, 0, xs), Len(xs))
           g == growth(RawSize(sz))
<1>1. r = IF N < RawSize(sz) THEN Overflow(realloc, st, InBlock(st, Hold(Unset(g)), sz))
          ELSE InPlace(st, Hold(st.s), sz)
  BY DEF uninitialized_construct
<1>2. /\ Cap(st.s) \in Lengths /\ st.s \in Mem(Cap(st.s)) /\ g \in Lengths /\ Unset(g) \in Mem(g)
  <2>1. g \in Lengths /\ g \in Nat
    BY Raw, Truncated
  <2> QED
    BY <2>1, OfMade, StorageMem
<1>3. \A s : Hold(s) # Lost /\ (\E c \in Lengths : s \in Mem(c)) => ToLength(Len(xs)) = Len(xs)
  BY HoldCloses
<1>4. Closes(st, Refused(st, "length_error"))
  BY RefusedCloses
<1>5. CASE r = InBlock(st, Hold(Unset(g)), sz)
  <2>1. r.s = Hold(Unset(g)) /\ r.size = sz
    BY <1>5 DEF InBlock
  <2> HIDE DEF g
  <2>2. sz = Len(xs)
    BY <1>2, <1>3, <2>1
  <2> QED
    BY <2>1, <2>2 DEF Closes
<1>6. CASE r = InPlace(st, Hold(st.s), sz)
  <2>1. r.s = Hold(st.s) /\ r.size = sz
    BY <1>6 DEF InPlace
  <2>2. sz = Len(xs)
    BY <1>2, <1>3, <2>1
  <2> QED
    BY <2>1, <2>2 DEF Closes
<1> HIDE DEF Hold, g
<1> QED
  BY <1>1, <1>4, <1>5, <1>6 DEF Overflow

LEMMA SourceDistance ==
  ASSUME NEW src, Source(src)
  PROVE  Distance(src) \in Lengths /\ Distance(src) \in Int
<1>1. Lost \in Mem(0) /\ 0 \in Nat
  BY DEF Mem
<1> QED
  BY <1>1, FromWord, Truncated

LEMMA AssignCloses ==
  ASSUME NEW realloc, NEW pinned, NEW st, Made(realloc, pinned, st), st.s # Lost,
         NEW src, Source(src), NEW sz, sz = Distance(src),
         NEW r, r = uninitialized_assign(realloc, st, sz, src), r.s # Lost
  PROVE  Closes(st, r)
<1> DEFINE Hold(s, xs) == IF xs = Lost THEN Lost ELSE cond_null_terminate(Write(s, 0, xs), Len(xs))
           g == growth(RawSize(sz))
           unpins == realloc /\ RawSize(sz) <= N /\ st.dyn
<1>1. r = IF unpins THEN InBuffer(st, Hold(Zeroed(N), From(src, Lost)), sz)
          ELSE IF Cap(st.s) < RawSize(sz)
                 THEN Overflow(realloc, st, InBlock(st, Hold(Unset(g), From(src, st.s)), sz))
          ELSE InPlace(st, Hold(st.s, From(src, st.s)), sz)
  BY DEF uninitialized_assign
<1>2. /\ Cap(st.s) \in Lengths /\ st.s \in Mem(Cap(st.s)) /\ g \in Lengths /\ Unset(g) \in Mem(g)
      /\ Zeroed(N) \in Mem(N) /\ N \in Lengths /\ Lost \in Mem(0) /\ sz \in Lengths
      /\ Cap(st.s) \in Nat /\ 0 \in Nat
  <2>1. sz \in Lengths
    BY SourceDistance
  <2>2. g \in Lengths /\ g \in Nat
    BY <2>1, Raw, Truncated
  <2> QED
    BY <2>1, <2>2, OfMade, StorageMem, LettersOf DEF Mem
<1>3. ASSUME NEW c \in Lengths, NEW s \in Mem(c), NEW d \in Nat, NEW t \in Mem(d),
             Hold(s, From(src, t)) # Lost
      PROVE  \E x : Hold(s, From(src, t)) = cond_null_terminate(x, sz)
  <2>1. PICK xs : xs = From(src, t)
    OBVIOUS
  <2>2. xs # Lost /\ Hold(s, xs) = cond_null_terminate(Write(s, 0, xs), Len(xs))
    BY <1>3, <2>1
  <2>3. xs \in Seq(Letters)
    BY <2>1, <2>2, FromWord DEF Word
  <2>4. ToLength(Len(xs)) = Len(xs)
    BY <1>3, <2>1, <2>2, <2>3, HoldCloses
  <2>5. sz = Len(xs)
    <3>1. CASE \E ys \in Seq(Letters) : src = Foreign(ys)
      BY <2>1, <2>4, <3>1 DEF Foreign, From, Distance
    <3>2. CASE \E a, b \in Nat : a <= b /\ src = Own(a, b)
      <4>1. PICK a, b \in Nat : a <= b /\ src = Own(a, b)
        BY <3>2
      <4>2. xs = Chars(t, a, b - a) /\ sz = ToLength(b - a) /\ b - a \in Int /\ a \in Int
        BY <2>1, <4>1 DEF Own, From, Distance
      <4>3. Len(xs) = b - a
        BY <2>2, <4>2, CharsWord
      <4> QED
        BY <2>4, <4>2, <4>3
    <3> QED
      BY <3>1, <3>2 DEF Source
  <2> QED
    BY <2>1, <2>2, <2>5
<1>4. Closes(st, Refused(st, "length_error"))
  BY RefusedCloses
<1> HIDE DEF Hold, g
<1>5. CASE r = InBuffer(st, Hold(Zeroed(N), From(src, Lost)), sz)
  <2>1. r.s = Hold(Zeroed(N), From(src, Lost)) /\ r.size = sz
    BY <1>5 DEF InBuffer
  <2> QED
    BY <1>2, <1>3, <2>1 DEF Closes
<1>6. CASE r = InBlock(st, Hold(Unset(g), From(src, st.s)), sz)
  <2>1. r.s = Hold(Unset(g), From(src, st.s)) /\ r.size = sz
    BY <1>6 DEF InBlock
  <2> QED
    BY <1>2, <1>3, <2>1 DEF Closes
<1>7. CASE r = InPlace(st, Hold(st.s, From(src, st.s)), sz)
  <2>1. r.s = Hold(st.s, From(src, st.s)) /\ r.size = sz
    BY <1>7 DEF InPlace
  <2> QED
    BY <1>2, <1>3, <2>1 DEF Closes
<1> QED
  BY <1>1, <1>4, <1>5, <1>6, <1>7 DEF Overflow

-------------------------------------------------------------------------------
(* who owns the storage *)

\* The characters of v are in its buffer or in its block, all of them have been
\* written, and its size leaves room for the terminator.
Held(v) ==
  \E c \in Lengths : /\ Slots(v) \in Block(c) /\ size(v) < c /\ (~IsDynamic(v) => c = N)
                     /\ Shown(Slots(v), size(v))

\* The inductive invariant: StorageOwned, one block at a time, with what the
\* storage holds.
Owns ==
  /\ last.out \in Outcomes /\ alive \subseteq Strs /\ heap \subseteq Blocks
  /\ str \in [Strs -> [dyn : BOOLEAN, ptr : Blocks \cup {NoBlock}, size : Lengths]]
  /\ \A v \in Strs : IsDynamic(v) => v \in alive /\ str[v].ptr \in heap /\ supports_reallocation
  /\ \A v \in alive : Held(v)
  /\ \A b \in heap : \E v \in alive : IsDynamic(v) /\ str[v].ptr = b
  /\ \A v, w \in alive : v # w /\ IsDynamic(v) /\ IsDynamic(w) => str[v].ptr # str[w].ptr

LEMMA OwnsStorage ==
  ASSUME Owns
  PROVE  StorageOwned
<1>1. heap = UNION {Owned(v) : v \in alive}
  BY DEF Owns, Owned, IsDynamic
<1>2. ASSUME NEW v \in alive
      PROVE  size(v) <= capacity(v)
  <2>1. PICK c \in Lengths : Slots(v) \in Block(c) /\ size(v) < c
    BY DEF Owns, Held
  <2>2. c \in Nat /\ size(v) \in Nat /\ Cap(Slots(v)) = c
    BY <2>1, Truncated, BlockCap DEF Owns, size
  <2> QED
    BY <2>1, <2>2 DEF capacity
<1>3. \A v \in alive : IsDynamic(v) => supports_reallocation
  BY DEF Owns
<1>4. \A v, w \in alive : v # w => Owned(v) \cap Owned(w) = {}
  BY DEF Owns, Owned
<1> QED
  BY <1>1, <1>2, <1>3, <1>4 DEF Owns, StorageOwned

LEMMA OwnsInit ==
  ASSUME Init
  PROVE  Owns
<1>1. 0 \in Lengths
  BY Truncated DEF Lengths
<1>2. \A v \in Strs : Buffered(0) \in [dyn : BOOLEAN, ptr : Blocks \cup {NoBlock}, size : Lengths]
                      /\ ~Buffered(0).dyn
  BY <1>1 DEF Buffered
<1> QED
  BY <1>2 DEF Init, Owns, IsDynamic, NoCall, Outcomes

\* What a function gets of a string, alive or new.
LEMMA StorageMade ==
  ASSUME Owns, NEW v \in alive
  PROVE  /\ Made(supports_reallocation, IsDynamic(v), Storage(v)) /\ Storage(v).s # Lost
         /\ size(v) \in Lengths /\ size(v) \in Int /\ Sound(Storage(v))
<1>1. PICK c \in Lengths : Slots(v) \in Block(c) /\ size(v) < c /\ (~IsDynamic(v) => c = N)
                       /\ Shown(Slots(v), size(v))
  BY DEF Owns, Held
<1>2. Slots(v) \in Mem(c) /\ Slots(v) # Lost
  BY <1>1, Truncated, BlockCap DEF Mem
<1>3. size(v) \in Lengths /\ IsDynamic(v) \in BOOLEAN /\ (IsDynamic(v) => supports_reallocation)
  BY DEF Owns, size, IsDynamic
<1>4. size(v) \in Int
  BY <1>3, Truncated
<1>5. Sound(Storage(v))
  BY <1>1, <1>2 DEF Sound, Storage
<1> QED
  BY <1>1, <1>2, <1>3, <1>4, <1>5 DEF Made, Storage, Results

LEMMA FreshBlock ==
  /\ Fresh \in Block(N) /\ Fresh \in Mem(N) /\ N \in Lengths /\ N \in Nat \ {0} /\ Fresh # Lost
<1>1. N \in Lengths /\ N \in Nat \ {0}
  BY LettersOf
<1>2. Fresh \in Block(N) /\ Fresh \in Mem(N)
  BY <1>1, StorageMem DEF Fresh
<1> QED
  BY <1>1, <1>2, BlockCap

LEMMA NewbornMade ==
  ASSUME NEW realloc, NEW pinned
  PROVE  /\ Made(realloc, pinned, Newborn) /\ Newborn.s # Lost /\ Sound(Newborn)
         /\ Newborn.dyn = FALSE
<1>1. 0 \in Lengths /\ 0 < N
  BY LettersOf, Truncated DEF Lengths
<1>2. Sound(Newborn) /\ Newborn.dyn = FALSE
  BY FreshBlock DEF Sound, Shown, Newborn
<1> QED
  BY <1>1, <1>2, FreshBlock DEF Made, Newborn, Results

\* A string that takes what a function has made of its storage owns it alone.
LEMMA TakesOwns ==
  ASSUME Owns, NEW v \in Strs, NEW st, Made(supports_reallocation, IsDynamic(v), st),
         Sound(st), Takes(v, st), tag' = tag, alive' = alive \cup {v},
         last'.out \in Outcomes
  PROVE  /\ Owns'
         /\ size(v)' = st.size /\ Slots(v)' = Seen(st.s, st.size) /\ (IsDynamic(v)' <=> st.dyn)
         /\ \A w \in alive \ {v} : size(w)' = size(w) /\ Slots(w)' = Slots(w)
<1> DEFINE b == IF st.new THEN NewBlock ELSE str[v].ptr
           place == IF st.dyn THEN b ELSE v
           freed == Owned(v) \ (IF st.dyn THEN {b} ELSE {})
<1>1. /\ str' = [str EXCEPT ![v] = IF st.dyn THEN Dynamic(b, st.size) ELSE Buffered(st.size)]
      /\ heap' = (heap \ freed) \cup (IF st.dyn THEN {b} ELSE {})
      /\ mem' = [p \in Places |-> IF p = place THEN Seen(st.s, st.size)
                                  ELSE IF p \in freed \cup {v} THEN Released(p)
                                  ELSE mem[p]]
      /\ st.new => MemoryLeft
  BY Zenon DEF Takes
<1>2. /\ st.dyn \in BOOLEAN /\ st.new \in BOOLEAN /\ st.size \in Lengths
      /\ st.dyn => supports_reallocation /\ (st.new \/ IsDynamic(v))
      /\ st.new => st.dyn
  BY DEF Made
<1>3. st.dyn => b \in Blocks
  BY <1>1, <1>2 DEF Owns, NewBlock, MemoryLeft
<1>4. st.dyn => \A w \in alive \ {v} : IsDynamic(w) => str[w].ptr # b
  BY <1>1, <1>2 DEF Owns, NewBlock, MemoryLeft
<1>5. \A w \in alive \ {v} : IsDynamic(w) => str[w].ptr \notin Owned(v)
  BY DEF Owns, Owned
<1>6. PICK c \in Lengths : /\ st.s \in Block(c) /\ st.size < c /\ (~st.dyn => c = N)
                           /\ Shown(st.s, st.size)
  BY DEF Made, Mem, Sound
<1>7. Seen(st.s, st.size) \in Block(c) /\ Shown(Seen(st.s, st.size), st.size)
  <2>1. c \in Nat /\ st.size \in Nat
    BY <1>2, Truncated
  <2>2. st.size <= c
    BY <1>6, <2>1
  <2> QED
    BY <1>6, <2>1, <2>2, SeenShown
<1>8. /\ \A w \in Strs \ {v} : str'[w] = str[w]
      /\ str'[v] = IF st.dyn THEN Dynamic(b, st.size) ELSE Buffered(st.size)
      /\ str' \in [Strs -> [dyn : BOOLEAN, ptr : Blocks \cup {NoBlock}, size : Lengths]]
  <2> HIDE DEF b
  <2> QED
    BY <1>1, <1>2, <1>3 DEF Owns, Dynamic, Buffered
<1>9. /\ (IsDynamic(v)' <=> st.dyn) /\ size(v)' = st.size /\ (st.dyn => str'[v].ptr = b)
      /\ \A w \in Strs \ {v} : (IsDynamic(w)' <=> IsDynamic(w)) /\ size(w)' = size(w)
  <2> HIDE DEF b
  <2>1. \A w \in Strs \ {v} : (IsDynamic(w)' <=> IsDynamic(w)) /\ size(w)' = size(w)
    BY <1>8 DEF IsDynamic, size
  <2>2. CASE st.dyn
    BY <1>2, <1>8, <2>1, <2>2 DEF IsDynamic, size, Dynamic
  <2>3. CASE ~st.dyn
    BY <1>2, <1>8, <2>1, <2>3 DEF IsDynamic, size, Buffered
  <2> QED
    BY <2>2, <2>3
<1> HIDE DEF b
<1>10. Strs \cap Blocks = {} /\ v \in Places /\ (st.dyn => b \in Places)
  BY <1>3, StringsAssumption DEF Places
<1>11. Slots(v)' = Seen(st.s, st.size)
  BY <1>1, <1>8, <1>9, <1>10 DEF Slots, data
<1>12. ASSUME NEW w \in alive \ {v} PROVE Slots(w)' = Slots(w)
  <2>1. data(w)' = data(w) /\ data(w) \in Places /\ data(w) # v /\ data(w) \notin Owned(v)
        /\ (st.dyn => data(w) # b)
    BY <1>3, <1>4, <1>5, <1>8, <1>9, <1>10 DEF Owns, data, Places, Owned, IsDynamic
  <2>2. mem'[data(w)] = mem[data(w)]
    BY <1>1, <2>1
  <2> QED
    BY <2>1, <2>2 DEF Slots
<1>13. alive' \subseteq Strs /\ heap' \subseteq Blocks
  BY <1>1, <1>3 DEF Owns
<1>14. ASSUME NEW w \in Strs, IsDynamic(w)'
       PROVE  w \in alive' /\ str'[w].ptr \in heap' /\ supports_reallocation'
  <2>1. supports_reallocation' = supports_reallocation
    BY DEF supports_reallocation
  <2>2. CASE w = v
    BY <1>1, <1>2, <1>9, <1>14, <2>1, <2>2
  <2>3. CASE w # v
    <3>1. IsDynamic(w) /\ str'[w] = str[w]
      BY <1>8, <1>9, <1>14, <2>3
    <3>2. w \in alive \ {v} /\ str[w].ptr \in heap /\ supports_reallocation
      BY <2>3, <3>1 DEF Owns
    <3>3. str[w].ptr \notin Owned(v)
      BY <1>5, <3>1, <3>2
    <3>4. str[w].ptr \in heap'
      BY <1>1, <3>2, <3>3
    <3> QED
      BY <2>1, <3>1, <3>2, <3>4
  <2> QED
    BY <2>2, <2>3
<1>15. ASSUME NEW w \in alive' PROVE Held(w)'
  <2>1. CASE w = v
    BY <1>6, <1>7, <1>9, <1>11, <2>1 DEF Held
  <2>2. CASE w # v
    <3>1. w \in alive \ {v} /\ w \in Strs \ {v}
      BY <2>2 DEF Owns
    <3>2. Held(w)
      BY <3>1 DEF Owns
    <3> QED
      BY <1>9, <1>12, <3>1, <3>2 DEF Held
  <2> QED
    BY <2>1, <2>2
<1>16. ASSUME NEW a \in heap' PROVE \E w \in alive' : IsDynamic(w)' /\ str'[w].ptr = a
  <2>1. CASE st.dyn /\ a = b
    BY <1>9, <2>1
  <2>2. CASE ~(st.dyn /\ a = b)
    <3>1. a \in heap /\ a \notin Owned(v)
      BY <1>1, <2>2
    <3>2. PICK w \in alive : IsDynamic(w) /\ str[w].ptr = a
      BY <3>1 DEF Owns
    <3>3. w # v /\ w \in Strs
      BY <3>1, <3>2 DEF Owned, Owns
    <3> QED
      BY <1>8, <1>9, <3>2, <3>3
  <2> QED
    BY <2>1, <2>2
<1>17. ASSUME NEW u \in alive', NEW w \in alive', u # w, IsDynamic(u)', IsDynamic(w)'
       PROVE  str'[u].ptr # str'[w].ptr
  <2>1. u \in Strs /\ w \in Strs
    BY <1>13
  <2>2. CASE u = v
    BY <1>4, <1>8, <1>9, <1>17, <2>1, <2>2
  <2>3. CASE w = v
    BY <1>4, <1>8, <1>9, <1>17, <2>1, <2>3
  <2>4. CASE u # v /\ w # v
    BY <1>8, <1>9, <1>17, <2>1, <2>4 DEF Owns
  <2> QED
    BY <2>2, <2>3, <2>4
<1>18. Owns'
  BY <1>8, <1>13, <1>14, <1>15, <1>16, <1>17 DEF Owns
<1>19. \A w \in alive \ {v} : size(w)' = size(w) /\ Slots(w)' = Slots(w)
  BY <1>9, <1>12 DEF Owns
<1> QED
  BY <1>9, <1>11, <1>18, <1>19

\* A call that changes no string.
LEMMA StopsOwns ==
  ASSUME Owns, UNCHANGED <<tag, alive, str, heap, mem>>, last'.out \in Outcomes
  PROVE  Owns'
<1>1. \A v \in Strs : /\ IsDynamic(v)' = IsDynamic(v) /\ size(v)' = size(v)
                      /\ Slots(v)' = Slots(v)
  BY DEF IsDynamic, size, Slots, data
<1>2. supports_reallocation' = supports_reallocation
  BY DEF supports_reallocation
<1>3. \A v \in alive : Held(v)'
  BY <1>1 DEF Owns, Held
<1> QED
  BY <1>1, <1>2, <1>3 DEF Owns

LEMMA SoundMeans ==
  ASSUME NEW st
  PROVE  Sound(st) <=> ~Meaningless(st)
BY DEF Sound, Shown, Meaningless

\* The call that left its storage is still to be seen for what it was.
LEMMA UndefinedNext ==
  ASSUME NEW op, NEW v, NEW args, LeavesStorage(op, v, args), Stops(op, v, args, "undefined")
  PROVE  UndefinedOnly'
<1>1. /\ last'.op = op /\ last'.v = v /\ last'.args = args
      /\ tag' = tag /\ str' = str /\ mem' = mem
  BY DEF Stops, Called
<1> QED
  BY <1>1 DEF UndefinedOnly, LeavesStorage, Wanted, Countable, AssignsReleased, IsDynamic, size,
              Slots, data, supports_reallocation

\* What TerminatorKept says of the string v.
EndKept(v) ==
  \/ NullTerminated(v)'
  \/ v \in alive /\ ~NullTerminated(v) /\ view(v)' = view(v)
       /\ (v # last'.v \/ last'.op \in {"none", "reserve", "shrink_to_fit", "substr",
                                        "find_and_replace"}
                       \/ last'.out # "ok")
  \/ last'.op \in {"construct", "construct_move"} /\ ~supports_reallocation
  \/ last'.op = "construct_move" /\ ~NullTerminated(last'.args[1])
  \/ last'.op \in {"construct_move", "assign_move"} /\ last'.args = <<v>>
  \/ last'.op = "shrink_to_fit" /\ last'.v = v /\ IsDynamic(v)'

\* What every step keeps, or says of itself.
Proper == Owns' /\ UndefinedOnly' /\ \A v \in alive' : EndKept(v)

\* What the call op leaves behind the characters of the storage it makes of v's: the
\* terminator, but for the exceptions of TerminatorKept.
Ending(op, v, st) ==
  \/ st.size \in DOMAIN st.s /\ st.s[st.size] = Nul
  \/ op = "construct" /\ ~supports_reallocation
  \/ op = "shrink_to_fit" /\ st.dyn
  \/ /\ v \in alive
     /\ st.out # "ok" \/ op \in {"reserve", "shrink_to_fit", "find_and_replace"}
     /\ st.size = size(v) /\ Chars(st.s, 0, st.size) = view(v)
     /\ st.s[st.size] = at(v, size(v))

\* A string that a step leaves alone keeps what is behind its characters.
LEMMA Untouched ==
  ASSUME NEW v \in alive, size(v)' = size(v), Slots(v)' = Slots(v),
         \/ v # last'.v
         \/ last'.op \in {"none", "reserve", "shrink_to_fit", "substr", "find_and_replace"}
         \/ last'.out # "ok"
  PROVE  EndKept(v)
<1>1. view(v)' = view(v) /\ (NullTerminated(v)' <=> NullTerminated(v))
  BY DEF view, NullTerminated, at
<1> QED
  BY <1>1 DEF EndKept

LEMMA StopsKeeps ==
  ASSUME UNCHANGED <<tag, alive, str, heap, mem>>,
         \/ last'.op \in {"none", "reserve", "shrink_to_fit", "substr", "find_and_replace"}
         \/ last'.out # "ok"
  PROVE  \A v \in alive' : EndKept(v)
<1>1. \A v \in alive' : v \in alive /\ size(v)' = size(v) /\ Slots(v)' = Slots(v)
  BY DEF size, Slots, data, IsDynamic
<1> QED
  BY <1>1, Untouched

\* What was seen below n is still seen.
LEMMA SeenSame ==
  ASSUME NEW c \in Lengths, NEW s \in Block(c), NEW n \in Nat, n < c
  PROVE  /\ Seen(s, n) \in Block(c)
         /\ \A i \in 0 .. n - 1 : Seen(s, n)[i] = s[i]
         /\ Seen(s, n)[n] = IF s[n] = Nul THEN Nul ELSE Junk
         /\ Chars(Seen(s, n), 0, n) = Chars(s, 0, n)
<1>1. DOMAIN s = 0 .. c - 1 /\ n \in 0 .. c - 1 /\ n <= c /\ c \in Nat /\ 0 + n <= c
      /\ 0 \in Nat
  BY Truncated, BlockCap
<1>2. Seen(s, n) \in Block(c)
  BY <1>1, SeenBlock
<1>3. \A i \in 0 .. n - 1 : Seen(s, n)[i] = s[i]
  BY <1>1 DEF Seen
<1>4. Seen(s, n)[n] = IF s[n] = Nul THEN Nul ELSE Junk
  BY <1>1 DEF Seen
<1>5. Chars(Seen(s, n), 0, n) = Chars(s, 0, n)
  BY <1>1, <1>2, <1>3, CharsSame
<1> QED
  BY <1>2, <1>3, <1>4, <1>5

\* A string ends as the call that made its storage has ended it.
LEMMA TakesEnds ==
  ASSUME NEW v, NEW st, NEW op, NEW c \in Lengths, st.s \in Block(c), st.size \in Nat,
         st.size < c, size(v)' = st.size, Slots(v)' = Seen(st.s, st.size),
         IsDynamic(v)' <=> st.dyn, last'.op = op, last'.v = v, last'.out = st.out,
         Ending(op, v, st)
  PROVE  EndKept(v)
<1>1. /\ NullTerminated(v)' <=> Seen(st.s, st.size)[st.size] = Nul
      /\ view(v)' = Chars(st.s, 0, st.size)
  BY SeenSame DEF NullTerminated, at, view
<1>2. NullTerminated(v)' <=> st.s[st.size] = Nul
  BY <1>1, SeenSame, LettersOf
<1>3. CASE st.size \in DOMAIN st.s /\ st.s[st.size] = Nul
  BY <1>2, <1>3 DEF EndKept
<1>4. CASE op = "construct" /\ ~supports_reallocation
  BY <1>4 DEF EndKept
<1>5. CASE op = "shrink_to_fit" /\ st.dyn
  BY <1>5 DEF EndKept
<1>6. CASE /\ v \in alive
           /\ st.out # "ok" \/ op \in {"reserve", "shrink_to_fit", "find_and_replace"}
           /\ st.size = size(v) /\ Chars(st.s, 0, st.size) = view(v)
           /\ st.s[st.size] = at(v, size(v))
  <2>1. CASE NullTerminated(v)
    BY <1>2, <1>6, <2>1 DEF EndKept, NullTerminated
  <2>2. CASE ~NullTerminated(v)
    BY <1>1, <1>6, <2>2 DEF EndKept
  <2> QED
    BY <2>1, <2>2
<1> QED
  BY <1>3, <1>4, <1>5, <1>6 DEF Ending

\* What a call makes of a string's storage: storage again, sound unless the call
\* is one of those that leave it, with the terminator where it belongs.
Good(op, v, args, st) ==
  /\ Made(supports_reallocation, IsDynamic(v), st)
  /\ LeavesStorage(op, v, args) \/ Sound(st)
  /\ st.s # Lost /\ (v \in alive \/ st.out = "ok") => Ending(op, v, st)

LEMMA ApplyOwns ==
  ASSUME Owns, NEW v \in Strs, NEW op, NEW args, NEW st, Good(op, v, args, st),
         Apply(op, v, args, st)
  PROVE  Proper
<1>0. Made(supports_reallocation, IsDynamic(v), st)
  BY DEF Good
<1>1. CASE Meaningless(st) /\ Stops(op, v, args, "undefined")
  <2>1. UNCHANGED <<tag, alive, str, heap, mem>> /\ last'.out \in Outcomes /\ last'.out # "ok"
    BY <1>1 DEF Stops, Called, Outcomes
  <2>2. LeavesStorage(op, v, args)
    BY <1>1, SoundMeans DEF Good
  <2> QED
    BY <1>1, <2>1, <2>2, StopsOwns, StopsKeeps, UndefinedNext DEF Proper
<1>2. CASE Stops(op, v, args, "no_memory")
  <2>1. /\ UNCHANGED <<tag, alive, str, heap, mem>> /\ last'.out \in Outcomes
        /\ last'.out # "undefined" /\ last'.out # "ok"
    BY <1>2 DEF Stops, Called, Outcomes
  <2> QED
    BY <2>1, StopsOwns, StopsKeeps DEF Proper, UndefinedOnly
<1>3. ASSUME ~Meaningless(st), alive' = alive \cup {v}, Takes(v, st),
             Called(op, v, args, st.out), tag' = tag, v \in alive \/ st.out = "ok"
      PROVE  Proper
  <2>1. Sound(st) /\ last'.out \in Outcomes /\ last'.out # "undefined"
    BY <1>0, <1>3, SoundMeans DEF Called, Outcomes, Made, Results
  <2>2. /\ Owns'
        /\ size(v)' = st.size /\ Slots(v)' = Seen(st.s, st.size) /\ (IsDynamic(v)' <=> st.dyn)
        /\ \A w \in alive \ {v} : size(w)' = size(w) /\ Slots(w)' = Slots(w)
    BY <1>0, <1>3, <2>1, TakesOwns
  <2>3. last'.op = op /\ last'.v = v /\ last'.out = st.out
    BY <1>3 DEF Called
  <2>4. \A w \in alive \ {v} : EndKept(w)
    BY <2>2, <2>3, Untouched
  <2>5. /\ Cap(st.s) \in Lengths /\ st.s \in Block(Cap(st.s)) /\ st.size \in Nat
        /\ st.size < Cap(st.s) /\ st.s # Lost
    BY <1>0, <2>1, OfSound
  <2>6. Ending(op, v, st)
    BY <1>3, <2>5 DEF Good
  <2>7. EndKept(v)
    BY <2>2, <2>3, <2>5, <2>6, TakesEnds
  <2> QED
    BY <1>3, <2>1, <2>2, <2>4, <2>7 DEF Proper, UndefinedOnly
<1>4. CASE /\ ~Meaningless(st) /\ st.out # "ok" /\ UNCHANGED <<tag, alive, str, heap, mem>>
           /\ Called(op, v, args, st.out)
  <2>1. last'.out \in Outcomes /\ last'.out # "undefined" /\ last'.out # "ok"
    BY <1>0, <1>4 DEF Called, Outcomes, Made, Results
  <2> QED
    BY <1>4, <2>1, StopsOwns, StopsKeeps DEF Proper, UndefinedOnly
<1>5. v \in alive => alive \cup {v} = alive
  OBVIOUS
<1> QED
  BY <1>1, <1>2, <1>3, <1>4, <1>5 DEF Apply

\* A terminator in its place, and characters that fit.
LEMMA TerminateBlock ==
  ASSUME NEW c \in Lengths, NEW s \in Block(c), NEW n \in Lengths, n < c
  PROVE  cond_null_terminate(s, n) \in Block(c)
<1>1. c \in Nat /\ n \in Nat /\ s # Lost /\ Cap(s) = c
  BY Truncated, BlockCap
<1>2. DOMAIN s = 0 .. c - 1
  BY <1>1, BlockCap
<1>3. <<Nul>> # Lost
  <2>1. 1 \in Lengths
    BY Truncated DEF Lengths
  <2>2. <<Nul>> \in [1 .. 1 -> Letters]
    BY LettersOf
  <2> QED
    BY <2>1, <2>2, WordNotLost
<1>4. Inside(s, n, 1)
  BY <1>1 DEF Inside
<1>5. cond_null_terminate(s, n) = [i \in DOMAIN s |-> IF i \in n .. n + 1 - 1 THEN <<Nul>>[i - n + 1] ELSE s[i]]
  BY <1>3, <1>4 DEF cond_null_terminate, Write
<1>6. ASSUME NEW i \in DOMAIN s
      PROVE  (IF i \in n .. n + 1 - 1 THEN <<Nul>>[i - n + 1] ELSE s[i]) \in Letters
  BY <1>1, <1>2, LettersOf DEF Block
<1> QED
  BY <1>2, <1>5, <1>6 DEF Block

\* Characters in storage of their own.
LEMMA FrontShown ==
  ASSUME NEW c \in Lengths, NEW s \in Block(c), NEW xs, xs \in Seq(Alphabet),
         NEW n \in Nat, Len(xs) = n, n <= c
  PROVE  Write(s, 0, xs) \in Block(c) /\ Shown(Write(s, 0, xs), n)
<1>1. /\ c \in Nat /\ 0 \in Nat /\ 0 <= c /\ 0 <= 0 /\ Shown(s, 0) /\ Len(xs) \in Nat
      /\ 0 + Len(xs) <= c /\ n <= 0 + Len(xs)
  BY Truncated DEF Shown
<1> QED
  BY <1>1, WriteShown

\* The characters a caller sees are in the string's storage.
LEMMA ViewWord ==
  ASSUME Owns, NEW v \in alive
  PROVE  /\ view(v) \in Seq(Letters) /\ view(v) # Lost /\ Len(view(v)) = size(v)
         /\ view(v) \in Seq(Alphabet)
<1>1. PICK c \in Lengths : Slots(v) \in Block(c) /\ size(v) < c /\ Shown(Slots(v), size(v))
  BY DEF Owns, Held
<1>2. size(v) \in Lengths
  BY DEF Owns, size
<1>3. size(v) \in Nat /\ c \in Nat
  BY <1>2, Truncated
<1>4. 0 \in Nat /\ 0 + size(v) <= c /\ \A i \in 0 .. 0 + size(v) - 1 : Slots(v)[i] # Junk
  BY <1>1, <1>3 DEF Shown
<1> QED
  BY <1>1, <1>3, <1>4, CharsShown DEF view

LEMMA EndedBlock ==
  ASSUME NEW c \in Lengths, NEW s \in Block(c), NEW n \in Lengths, n < c, Shown(s, n), NEW ends
  PROVE  Seen(Ended(s, n, ends), n) \in Block(c) /\ Shown(Seen(Ended(s, n, ends), n), n)
<1>1. n \in Nat /\ c \in Nat /\ n <= n /\ n <= c
  BY Truncated
<1>2. Ended(s, n, ends) \in Block(c) /\ Shown(Ended(s, n, ends), n)
  BY <1>1, TerminateShown DEF Ended
<1> QED
  BY <1>1, <1>2, SeenShown

\* What ends with a terminator that has been written, or that was there.
LEMMA EndedNul ==
  ASSUME NEW c \in Lengths, NEW s \in Block(c), NEW n \in Nat, n < c, NEW ends,
         ends \/ s[n] = Nul
  PROVE  Seen(Ended(s, n, ends), n)[n] = Nul
<1>1. PICK t \in Block(c) : t = Ended(s, n, ends) /\ t[n] = Nul
  BY TerminateInside, TerminateNul DEF Ended
<1>2. Seen(t, n)[n] = Nul
  BY <1>1, SeenSame
<1> QED
  BY <1>1, <1>2

LEMMA TakeOverOwns ==
  ASSUME Owns, NEW v \in Strs, NEW w \in alive, v # w, NEW s \in Block(N), NEW ends,
         TakeOver(v, w, s, ends), tag' = tag, alive' = alive \cup {v}, last'.out \in Outcomes
  PROVE  /\ Owns'
         /\ ends \/ (IF IsDynamic(w) THEN NullTerminated(w) ELSE s[size(w)] = Nul)
              => NullTerminated(v)'
         /\ \A u \in alive' \ {v, w} : u \in alive /\ size(u)' = size(u) /\ Slots(u)' = Slots(u)
<1>1. /\ str' = [str EXCEPT ![v] = str[w], ![w] = Buffered(0)]
      /\ heap' = heap \ Owned(v)
      /\ mem' = [p \in Places |->
           IF p = w THEN Seen(Emptied(w), 0)
           ELSE IF p = v THEN IF IsDynamic(w) THEN Released(v)
                              ELSE Seen(Ended(Write(s, 0, view(w)), size(w), ends), size(w))
           ELSE IF p \in Owned(v) THEN Released(p)
           ELSE IF p \in Owned(w) THEN Seen(Ended(mem[p], size(w), ends), size(w))
           ELSE mem[p]]
  BY DEF TakeOver
<1>2. w \in Strs /\ alive' \subseteq Strs /\ 0 \in Lengths /\ N \in Lengths /\ N \in Nat \ {0}
  BY LettersOf, Truncated DEF Owns, Lengths
<1>3. /\ \A u \in Strs \ {v, w} : str'[u] = str[u]
      /\ str'[v] = str[w] /\ str'[w] = Buffered(0)
      /\ str' \in [Strs -> [dyn : BOOLEAN, ptr : Blocks \cup {NoBlock}, size : Lengths]]
  <2>1. Buffered(0) \in [dyn : BOOLEAN, ptr : Blocks \cup {NoBlock}, size : Lengths]
    BY <1>2 DEF Buffered
  <2> QED
    BY <1>1, <1>2, <2>1 DEF Owns
<1>4. /\ \A u \in Strs \ {v, w} : /\ (IsDynamic(u)' <=> IsDynamic(u)) /\ size(u)' = size(u)
      /\ (IsDynamic(v)' <=> IsDynamic(w)) /\ size(v)' = size(w)
      /\ ~IsDynamic(w)' /\ size(w)' = 0
  BY <1>2, <1>3 DEF IsDynamic, size, Buffered
<1>5. Strs \cap Blocks = {}
  BY StringsAssumption
<1>6. ASSUME NEW u \in alive, u # v, IsDynamic(u) PROVE str[u].ptr \notin Owned(v) /\ str[u].ptr \in Blocks
  BY <1>6 DEF Owns, Owned
<1>7. PICK c \in Lengths : /\ Slots(w) \in Block(c) /\ size(w) < c /\ (~IsDynamic(w) => c = N)
                           /\ Shown(Slots(w), size(w))
  BY DEF Owns, Held
<1>8. size(w) \in Lengths
  BY <1>2 DEF Owns, size
<1> DEFINE ended == ends \/ (IF IsDynamic(w) THEN NullTerminated(w) ELSE s[size(w)] = Nul)
<1>9. /\ Slots(v)' \in Block(c) /\ \A i \in 0 .. size(w) - 1 : Slots(v)'[i] # Junk
      /\ ended => Slots(v)'[size(w)] = Nul
  <2>1. CASE IsDynamic(w)
    <3> DEFINE b == str[w].ptr
    <3>1. b \in Places /\ b # v /\ b # w /\ b \notin Owned(v) /\ b \in Owned(w) /\ Slots(w) = mem[b]
      BY <1>2, <1>5, <1>6, <2>1 DEF Places, Owned, Slots, data
    <3>2. mem'[b] = Seen(Ended(mem[b], size(w), ends), size(w))
      BY <1>1, <3>1
    <3>3. Slots(v)' = mem'[b]
      BY <1>3, <1>4, <2>1 DEF Slots, data
    <3> HIDE DEF b
    <3>4. Seen(Ended(mem[b], size(w), ends), size(w)) \in Block(c)
          /\ Shown(Seen(Ended(mem[b], size(w), ends), size(w)), size(w))
      BY <1>7, <1>8, <3>1, EndedBlock
    <3>5. size(w) \in Nat /\ (ended => ends \/ mem[b][size(w)] = Nul)
      BY <1>8, <2>1, <3>1, Truncated DEF NullTerminated, at
    <3> HIDE DEF ended
    <3>6. ended => Seen(Ended(mem[b], size(w), ends), size(w))[size(w)] = Nul
      BY <1>7, <3>1, <3>5, EndedNul
    <3> QED
      BY <3>2, <3>3, <3>4, <3>6 DEF Shown
  <2>2. CASE ~IsDynamic(w)
    <3>1. v \in Places
      BY DEF Places
    <3>2. mem'[v] = Seen(Ended(Write(s, 0, view(w)), size(w), ends), size(w))
      BY <1>1, <2>2, <3>1
    <3>3. Slots(v)' = mem'[v]
      BY <1>3, <1>4, <2>2 DEF Slots, data
    <3>4. /\ view(w) \in Seq(Alphabet) /\ Len(view(w)) = size(w) /\ size(w) \in Nat
          /\ size(w) <= N /\ size(w) < N
      BY <1>2, <1>7, <1>8, <2>2, ViewWord, Truncated
    <3>5. /\ Write(s, 0, view(w)) \in Block(N) /\ Shown(Write(s, 0, view(w)), size(w))
      BY <1>2, <3>4, FrontShown
    <3>6. Seen(Ended(Write(s, 0, view(w)), size(w), ends), size(w)) \in Block(N)
          /\ Shown(Seen(Ended(Write(s, 0, view(w)), size(w), ends), size(w)), size(w))
      BY <1>2, <1>8, <3>4, <3>5, EndedBlock
    <3>7. PICK x \in Block(N) : x = Write(s, 0, view(w)) /\ x[size(w)] = s[size(w)]
      <4>1. view(w) \in Seq(Letters) /\ view(w) # Lost /\ 0 + Len(view(w)) <= N /\ 0 \in Nat
        BY <3>4, ViewWord
      <4>2. \A i \in 0 .. N - 1 :
              Write(s, 0, view(w))[i] = IF i \in 0 .. 0 + Len(view(w)) - 1
                                        THEN view(w)[i - 0 + 1] ELSE s[i]
        BY <1>2, <4>1, WriteInside DEF Overlaid
      <4>3. size(w) \in 0 .. N - 1 /\ size(w) \notin 0 .. 0 + Len(view(w)) - 1
        BY <1>2, <3>4
      <4> QED
        BY <3>5, <4>2, <4>3
    <3>8. ended => ends \/ x[size(w)] = Nul
      BY <2>2, <3>7
    <3> HIDE DEF ended
    <3>9. ended => Seen(Ended(x, size(w), ends), size(w))[size(w)] = Nul
      BY <1>2, <3>4, <3>8, EndedNul
    <3> QED
      BY <1>7, <2>2, <3>2, <3>3, <3>6, <3>7, <3>9 DEF Shown
  <2> QED
    BY <2>1, <2>2
<1>10. Held(v)'
  BY <1>4, <1>7, <1>9 DEF Held, Shown
<1>11. Held(w)'
  <2>1. Emptied(w) \in Block(N)
    <3>1. CASE IsDynamic(w)
      BY <1>2, <3>1, StorageMem DEF Emptied
    <3>2. CASE ~IsDynamic(w)
      BY <1>7, <3>2 DEF Emptied, Slots, data
    <3> QED
      BY <3>1, <3>2
  <2>2. Seen(Emptied(w), 0) \in Block(N)
    BY <1>2, <2>1, SeenBlock
  <2>3. Slots(w)' = Seen(Emptied(w), 0)
    BY <1>1, <1>2, <1>4 DEF Slots, data, Places
  <2> QED
    BY <1>2, <1>4, <2>2, <2>3 DEF Held, Shown
<1>12. ASSUME NEW u \in alive' \ {v, w}
       PROVE  Held(u)' /\ u \in alive /\ size(u)' = size(u) /\ Slots(u)' = Slots(u)
  <2>1. u \in alive /\ u \in Strs \ {v, w} /\ Held(u)
    BY <1>2, <1>12 DEF Owns
  <2>2. /\ data(u) \in Places /\ data(u) \notin {v, w} /\ data(u) \notin Owned(v)
        /\ data(u) \notin Owned(w) /\ data(u)' = data(u)
    <3>1. CASE IsDynamic(u)
      <4>1. str[u].ptr \notin Owned(v) /\ str[u].ptr \in Blocks
        BY <1>6, <2>1, <3>1
      <4>2. str[u].ptr \notin Owned(w)
        BY <2>1, <3>1 DEF Owns, Owned
      <4> QED
        BY <1>2, <1>3, <1>4, <1>5, <2>1, <3>1, <4>1, <4>2 DEF data, Places
    <3>2. CASE ~IsDynamic(u)
      <4>1. Owned(v) \subseteq Blocks /\ Owned(w) \subseteq Blocks
        BY <1>2 DEF Owns, Owned
      <4> QED
        BY <1>2, <1>4, <1>5, <2>1, <3>2, <4>1 DEF data, Places
    <3> QED
      BY <3>1, <3>2
  <2>3. Slots(u)' = Slots(u)
    BY <1>1, <2>2 DEF Slots
  <2> QED
    BY <1>4, <2>1, <2>3 DEF Held, Shown
<1>13. supports_reallocation' = supports_reallocation
  BY DEF supports_reallocation
<1>14. ASSUME NEW u \in Strs, IsDynamic(u)'
       PROVE  u \in alive' /\ str'[u].ptr \in heap' /\ supports_reallocation'
  <2>1. CASE u = v
    <3>1. IsDynamic(w) /\ str'[u].ptr = str[w].ptr
      BY <1>3, <1>4, <1>14, <2>1
    <3> QED
      BY <1>1, <1>2, <1>6, <1>13, <2>1, <3>1 DEF Owns
  <2>2. CASE u # v
    <3>1. u # w /\ IsDynamic(u) /\ str'[u].ptr = str[u].ptr
      BY <1>3, <1>4, <1>14, <2>2
    <3>2. u \in alive /\ str[u].ptr \in heap /\ supports_reallocation
      BY <3>1 DEF Owns
    <3> QED
      BY <1>1, <1>6, <1>13, <2>2, <3>1, <3>2
  <2> QED
    BY <2>1, <2>2
<1>15. ASSUME NEW a \in heap' PROVE \E u \in alive' : IsDynamic(u)' /\ str'[u].ptr = a
  <2>1. a \in heap /\ a \notin Owned(v)
    BY <1>1
  <2>2. PICK u \in alive : IsDynamic(u) /\ str[u].ptr = a
    BY <2>1 DEF Owns
  <2>3. u # v /\ u \in Strs
    BY <2>1, <2>2 DEF Owned, Owns
  <2>4. CASE u = w
    BY <1>3, <1>4, <2>2, <2>4
  <2>5. CASE u # w
    BY <1>3, <1>4, <2>2, <2>3, <2>5
  <2> QED
    BY <2>4, <2>5
<1>16. ASSUME NEW t \in alive', NEW u \in alive', t # u, IsDynamic(t)', IsDynamic(u)'
       PROVE  str'[t].ptr # str'[u].ptr
  <2>1. \A a \in alive' : IsDynamic(a)' => LET o == IF a = v THEN w ELSE a
                                          IN  o \in alive /\ IsDynamic(o) /\ str'[a].ptr = str[o].ptr
                                              /\ a # w
    BY <1>2, <1>3, <1>4
  <2> DEFINE o(a) == IF a = v THEN w ELSE a
  <2>2. o(t) \in alive /\ IsDynamic(o(t)) /\ str'[t].ptr = str[o(t)].ptr /\ t # w
    BY <1>16, <2>1
  <2>3. o(u) \in alive /\ IsDynamic(o(u)) /\ str'[u].ptr = str[o(u)].ptr /\ u # w
    BY <1>16, <2>1
  <2>4. o(t) # o(u)
    BY <1>16, <2>2, <2>3
  <2> HIDE DEF o
  <2> QED
    BY <2>2, <2>3, <2>4 DEF Owns
<1>17. \A u \in alive' : Held(u)'
  BY <1>10, <1>11, <1>12
<1>18. heap' \subseteq Blocks
  BY <1>1 DEF Owns
<1>19. Owns'
  BY <1>2, <1>3, <1>14, <1>15, <1>16, <1>17, <1>18 DEF Owns
<1>20. ended => NullTerminated(v)'
  BY <1>4, <1>9 DEF NullTerminated, at
<1> QED
  BY <1>12, <1>19, <1>20

-------------------------------------------------------------------------------
(* the operations on two strings *)

LEMMA DestroyOwns ==
  ASSUME Owns, NEW v \in Strs, Destroy(v)
  PROVE  Proper
<1>1. /\ v \in alive /\ alive' = alive \ {v}
      /\ str' = [str EXCEPT ![v] = Buffered(0)]
      /\ heap' = heap \ Owned(v)
      /\ mem' = [p \in Places |-> IF p \in Owned(v) \cup {v} THEN Released(p) ELSE mem[p]]
      /\ last'.out \in Outcomes /\ tag' = tag
  BY DEF Destroy, Called, Outcomes
<1>2. 0 \in Lengths
  BY Truncated DEF Lengths
<1>3. /\ \A u \in Strs \ {v} : str'[u] = str[u]
      /\ str'[v] = Buffered(0)
      /\ str' \in [Strs -> [dyn : BOOLEAN, ptr : Blocks \cup {NoBlock}, size : Lengths]]
  <2>1. Buffered(0) \in [dyn : BOOLEAN, ptr : Blocks \cup {NoBlock}, size : Lengths]
    BY <1>2 DEF Buffered
  <2> QED
    BY <1>1, <2>1 DEF Owns
<1>4. /\ \A u \in Strs \ {v} : (IsDynamic(u)' <=> IsDynamic(u)) /\ size(u)' = size(u)
      /\ ~IsDynamic(v)'
  BY <1>3 DEF IsDynamic, size, Buffered
<1>5. ASSUME NEW u \in alive \ {v}
      PROVE  data(u) \in Places /\ data(u) \notin Owned(v) \cup {v} /\ data(u)' = data(u)
  <2>1. u \in Strs \ {v} /\ Strs \cap Blocks = {} /\ Owned(v) \subseteq Blocks
    BY <1>1, <1>5, StringsAssumption DEF Owns, Owned
  <2>2. CASE IsDynamic(u)
    <3>1. str[u].ptr \in Blocks /\ str[u].ptr \notin Owned(v)
      BY <1>1, <2>2 DEF Owns, Owned
    <3> QED
      BY <1>3, <1>4, <2>1, <2>2, <3>1 DEF data, Places
  <2>3. CASE ~IsDynamic(u)
    BY <1>4, <2>1, <2>3 DEF data, Places
  <2> QED
    BY <2>2, <2>3
<1>6. ASSUME NEW u \in alive \ {v}
      PROVE  Held(u)' /\ size(u)' = size(u) /\ Slots(u)' = Slots(u)
  <2>1. Slots(u)' = Slots(u)
    BY <1>1, <1>5 DEF Slots
  <2>2. Held(u) /\ u \in Strs \ {v}
    BY DEF Owns
  <2> QED
    BY <1>4, <2>1, <2>2 DEF Held, Shown
<1>7. supports_reallocation' = supports_reallocation
  BY <1>1 DEF supports_reallocation
<1>8. ASSUME NEW u \in Strs, IsDynamic(u)'
      PROVE  u \in alive' /\ str'[u].ptr \in heap' /\ supports_reallocation'
  <2>1. u # v /\ IsDynamic(u) /\ str'[u].ptr = str[u].ptr
    BY <1>3, <1>4, <1>8
  <2>2. u \in alive /\ str[u].ptr \in heap /\ supports_reallocation
    BY <2>1 DEF Owns
  <2>3. str[u].ptr \notin Owned(v)
    BY <1>1, <2>1, <2>2 DEF Owns, Owned
  <2> QED
    BY <1>1, <1>7, <2>1, <2>2, <2>3
<1>9. ASSUME NEW a \in heap' PROVE \E u \in alive' : IsDynamic(u)' /\ str'[u].ptr = a
  <2>1. a \in heap /\ a \notin Owned(v)
    BY <1>1
  <2>2. PICK u \in alive : IsDynamic(u) /\ str[u].ptr = a
    BY <2>1 DEF Owns
  <2>3. u # v /\ u \in Strs
    BY <2>1, <2>2 DEF Owned, Owns
  <2> QED
    BY <1>1, <1>3, <1>4, <2>2, <2>3
<1>10. ASSUME NEW t \in alive', NEW u \in alive', t # u, IsDynamic(t)', IsDynamic(u)'
       PROVE  str'[t].ptr # str'[u].ptr
  <2>1. t \in alive \ {v} /\ u \in alive \ {v}
    BY <1>1
  <2>2. str'[t] = str[t] /\ str'[u] = str[u] /\ IsDynamic(t) /\ IsDynamic(u)
    BY <1>3, <1>4, <1>10, <2>1 DEF Owns
  <2> QED
    BY <1>10, <2>1, <2>2 DEF Owns
<1>11. alive' \subseteq Strs /\ heap' \subseteq Blocks
  BY <1>1 DEF Owns
<1>12. Owns'
  BY <1>1, <1>3, <1>6, <1>8, <1>9, <1>10, <1>11 DEF Owns
<1>13. last'.v = v /\ last'.out = "ok"
  BY DEF Destroy, Called
<1>14. \A u \in alive' : EndKept(u)
  BY <1>1, <1>6, <1>13, Untouched
<1> QED
  BY <1>12, <1>13, <1>14 DEF Proper, UndefinedOnly

LEMMA Begins ==
  ASSUME Owns, NEW v \in alive
  PROVE  /\ Made(supports_reallocation, IsDynamic(v), Storage(v)) /\ Storage(v).s # Lost
         /\ Sound(Storage(v)) /\ Storage(v).size = size(v) /\ Storage(v).s = Slots(v)
         /\ Storage(v).dyn = IsDynamic(v) /\ size(v) \in Lengths /\ size(v) \in Nat
         /\ Cap(Slots(v)) \in Nat /\ Cap(Slots(v)) \in Lengths /\ size(v) < Cap(Slots(v))
<1>1. /\ Made(supports_reallocation, IsDynamic(v), Storage(v)) /\ Storage(v).s # Lost
      /\ Sound(Storage(v)) /\ size(v) \in Lengths
  BY StorageMade
<1>2. /\ Storage(v).size = size(v) /\ Storage(v).s = Slots(v) /\ Storage(v).dyn = IsDynamic(v)
  BY DEF Storage
<1>3. /\ Cap(Storage(v).s) \in Lengths /\ Cap(Storage(v).s) \in Nat
      /\ Storage(v).size \in Nat /\ Storage(v).size < Cap(Storage(v).s)
  BY <1>1, OfSound
<1> QED
  BY <1>1, <1>2, <1>3

LEMMA MovesOwn ==
  ASSUME Owns, NEW v \in Strs, NEW w \in Strs, v # w, ConstructMove(v, w) \/ AssignMove(v, w)
  PROVE  Proper
<1>1. ASSUME ConstructMove(v, w) PROVE Proper
  <2>1. /\ w \in alive /\ TakeOver(v, w, Fresh, FALSE) /\ tag' = tag
        /\ alive' = alive \cup {v} /\ last'.out \in Outcomes /\ last'.out = "ok"
        /\ last'.op = "construct_move" /\ last'.v = v /\ last'.args = <<w>>
    BY <1>1 DEF ConstructMove, Called, Outcomes
  <2>2. /\ Owns'
        /\ (IF IsDynamic(w) THEN NullTerminated(w) ELSE Fresh[size(w)] = Nul) => NullTerminated(v)'
        /\ \A u \in alive' \ {v, w} : u \in alive /\ size(u)' = size(u) /\ Slots(u)' = Slots(u)
    BY <2>1, FreshBlock, TakeOverOwns
  <2>3. ~IsDynamic(w) /\ supports_reallocation => Fresh[size(w)] = Nul
    <3>1. PICK c \in Lengths : Slots(w) \in Block(c) /\ size(w) < c /\ (~IsDynamic(w) => c = N)
      BY <2>1 DEF Owns, Held
    <3>2. size(w) \in Nat /\ N \in Nat
      BY <2>1, Begins, LettersOf
    <3>3. ~IsDynamic(w) => size(w) \in 0 .. N - 1
      BY <3>1, <3>2
    <3> QED
      BY <3>3 DEF Fresh, Zeroed, Filled
  <2>4. EndKept(v)
    <3>1. CASE ~supports_reallocation
      BY <2>1, <3>1 DEF EndKept
    <3>2. CASE ~NullTerminated(w)
      BY <2>1, <3>2 DEF EndKept
    <3>3. CASE supports_reallocation /\ NullTerminated(w)
      BY <2>2, <2>3, <3>3 DEF EndKept
    <3> QED
      BY <3>1, <3>2, <3>3
  <2>5. EndKept(w)
    BY <2>1 DEF EndKept
  <2>6. \A u \in alive' \ {v, w} : EndKept(u)
    BY <2>1, <2>2, Untouched
  <2> QED
    BY <2>1, <2>2, <2>4, <2>5, <2>6 DEF Proper, UndefinedOnly
<1>2. ASSUME AssignMove(v, w) PROVE Proper
  <2> DEFINE s == IF IsDynamic(v) THEN Zeroed(N) ELSE mem[v]
  <2>1. /\ v \in alive /\ w \in alive /\ TakeOver(v, w, s, TRUE) /\ tag' = tag
        /\ alive' = alive \cup {v} /\ last'.out \in Outcomes /\ last'.out = "ok"
        /\ last'.op = "assign_move" /\ last'.v = v /\ last'.args = <<w>>
    BY <1>2 DEF AssignMove, Called, Outcomes
  <2>2. s \in Block(N)
    <3>1. CASE IsDynamic(v)
      BY <3>1, LettersOf, StorageMem
    <3>2. CASE ~IsDynamic(v)
      BY <2>1, <3>2 DEF Owns, Held, Slots, data
    <3> QED
      BY <3>1, <3>2
  <2> HIDE DEF s
  <2>3. /\ Owns' /\ NullTerminated(v)'
        /\ \A u \in alive' \ {v, w} : u \in alive /\ size(u)' = size(u) /\ Slots(u)' = Slots(u)
    BY <2>1, <2>2, TakeOverOwns
  <2>4. EndKept(v) /\ EndKept(w)
    BY <2>1, <2>3 DEF EndKept
  <2>5. \A u \in alive' \ {v, w} : EndKept(u)
    BY <2>1, <2>3, Untouched
  <2> QED
    BY <2>1, <2>3, <2>4, <2>5 DEF Proper, UndefinedOnly
<1> QED
  BY <1>1, <1>2

LEMMA SwapOwns ==
  ASSUME Owns, NEW v \in Strs, NEW w \in Strs, Swap(v, w)
  PROVE  Proper
<1> DEFINE Kept(u) == Seen(cond_null_terminate(Write(Unset(N), 0, view(u)), size(u)), size(u))
           Other(u) == IF u = v THEN w ELSE IF u = w THEN v ELSE u
<1>1. /\ v \in alive /\ w \in alive /\ v # w /\ tag' = tag /\ alive' = alive /\ heap' = heap
      /\ str' = [str EXCEPT ![v] = str[w], ![w] = str[v]]
      /\ mem' = [p \in Places |->
           IF p = v THEN IF IsDynamic(w) THEN Released(v) ELSE Kept(w)
           ELSE IF p = w THEN IF IsDynamic(v) THEN Released(w) ELSE Kept(v)
           ELSE IF p \in Owned(v) THEN cond_null_terminate(mem[p], size(v))
           ELSE IF p \in Owned(w) THEN cond_null_terminate(mem[p], size(w))
           ELSE mem[p]]
      /\ last'.out \in Outcomes
  BY DEF Swap, Called, Outcomes
<1>2. \A u \in Strs : Other(u) \in Strs /\ (u \in alive => Other(u) \in alive)
                      /\ Other(Other(u)) = u /\ str'[u] = str[Other(u)]
  BY <1>1 DEF Owns
<1>3. \A u \in Strs : (IsDynamic(u)' <=> IsDynamic(Other(u))) /\ size(u)' = size(Other(u))
  BY <1>2 DEF IsDynamic, size
<1>4. str' \in [Strs -> [dyn : BOOLEAN, ptr : Blocks \cup {NoBlock}, size : Lengths]]
  BY <1>1 DEF Owns
<1>5. ASSUME NEW u \in {v, w}, NEW c \in Lengths, Slots(u) \in Block(c), size(u) < c,
             ~IsDynamic(u) => c = N, Shown(Slots(u), size(u))
      PROVE  /\ cond_null_terminate(Slots(u), size(u)) \in Block(c)
             /\ Shown(cond_null_terminate(Slots(u), size(u)), size(u))
             /\ cond_null_terminate(Slots(u), size(u))[size(u)] = Nul
             /\ ~IsDynamic(u) => Kept(u) \in Block(c) /\ Shown(Kept(u), size(u))
                                /\ Kept(u)[size(u)] = Nul
  <2>1. u \in alive /\ size(u) \in Lengths
    BY <1>1 DEF Owns, size
  <2>0. size(u) \in Nat /\ size(u) <= size(u)
    <3>1. size(u) \in Nat
      BY <2>1, Truncated
    <3> QED
      BY <3>1
  <2>2. /\ cond_null_terminate(Slots(u), size(u)) \in Block(c)
        /\ Shown(cond_null_terminate(Slots(u), size(u)), size(u))
        /\ cond_null_terminate(Slots(u), size(u))[size(u)] = Nul
    BY <1>5, <2>0, TerminateShown, TerminateNul
  <2>3. ASSUME ~IsDynamic(u)
        PROVE  Kept(u) \in Block(c) /\ Shown(Kept(u), size(u)) /\ Kept(u)[size(u)] = Nul
    <3>1. c = N /\ N \in Nat /\ N \in Lengths /\ Unset(N) \in Block(N) /\ size(u) <= N
      BY <1>5, <2>0, <2>3, LettersOf, StorageMem
    <3>2. view(u) \in Seq(Alphabet) /\ Len(view(u)) = size(u)
      BY <2>1, ViewWord
    <3>3. /\ Write(Unset(N), 0, view(u)) \in Block(N)
          /\ Shown(Write(Unset(N), 0, view(u)), size(u))
      BY <2>0, <3>1, <3>2, FrontShown
    <3>4. /\ cond_null_terminate(Write(Unset(N), 0, view(u)), size(u)) \in Block(N)
          /\ Shown(cond_null_terminate(Write(Unset(N), 0, view(u)), size(u)), size(u))
      BY <1>5, <2>0, <3>1, <3>3, TerminateShown
    <3>5. PICK t \in Block(N) : /\ t = cond_null_terminate(Write(Unset(N), 0, view(u)), size(u))
                               /\ t[size(u)] = Nul /\ Shown(t, size(u))
      BY <1>5, <2>0, <3>1, <3>3, <3>4, TerminateNul
    <3>6. Seen(t, size(u)) \in Block(N) /\ Shown(Seen(t, size(u)), size(u))
      BY <2>0, <3>1, <3>5, SeenShown
    <3>7. Seen(t, size(u))[size(u)] = Nul
      BY <1>5, <2>0, <3>1, <3>5, SeenSame
    <3> QED
      BY <3>1, <3>5, <3>6, <3>7
  <2> QED
    BY <2>2, <2>3
<1> HIDE DEF Kept
<1>6. Strs \cap Blocks = {} /\ Owned(v) \subseteq Blocks /\ Owned(w) \subseteq Blocks
  BY <1>1, StringsAssumption DEF Owns, Owned
<1>7. ASSUME NEW u \in alive
      PROVE  /\ Held(u)'
             /\ u \in {v, w} => NullTerminated(u)'
             /\ u \notin {v, w} => size(u)' = size(u) /\ Slots(u)' = Slots(u)
  <2>1. PICK o \in alive : o = Other(u)
    BY <1>2 DEF Owns
  <2>2. u \in Strs /\ o \in Strs
    BY DEF Owns
  <2>3. (IsDynamic(u)' <=> IsDynamic(o)) /\ size(u)' = size(o) /\ str'[u] = str[o]
    BY <1>2, <1>3, <2>1, <2>2
  <2>4. PICK c \in Lengths : /\ Slots(o) \in Block(c) /\ size(o) < c /\ (~IsDynamic(o) => c = N)
                             /\ Shown(Slots(o), size(o))
    BY DEF Owns, Held
  <2>6. (u \in {v, w} => o \in {v, w}) /\ (u \notin {v, w} => o = u)
    BY <2>1
  <2>5. /\ Slots(u)' \in Block(c) /\ \A i \in 0 .. size(o) - 1 : Slots(u)'[i] # Junk
        /\ u \in {v, w} => Slots(u)'[size(o)] = Nul
        /\ u \notin {v, w} => Slots(u)' = Slots(u)
    <3>1. CASE IsDynamic(o)
      <4>1. /\ str[o].ptr \in Places /\ str[o].ptr \notin Strs /\ Slots(o) = mem[str[o].ptr]
            /\ Slots(u)' = mem'[str[o].ptr]
        BY <1>6, <2>2, <2>3, <3>1 DEF Owns, Places, Slots, data
      <4>2. CASE o \in {v, w}
        <5>1. mem'[str[o].ptr] = cond_null_terminate(mem[str[o].ptr], size(o))
          <6>1. o = v => str[o].ptr \in Owned(v)
            BY <3>1 DEF Owned
          <6>2. o = w => str[o].ptr \in Owned(w) /\ str[o].ptr \notin Owned(v)
            BY <1>1, <3>1 DEF Owned, Owns
          <6> QED
            BY <1>1, <4>1, <4>2, <6>1, <6>2
        <5>2. u \in {v, w}
          BY <2>1, <4>2
        <5> QED
          BY <1>5, <2>4, <4>1, <4>2, <5>1, <5>2 DEF Shown
      <4>3. CASE o \notin {v, w}
        <5>1. str[o].ptr \notin Owned(v) /\ str[o].ptr \notin Owned(w)
          BY <1>1, <3>1, <4>3 DEF Owned, Owns
        <5>2. mem'[str[o].ptr] = mem[str[o].ptr]
          BY <1>1, <4>1, <5>1
        <5> QED
          BY <2>4, <2>6, <4>1, <4>3, <5>2 DEF Shown
      <4> QED
        BY <4>2, <4>3
    <3>2. CASE ~IsDynamic(o)
      <4>1. u \in Places /\ u \notin Owned(v) /\ u \notin Owned(w) /\ Slots(u)' = mem'[u]
        BY <1>6, <2>2, <2>3, <3>2 DEF Places, Slots, data
      <4>2. CASE u \in {v, w}
        <5>1. mem'[u] = Kept(o) /\ o \in {v, w}
          BY <1>1, <2>1, <3>2, <4>1, <4>2
        <5> QED
          BY <1>5, <2>4, <3>2, <4>1, <4>2, <5>1 DEF Shown
      <4>3. CASE u \notin {v, w}
        <5>1. mem'[u] = mem[u] /\ o = u /\ Slots(o) = mem[u]
          BY <1>1, <2>1, <3>2, <4>1, <4>3 DEF Slots, data
        <5> QED
          BY <2>4, <4>1, <4>3, <5>1 DEF Shown
      <4> QED
        BY <4>2, <4>3
    <3> QED
      BY <3>1, <3>2
  <2>7. Held(u)'
    BY <2>3, <2>4, <2>5 DEF Held, Shown
  <2>8. u \in {v, w} => NullTerminated(u)'
    BY <2>3, <2>5 DEF NullTerminated, at
  <2> QED
    BY <2>3, <2>5, <2>6, <2>7, <2>8
<1> HIDE DEF Other
<1>8. supports_reallocation' = supports_reallocation
  BY <1>1 DEF supports_reallocation
<1>9. ASSUME NEW u \in Strs, IsDynamic(u)'
      PROVE  u \in alive' /\ str'[u].ptr \in heap' /\ supports_reallocation'
  <2>1. PICK o \in Strs : o = Other(u) /\ Other(o) = u /\ str'[u] = str[o] /\ IsDynamic(o)
    BY <1>2, <1>3, <1>9
  <2>2. o \in alive /\ str[o].ptr \in heap /\ supports_reallocation
    BY <2>1 DEF Owns
  <2> QED
    BY <1>1, <1>2, <1>8, <2>1, <2>2
<1>10. ASSUME NEW a \in heap' PROVE \E u \in alive' : IsDynamic(u)' /\ str'[u].ptr = a
  <2>1. PICK o \in alive : IsDynamic(o) /\ str[o].ptr = a
    BY <1>1 DEF Owns
  <2>2. o \in Strs /\ Other(o) \in Strs /\ Other(o) \in alive /\ Other(Other(o)) = o
    BY <1>2 DEF Owns
  <2> QED
    BY <1>1, <1>2, <1>3, <2>1, <2>2
<1>11. ASSUME NEW t \in alive', NEW u \in alive', t # u, IsDynamic(t)', IsDynamic(u)'
       PROVE  str'[t].ptr # str'[u].ptr
  <2>1. t \in Strs /\ u \in Strs /\ t \in alive /\ u \in alive
    BY <1>1 DEF Owns
  <2>2. /\ Other(t) \in alive /\ Other(u) \in alive /\ Other(t) # Other(u)
        /\ str'[t] = str[Other(t)] /\ str'[u] = str[Other(u)]
    BY <1>2, <1>11, <2>1
  <2>3. IsDynamic(Other(t)) /\ IsDynamic(Other(u))
    BY <1>3, <1>11, <2>1
  <2> QED
    BY <2>2, <2>3 DEF Owns
<1>12. alive' \subseteq Strs /\ heap' \subseteq Blocks
  BY <1>1 DEF Owns
<1>13. Owns'
  BY <1>1, <1>4, <1>7, <1>9, <1>10, <1>11, <1>12 DEF Owns
<1>14. last'.v = v /\ last'.out = "ok"
  BY DEF Swap, Called
<1>15. ASSUME NEW u \in alive' PROVE EndKept(u)
  <2>1. u \in alive
    BY <1>1, <1>15
  <2>2. CASE u \in {v, w}
    BY <1>7, <2>1, <2>2 DEF EndKept
  <2>3. CASE u \notin {v, w}
    BY <1>7, <1>14, <2>1, <2>3, Untouched
  <2> QED
    BY <2>2, <2>3
<1> QED
  BY <1>13, <1>14, <1>15 DEF Proper, UndefinedOnly

-------------------------------------------------------------------------------
(* the operations on one string *)

LEMMA CountsAreLengths ==
  /\ Counts \subseteq Lengths /\ Reserved \cup Huge \subseteq Lengths
  /\ Small \cup Huge \subseteq Lengths /\ 0 .. MaxLen \subseteq Lengths
<1>1. MaxLen \in Lengths /\ Reserved \cup Huge \subseteq Lengths
  BY StringsAssumption
<1>2. MaxLen \in Nat /\ MaxLength \in Nat /\ MaxLen <= MaxLength /\ MaxLength >= 15
  BY <1>1, Truncated DEF Lengths
<1>3. 0 .. MaxLen \subseteq Lengths /\ 0 .. 2 \subseteq Lengths
  BY <1>2 DEF Lengths
<1> QED
  BY <1>1, <1>3 DEF Counts, Small

LEMMA TextsWords ==
  ASSUME NEW xs \in Texts0
  PROVE  /\ xs \in Seq(Letters) /\ Source(Foreign(xs)) /\ Len(xs) \in Nat
         /\ xs \in Seq(Alphabet)
<1>1. xs \in Seq(Alphabet)
  BY StringsAssumption DEF Texts0
<1>2. xs \in Seq(Letters)
  BY <1>1, LettersOf
<1> QED
  BY <1>1, <1>2 DEF Source

LEMMA SourcesOf ==
  ASSUME Owns, NEW v \in alive, NEW src \in Sources(v)
  PROVE  Source(src) /\ Length(src) \in Nat
<1>1. CASE \E xs \in Texts0 : src = Foreign(xs)
  BY <1>1, TextsWords DEF Length, Foreign
<1>2. CASE \E a, b \in 0 .. size(v) : a <= b /\ src = Own(a, b)
  <2>1. PICK a \in 0 .. size(v), b \in 0 .. size(v) : a <= b /\ src = Own(a, b)
    BY <1>2
  <2>2. a \in Nat /\ b \in Nat /\ b - a \in Nat
    BY <2>1
  <2>3. Length(src) = b - a
    BY <2>1 DEF Length, Own
  <2> QED
    BY <2>1, <2>2, <2>3 DEF Source
<1> QED
  BY <1>1, <1>2 DEF Sources

\* A text supplies its characters where their number is a length.
LEMMA ForeignSupplies ==
  ASSUME NEW xs, xs \in Seq(Alphabet), NEW n \in Lengths, Len(xs) = n, NEW st
  PROVE  Supplies(Foreign(xs), st, n) /\ Length(Foreign(xs)) = n /\ Foreign(xs).own = FALSE
<1>1. Distance(Foreign(xs)) = n
  BY Truncated DEF Distance, Foreign
<1> QED
  BY <1>1 DEF Supplies, Length, Foreign

LEMMA SourceSupplies ==
  ASSUME Owns, NEW v \in alive, NEW src \in Sources(v), NEW n \in Lengths, Length(src) = n
  PROVE  Supplies(src, Storage(v), n)
<1>1. ASSUME NEW xs \in Texts0, src = Foreign(xs) PROVE Supplies(src, Storage(v), n)
  <2>1. Length(src) = Len(xs) /\ xs \in Seq(Alphabet)
    BY <1>1, TextsWords DEF Length, Foreign
  <2>2. Len(xs) = n
    BY <2>1
  <2> QED
    BY ONLY <1>1, <2>1, <2>2, n \in Lengths, ForeignSupplies
<1>2. ASSUME NEW a \in 0 .. size(v), NEW b \in 0 .. size(v), a <= b, src = Own(a, b)
      PROVE  Supplies(src, Storage(v), n)
  <2>1. size(v) \in Nat /\ Storage(v).size = size(v)
    BY StorageMade, Truncated DEF Storage
  <2>2. b - a = n /\ a \in Nat /\ b \in Nat /\ b <= Storage(v).size
    BY <1>2, <2>1 DEF Length, Own
  <2>3. Distance(src) = n
    BY <1>2, <2>2, Truncated DEF Distance, Own
  <2>4. a + n = b /\ n \in Nat
    BY <1>2, <2>2
  <2> QED
    BY <1>2, <2>2, <2>3, <2>4 DEF Supplies
<1> QED
  BY <1>1, <1>2 DEF Sources

LEMMA ViewSource ==
  ASSUME Owns, NEW v \in alive
  PROVE  Source(Foreign(view(v)))
BY ViewWord DEF Source

\* There is room for what a call that is no exception needs.
LEMMA Countably ==
  ASSUME NEW op, NEW v, NEW args, ~LeavesStorage(op, v, args)
  PROVE  Room(supports_reallocation, Wanted(op, v, args))
BY DEF LeavesStorage, Countable, Room

LEMMA Wants ==
  ASSUME NEW v
  PROVE  /\ \A n, ch : Wanted("construct_fill", v, <<n, ch>>) = n
         /\ \A n, ch : Wanted("assign_fill", v, <<n, ch>>) = n
         /\ \A n, ch : Wanted("resize", v, <<n, ch>>) = n
         /\ \A n : Wanted("reserve", v, <<n>>) = n
         /\ \A n, r, full : Wanted("resize_and_overwrite", v, <<n, r, full>>) = n
         /\ \A xs : Wanted("construct_range", v, <<xs>>) = Len(xs)
         /\ \A w : Wanted("construct_copy", v, <<w>>) = size(w)
         /\ \A w : Wanted("assign_copy", v, <<w>>) = size(w)
         /\ Wanted("shrink_to_fit", v, <<>>) = size(v)
BY DEF Wanted

LEMMA WantsBehind ==
  ASSUME NEW v
  PROVE  /\ \A src : Wanted("assign", v, <<src>>) = Length(src)
         /\ \A src : Wanted("append", v, <<src>>) = size(v) + Length(src)
         /\ \A i, src : Wanted("insert", v, <<i, src>>) = size(v) + Length(src)
         /\ \A i, n, src : Wanted("replace", v, <<i, n, src>>) = size(v) - n + Length(src)
BY DEF Wanted

LEMMA WantsFind ==
  ASSUME NEW v, NEW what, NEW with, Len(what) \in 1 .. Len(with)
  PROVE  Wanted("find_and_replace", v, <<what, with>>)
           = size(v) + (size(v) \div Len(what)) * (Len(with) - Len(what))
BY DEF Wanted

LEMMA WantsSubstr ==
  ASSUME NEW v, NEW xs, NEW i, NEW n
  PROVE  Wanted("append_substr", v, <<xs, i, n>>)
           = size(v) + (IF n < Len(xs) - i THEN n ELSE Len(xs) - i)
BY DEF Wanted

\* Storage that is terminated, or that an exception has left alone, ends as it should.
LEMMA ClosedEnds ==
  ASSUME Owns, NEW v \in alive, NEW op, NEW r, Made(supports_reallocation, IsDynamic(v), r),
         Closes(Storage(v), r)
  PROVE  r.s # Lost => Ending(op, v, r)
<1>1. CASE \E x : r.s = cond_null_terminate(x, r.size)
  BY <1>1, Terminated DEF Ending
<1>2. CASE r.out # "ok" /\ r.s = Storage(v).s /\ r.size = Storage(v).size
  <2>1. r.s = Slots(v) /\ r.size = size(v)
    BY <1>2 DEF Storage
  <2> QED
    BY <1>2, <2>1 DEF Ending, view, at
<1> QED
  BY <1>1, <1>2 DEF Closes

LEMMA ClosedGood ==
  ASSUME Owns, NEW v \in alive, NEW op, NEW args, NEW r,
         Made(supports_reallocation, IsDynamic(v), r), LeavesStorage(op, v, args) \/ Sound(r),
         Closes(Storage(v), r)
  PROVE  Good(op, v, args, r)
BY ClosedEnds DEF Good

LEMMA BornEnds ==
  ASSUME NEW v, v \notin alive, NEW op, NEW r, Made(supports_reallocation, IsDynamic(v), r),
         Closes(Newborn, r)
  PROVE  r.s # Lost /\ (v \in alive \/ r.out = "ok") => Ending(op, v, r)
BY Terminated DEF Closes, Ending

LEMMA CreateOwns ==
  ASSUME Owns, NEW v \in Strs, Create(v)
  PROVE  Proper
<1> DEFINE re == supports_reallocation
<1>0. /\ Made(re, IsDynamic(v), Newborn) /\ Newborn.s # Lost /\ Sound(Newborn) /\ ~Newborn.dyn
  BY NewbornMade
<1>1. CASE Construct(v)
  <2>1. v \notin alive /\ Apply("construct", v, <<>>, Newborn)
    BY <1>1 DEF Construct
  <2>2. supports_reallocation => 0 \in DOMAIN Newborn.s /\ Newborn.s[Newborn.size] = Nul
    BY LettersOf DEF Newborn, Fresh, Zeroed, Filled
  <2>3. Newborn.size = 0
    BY DEF Newborn
  <2>4. Ending("construct", v, Newborn)
    BY <2>2, <2>3 DEF Ending
  <2> QED
    BY <1>0, <2>1, <2>4, ApplyOwns DEF Good
<1>2. ASSUME NEW n \in Counts, NEW ch \in {Nul, Ch}, ConstructFill(v, n, ch)
      PROVE  Proper
  <2> DEFINE st == uninitialized_construct(re, Newborn, n, Fill(n, ch))
  <2>1. n \in Lengths /\ n \in Nat /\ ch \in Letters /\ ch \in Alphabet
    BY CountsAreLengths, LettersOf, Truncated, StringsAssumption
  <2>2. Fill(n, ch) \in Seq(Letters) /\ n <= Len(Fill(n, ch))
    BY <2>1, FillWord
  <2>3. Made(re, IsDynamic(v), st)
    BY <1>0, <2>1, <2>2, ConstructMade
  <2>4. Fill(n, ch) \in Seq(Alphabet) /\ Len(Fill(n, ch)) = n
    BY <2>1, FillText
  <2>5. Room(re, n) => Sound(st)
    BY <1>0, <2>1, <2>4, ConstructSound
  <2>6. LeavesStorage("construct_fill", v, <<n, ch>>) \/ Room(re, n)
    BY Countably, Wants
  <2>9. v \notin alive /\ n = ToLength(Len(Fill(n, ch)))
    BY <1>2, <2>1, <2>4, Truncated DEF ConstructFill
  <2> HIDE DEF st
  <2>10. st.s # Lost => Closes(Newborn, st)
    BY <1>0, <2>1, <2>2, <2>9, ConstructCloses DEF st
  <2>7. Good("construct_fill", v, <<n, ch>>, st)
    BY <2>3, <2>5, <2>6, <2>9, <2>10, BornEnds DEF Good
  <2>8. Apply("construct_fill", v, <<n, ch>>, st)
    BY <1>2 DEF ConstructFill, st
  <2> QED
    BY <2>7, <2>8, ApplyOwns
<1>3. ASSUME NEW xs \in Texts0, ConstructRange(v, xs) PROVE Proper
  <2> DEFINE st == uninitialized_construct(re, Newborn, Distance(Foreign(xs)), xs)
  <2>1. xs \in Seq(Letters) /\ Len(xs) \in Nat /\ xs \in Seq(Alphabet)
    BY TextsWords
  <2>2. Distance(Foreign(xs)) = ToLength(Len(xs))
    BY DEF Distance, Foreign
  <2>3. Distance(Foreign(xs)) \in Lengths /\ Distance(Foreign(xs)) <= Len(xs)
    BY <2>1, <2>2, Truncated, TruncatedLess
  <2>4. Made(re, IsDynamic(v), st)
    BY <1>0, <2>1, <2>3, ConstructMade
  <2>5. ASSUME Room(re, Len(xs)) PROVE Sound(st)
    <3>1. PICK n \in Nat : n = Len(xs)
      BY <2>1
    <3>2. Room(re, n) /\ Distance(Foreign(xs)) = n
      BY <2>2, <2>5, <3>1, RoomGrows
    <3> QED
      BY <1>0, <2>1, <3>1, <3>2, ConstructSound
  <2>6. LeavesStorage("construct_range", v, <<xs>>) \/ Room(re, Len(xs))
    BY Countably, Wants
  <2>9. v \notin alive
    BY <1>3 DEF ConstructRange
  <2> HIDE DEF st
  <2>10. st.s # Lost => Closes(Newborn, st)
    BY <1>0, <2>1, <2>2, <2>3, ConstructCloses DEF st
  <2>7. Good("construct_range", v, <<xs>>, st)
    BY <2>4, <2>5, <2>6, <2>9, <2>10, BornEnds DEF Good
  <2>8. Apply("construct_range", v, <<xs>>, st)
    BY <1>3 DEF ConstructRange, st
  <2> QED
    BY <2>7, <2>8, ApplyOwns
<1> QED
  BY <1>1, <1>2, <1>3 DEF Create

LEMMA ConstructCopyOwns ==
  ASSUME Owns, NEW v \in Strs, NEW w \in Strs, ConstructCopy(v, w)
  PROVE  Proper
<1> DEFINE re == supports_reallocation
           st == uninitialized_construct(re, Newborn, size(w), view(w))
<1>0. /\ Made(re, IsDynamic(v), Newborn) /\ Newborn.s # Lost /\ Sound(Newborn) /\ ~Newborn.dyn
  BY NewbornMade
<1>1. v \notin alive /\ w \in alive /\ Apply("construct_copy", v, <<w>>, st)
  BY DEF ConstructCopy
<1>2. /\ view(w) \in Seq(Letters) /\ view(w) \in Seq(Alphabet) /\ Len(view(w)) = size(w)
      /\ size(w) \in Lengths /\ size(w) <= Len(view(w)) /\ size(w) \in Nat
  BY <1>1, ViewWord, StorageMade, Truncated
<1>3. Made(re, IsDynamic(v), st)
  BY <1>0, <1>2, ConstructMade
<1>4. Room(re, size(w)) => Sound(st)
  BY <1>0, <1>2, ConstructSound
<1>5. LeavesStorage("construct_copy", v, <<w>>) \/ Room(re, size(w))
  BY Countably, Wants
<1>7. size(w) = ToLength(Len(view(w)))
  BY <1>2, Truncated
<1> HIDE DEF st
<1>8. st.s # Lost => Closes(Newborn, st)
  BY <1>0, <1>2, <1>7, ConstructCloses DEF st
<1>6. Good("construct_copy", v, <<w>>, st)
  BY <1>1, <1>3, <1>4, <1>5, <1>8, BornEnds DEF Good
<1> QED
  BY <1>1, <1>6, ApplyOwns

LEMMA AssignCopyOwns ==
  ASSUME Owns, NEW v \in Strs, NEW w \in Strs, AssignCopy(v, w)
  PROVE  Proper
<1> DEFINE re == supports_reallocation
           src == IF v = w THEN Own(0, size(v)) ELSE Foreign(view(w))
           st == assign_copy(re, Storage(v), src)
<1>1. v \in alive /\ w \in alive /\ Apply("assign_copy", v, <<w>>, st)
  BY DEF AssignCopy
<1>2. /\ size(v) \in Nat /\ size(v) \in Lengths /\ Storage(v).size = size(v)
      /\ Storage(v).dyn = IsDynamic(v) /\ size(w) \in Nat /\ size(w) \in Lengths
      /\ Made(re, IsDynamic(v), Storage(v)) /\ Storage(v).s # Lost /\ Sound(Storage(v))
  BY <1>1, StorageMade, Truncated DEF Storage
<1>3. Source(src) /\ Supplies(src, Storage(v), size(w))
  <2>1. CASE v = w
    <3>1. ToLength(size(v) - 0) = size(v) /\ 0 + size(v) = size(v) /\ 0 <= size(v)
      BY <1>2, Truncated
    <3>2. Distance(Own(0, size(v))) = size(v)
      BY <3>1 DEF Distance, Own
    <3> QED
      BY <1>2, <2>1, <3>1, <3>2 DEF Source, Supplies
  <2>2. CASE v # w
    <3>1. view(w) \in Seq(Alphabet) /\ Len(view(w)) = size(w)
      BY <1>1, ViewWord
    <3> QED
      BY <1>1, <1>2, <2>2, <3>1, ViewSource, ForeignSupplies
  <2> QED
    BY <2>1, <2>2
<1>4. src.own <=> v = w
  BY DEF Own, Foreign
<1> HIDE DEF src
<1>5. Distance(src) = size(w)
  BY <1>3 DEF Supplies
<1>6. Made(re, IsDynamic(v), st)
  BY <1>2, <1>3, <1>5, AssignMade DEF assign_copy
<1>7. ASSUME ~LeavesStorage("assign_copy", v, <<w>>) PROVE Sound(st)
  <2>1. Room(re, size(w))
    BY <1>7, Countably, Wants
  <2>2. Storage(v).dyn /\ 0 < size(w) /\ RawSize(size(w)) <= N => ~src.own
    BY <1>2, <1>4, <1>7 DEF LeavesStorage, AssignsReleased
  <2>3. Reads(src, Storage(v).s, size(w)) /\ (src.own => src.last - src.first = size(w))
    <3>1. /\ Cap(Storage(v).s) \in Lengths /\ Storage(v).s \in Block(Cap(Storage(v).s))
          /\ Storage(v).size \in Nat /\ Storage(v).size < Cap(Storage(v).s)
          /\ Cap(Storage(v).s) \in Nat /\ Shown(Storage(v).s, Storage(v).size)
      BY <1>2, OfSound
    <3>2. Storage(v).size <= Cap(Storage(v).s)
      BY <3>1
    <3> QED
      BY <1>2, <1>3, <3>1, <3>2, SuppliesReads
  <2> QED
    BY <1>2, <1>5, <2>1, <2>2, <2>3, AssignSound DEF assign_copy
<1>9. st.s # Lost => Closes(Storage(v), st)
  BY <1>2, <1>3, AssignCloses DEF assign_copy
<1> HIDE DEF st
<1>8. Good("assign_copy", v, <<w>>, st)
  BY <1>1, <1>6, <1>7, <1>9, ClosedEnds DEF Good
<1> QED
  BY <1>1, <1>8, ApplyOwns

LEMMA AssignMoveSelfOwns ==
  ASSUME Owns, NEW v \in Strs, AssignMoveSelf(v)
  PROVE  Proper
<1> DEFINE st == IF IsDynamic(v)
                 THEN InBuffer(Storage(v), cond_null_terminate(Zeroed(N), size(v)), size(v))
                 ELSE InPlace(Storage(v), cond_null_terminate(Slots(v), size(v)), size(v))
<1>1. v \in alive /\ Apply("assign_move", v, <<v>>, st)
  BY DEF AssignMoveSelf
<1>2. /\ Made(supports_reallocation, IsDynamic(v), Storage(v)) /\ Storage(v).s # Lost
      /\ size(v) \in Lengths /\ size(v) \in Int /\ Storage(v).s = Slots(v)
      /\ Storage(v).dyn = IsDynamic(v)
  BY <1>1, StorageMade DEF Storage
<1>3. Made(supports_reallocation, IsDynamic(v), st)
  <2>1. CASE IsDynamic(v)
    <3> DEFINE s == cond_null_terminate(Zeroed(N), size(v))
    <3>1. N \in Nat /\ Zeroed(N) \in Mem(N)
      BY LettersOf, StorageMem
    <3>2. s \in Mem(N) /\ (s # Lost => size(v) \in 0 .. N - 1)
      BY <1>2, <3>1, TerminateMem
    <3>3. s # Lost => size(v) < N
      BY <3>1, <3>2
    <3> HIDE DEF s
    <3>4. Made(supports_reallocation, IsDynamic(v), InBuffer(Storage(v), s, size(v)))
      BY <1>2, <3>2, <3>3, InBufferMade
    <3> QED
      BY <2>1, <3>4 DEF s
  <2>2. CASE ~IsDynamic(v)
    <3> DEFINE s == cond_null_terminate(Slots(v), size(v))
    <3>1. PICK c \in Lengths : Slots(v) \in Block(c) /\ size(v) < c /\ (~IsDynamic(v) => c = N)
      BY <1>1 DEF Owns, Held
    <3>2. s \in Block(c)
      BY <1>2, <3>1, TerminateBlock
    <3>3. s \in Mem(c)
      BY <3>2 DEF Mem
    <3> HIDE DEF s
    <3>4. Made(supports_reallocation, IsDynamic(v), InPlace(Storage(v), s, size(v)))
      BY <1>2, <2>2, <3>1, <3>3, InPlaceMade
    <3> QED
      BY <2>2, <3>4 DEF s
  <2> QED
    BY <2>1, <2>2
<1>4. ASSUME ~LeavesStorage("assign_move", v, <<v>>) PROVE Sound(st)
  <2>0. size(v) \in Nat /\ size(v) <= size(v)
    <3>1. size(v) \in Nat
      BY <1>2, Truncated
    <3> QED
      BY <3>1
  <2>1. CASE IsDynamic(v)
    <3>1. ~(size(v) >= N)
      BY <1>4, <2>1 DEF LeavesStorage
    <3>2. /\ N \in Lengths /\ N \in Nat /\ Zeroed(N) \in Block(N) /\ size(v) < N
      BY <2>0, <3>1, LettersOf, StorageMem
    <3>3. Shown(Zeroed(N), size(v))
      <4>1. \A i \in 0 .. size(v) - 1 : i \in 0 .. N - 1 /\ Nul # Junk
        BY <2>0, <3>2, LettersOf
      <4> QED
        BY <4>1 DEF Shown, Zeroed, Filled
    <3>4. /\ cond_null_terminate(Zeroed(N), size(v)) \in Block(N)
          /\ Shown(cond_null_terminate(Zeroed(N), size(v)), size(v))
      BY <2>0, <3>2, <3>3, TerminateShown
    <3> QED
      BY <2>0, <2>1, <3>2, <3>4, SoundOf
  <2>2. CASE ~IsDynamic(v)
    <3>1. PICK c \in Lengths : Slots(v) \in Block(c) /\ size(v) < c /\ Shown(Slots(v), size(v))
      BY <1>1 DEF Owns, Held
    <3>2. /\ cond_null_terminate(Slots(v), size(v)) \in Block(c)
          /\ Shown(cond_null_terminate(Slots(v), size(v)), size(v))
      BY <2>0, <3>1, TerminateShown
    <3> QED
      BY <2>0, <2>2, <3>1, <3>2, SoundOf
  <2> QED
    BY <2>1, <2>2
<1>6. Closes(Storage(v), st)
  BY DEF Closes, InBuffer, InPlace
<1> HIDE DEF st
<1>5. Good("assign_move", v, <<v>>, st)
  BY <1>1, <1>3, <1>4, <1>6, ClosedGood
<1> QED
  BY <1>1, <1>5, ApplyOwns

-------------------------------------------------------------------------------
(* what each call makes of the storage of its string *)

LEMMA LengthOf ==
  ASSUME NEW xs, xs \in Seq(Alphabet), NEW i \in Nat, NEW n \in Nat, i <= Len(xs),
         NEW k, k = IF n < Len(xs) - i THEN n ELSE Len(xs) - i
  PROVE  k \in Nat /\ i + k <= Len(xs)
<1>1. Len(xs) \in Nat
  OBVIOUS
<1> QED
  BY <1>1

LEMMA SubText ==
  ASSUME NEW xs, xs \in Seq(Alphabet), NEW i \in Nat, NEW k \in Nat, i + k <= Len(xs)
  PROVE  SubSeq(xs, i + 1, i + k) \in Seq(Alphabet) /\ Len(SubSeq(xs, i + 1, i + k)) = k
OBVIOUS

LEMMA FillSupplies ==
  ASSUME NEW n \in Lengths, NEW st
  PROVE  /\ n \in Nat /\ n \in Int /\ Fill(n, Ch) \in Seq(Alphabet) /\ Len(Fill(n, Ch)) = n
         /\ Fill(n, Ch) \in Seq(Letters) /\ Source(Foreign(Fill(n, Ch)))
         /\ Supplies(Foreign(Fill(n, Ch)), st, n) /\ Length(Foreign(Fill(n, Ch))) = n
         /\ Foreign(Fill(n, Ch)).own = FALSE /\ Distance(Foreign(Fill(n, Ch))) = n
<1>1. n \in Nat /\ n \in Int /\ Ch \in Alphabet /\ Ch \in Letters
  BY Truncated, StringsAssumption, LettersOf
<1>2. Fill(n, Ch) \in Seq(Alphabet) /\ Len(Fill(n, Ch)) = n
  BY <1>1, FillText
<1>3. /\ Supplies(Foreign(Fill(n, Ch)), st, n) /\ Length(Foreign(Fill(n, Ch))) = n
      /\ Foreign(Fill(n, Ch)).own = FALSE
  BY <1>2, ForeignSupplies
<1>4. Fill(n, Ch) \in Seq(Letters) /\ Source(Foreign(Fill(n, Ch)))
  BY <1>1, FillWord DEF Source
<1> QED
  BY <1>1, <1>2, <1>3, <1>4 DEF Supplies

LEMMA BeginReads ==
  ASSUME Owns, NEW v \in alive, NEW n \in Nat, NEW src, Supplies(src, Storage(v), n)
  PROVE  /\ Reads(src, Storage(v).s, n) /\ (src.own => src.last - src.first = n)
         /\ Distance(src) = n
<1>1. /\ Cap(Storage(v).s) \in Lengths /\ Storage(v).s \in Block(Cap(Storage(v).s))
      /\ Storage(v).size \in Nat /\ Storage(v).size < Cap(Storage(v).s)
      /\ Cap(Storage(v).s) \in Nat /\ Shown(Storage(v).s, Storage(v).size)
  BY Begins, OfSound
<1>2. Storage(v).size <= Cap(Storage(v).s)
  BY <1>1
<1> QED
  BY <1>1, <1>2, SuppliesReads DEF Supplies

\* A source of a string that fits into a length there is room for.
LEMMA SourceFits ==
  ASSUME Owns, NEW v \in alive, NEW src \in Sources(v), NEW m \in Nat,
         Room(supports_reallocation, m), Length(src) <= m
  PROVE  \E n \in Nat : /\ n = Length(src) /\ n \in Lengths /\ n <= m
                        /\ Room(supports_reallocation, n) /\ Supplies(src, Storage(v), n)
                        /\ Distance(src) = n
<1>1. PICK n \in Nat : n = Length(src)
  BY SourcesOf
<1>2. n <= m
  BY <1>1
<1>3. Room(supports_reallocation, n)
  BY <1>2, RoomBelow
<1>4. n \in Lengths
  BY <1>3, RoomGrows
<1>5. Supplies(src, Storage(v), n)
  BY <1>1, <1>4, SourceSupplies
<1> QED
  BY <1>1, <1>2, <1>3, <1>4, <1>5 DEF Supplies

LEMMA AssignFillGood ==
  ASSUME Owns, NEW v \in alive, NEW n \in Lengths
  PROVE  Good("assign_fill", v, <<n, Ch>>,
              fill_assign(supports_reallocation, Storage(v), n, Ch))
<1> DEFINE re == supports_reallocation
           st == Storage(v)
           src == Foreign(Fill(n, Ch))
<1>1. n \in Nat /\ Source(src) /\ Supplies(src, st, n) /\ Distance(src) = n /\ ~src.own
  BY FillSupplies
<1>2. Made(re, IsDynamic(v), st) /\ st.s # Lost /\ Sound(st)
  BY Begins
<1>3. Reads(src, st.s, n) /\ (src.own => src.last - src.first = n)
  BY <1>1, BeginReads
<1>4. LeavesStorage("assign_fill", v, <<n, Ch>>) \/ Room(re, n)
  BY Countably, Wants
<1> HIDE DEF st, src
<1>5. Made(re, IsDynamic(v), uninitialized_assign(re, st, n, src))
  BY <1>1, <1>2, AssignMade
<1>6. Room(re, n) => Sound(uninitialized_assign(re, st, n, src))
  BY <1>1, <1>2, <1>3, AssignSound
<1>7. PICK r : r = uninitialized_assign(re, st, n, src)
  OBVIOUS
<1>8. r.s # Lost => Closes(st, r)
  BY <1>1, <1>2, <1>7, AssignCloses
<1>9. r.s # Lost => Ending("assign_fill", v, r)
  BY <1>5, <1>7, <1>8, ClosedEnds DEF st
<1> QED
  BY <1>4, <1>5, <1>6, <1>7, <1>9 DEF Good, fill_assign, st, src

LEMMA ResizeGood ==
  ASSUME Owns, NEW v \in alive, NEW n \in Lengths, NEW ch \in {Nul, Ch}
  PROVE  Good("resize", v, <<n, ch>>, resize(supports_reallocation, Storage(v), n, ch))
<1> DEFINE re == supports_reallocation
           st == Storage(v)
<1>1. n \in Nat /\ ch \in Alphabet /\ ch \in Letters
  BY Truncated, StringsAssumption, LettersOf
<1>2. Made(re, IsDynamic(v), st) /\ st.s # Lost /\ Sound(st)
  BY Begins
<1>3. LeavesStorage("resize", v, <<n, ch>>) \/ Room(re, n)
  BY Countably, Wants
<1> HIDE DEF st
<1>4. Made(re, IsDynamic(v), resize(re, st, n, ch))
  BY <1>1, <1>2, ResizeMade
<1>5. Room(re, n) => Sound(resize(re, st, n, ch))
  BY <1>1, <1>2, ResizeSound DEF Roomy
<1>6. Closes(st, resize(re, st, n, ch))
  BY <1>2, OverwriteCloses DEF resize
<1> QED
  BY <1>3, <1>4, <1>5, <1>6, ClosedGood DEF st

LEMMA AppendFillGood ==
  ASSUME Owns, NEW v \in alive, NEW n \in Lengths, NEW xs, Len(xs) = n
  PROVE  Good("append", v, <<Foreign(xs)>>,
              append_fill(supports_reallocation, Storage(v), n, Ch))
<1> DEFINE re == supports_reallocation
           st == Storage(v)
<1>1. n \in Nat /\ n \in Int /\ Ch \in Alphabet /\ Ch \in Letters
  BY Truncated, StringsAssumption, LettersOf
<1>2. /\ Made(re, IsDynamic(v), st) /\ st.s # Lost /\ Sound(st)
      /\ st.size = size(v)
  BY Begins
<1>3. Length(Foreign(xs)) = n
  BY DEF Length, Foreign
<1>4. LeavesStorage("append", v, <<Foreign(xs)>>) \/ Room(re, st.size + n)
  BY <1>2, <1>3, Countably, WantsBehind
<1> HIDE DEF st
<1>5. Made(re, IsDynamic(v), append_fill(re, st, n, Ch))
  BY <1>1, <1>2, AppendFillMade
<1>6. Room(re, st.size + n) => Sound(append_fill(re, st, n, Ch))
  BY <1>1, <1>2, AppendFillSound DEF Roomy
<1>7. Closes(st, append_fill(re, st, n, Ch))
  BY <1>2, OverwriteCloses DEF append_fill
<1> QED
  BY <1>4, <1>5, <1>6, <1>7, ClosedGood DEF st

LEMMA AssignRangeGood ==
  ASSUME Owns, NEW v \in alive, NEW src \in Sources(v)
  PROVE  Good("assign", v, <<src>>, assign_copy(supports_reallocation, Storage(v), src))
<1> DEFINE re == supports_reallocation
           st == Storage(v)
<1>1. Source(src) /\ Length(src) \in Nat /\ Distance(src) \in Lengths
  BY SourcesOf, SourceDistance
<1>2. /\ Made(re, IsDynamic(v), st) /\ st.s # Lost /\ Sound(st) /\ st.dyn = IsDynamic(v)
  BY Begins
<1>3. Made(re, IsDynamic(v), assign_copy(re, st, src))
  BY <1>1, <1>2, AssignMade DEF assign_copy
<1>4. ASSUME ~LeavesStorage("assign", v, <<src>>) PROVE Sound(assign_copy(re, st, src))
  <2>1. Room(re, Length(src))
    BY <1>4, Countably, WantsBehind
  <2>2. PICK n \in Nat : n = Length(src) /\ Room(re, n) /\ Supplies(src, st, n) /\ Distance(src) = n
    BY <1>1, <2>1, SourceFits
  <2>3. st.dyn /\ 0 < n /\ RawSize(n) <= N => ~src.own
    BY <1>2, <1>4, <2>2 DEF LeavesStorage, AssignsReleased
  <2>4. Reads(src, st.s, n) /\ (src.own => src.last - src.first = n)
    BY <2>2, BeginReads
  <2> HIDE DEF st
  <2> QED
    BY <1>2, <2>2, <2>3, <2>4, AssignSound DEF assign_copy
<1>5. PICK r : r = assign_copy(re, st, src)
  OBVIOUS
<1>6. r.s # Lost => Closes(st, r)
  BY <1>1, <1>2, <1>5, AssignCloses DEF assign_copy
<1>7. r.s # Lost => Ending("assign", v, r)
  BY <1>3, <1>5, <1>6, ClosedEnds
<1> QED
  BY <1>3, <1>4, <1>5, <1>7 DEF Good

LEMMA AppendRangeGood ==
  ASSUME Owns, NEW v \in alive, NEW src \in Sources(v)
  PROVE  Good("append", v, <<src>>, append_copy(supports_reallocation, Storage(v), src))
<1> DEFINE re == supports_reallocation
           st == Storage(v)
<1>1. Source(src) /\ Length(src) \in Nat
  BY SourcesOf
<1>2. /\ Made(re, IsDynamic(v), st) /\ st.s # Lost /\ Sound(st) /\ st.size = size(v)
      /\ size(v) \in Nat
  BY Begins
<1>3. Made(re, IsDynamic(v), append_copy(re, st, src))
  BY <1>1, <1>2, AppendCopyMade
<1>4. ASSUME ~LeavesStorage("append", v, <<src>>) PROVE Sound(append_copy(re, st, src))
  <2>1. PICK m \in Nat : m = size(v) + Length(src)
    BY <1>1, <1>2
  <2>2. Room(re, m) /\ Length(src) <= m
    BY <1>1, <1>2, <1>4, <2>1, Countably, WantsBehind
  <2>3. PICK n \in Nat : n = Length(src) /\ Supplies(src, st, n)
    BY <2>1, <2>2, SourceFits
  <2>4. Reads(src, st.s, n)
    BY <2>3, BeginReads
  <2>5. Roomy(re, st, st.size + n)
    BY <1>2, <2>1, <2>2, <2>3 DEF Roomy
  <2> HIDE DEF st
  <2> QED
    BY <1>2, <2>3, <2>4, <2>5, AppendCopySound
<1>5. Closes(st, append_copy(re, st, src))
  BY <1>2, OverwriteCloses DEF append_copy
<1> QED
  BY <1>3, <1>4, <1>5, ClosedGood

LEMMA AppendSubstrGood ==
  ASSUME Owns, NEW v \in alive, NEW xs, xs \in Seq(Alphabet), NEW i \in Nat, NEW n \in Nat,
         i <= Len(xs), NEW k, k = IF n < Len(xs) - i THEN n ELSE Len(xs) - i
  PROVE  Good("append_substr", v, <<xs, i, n>>,
              append_copy(supports_reallocation, Storage(v),
                          Foreign(SubSeq(xs, i + 1, i + k))))
<1> DEFINE re == supports_reallocation
           st == Storage(v)
           sub == SubSeq(xs, i + 1, i + k)
<1>1. k \in Nat /\ i + k <= Len(xs)
  BY LengthOf
<1>2. sub \in Seq(Alphabet) /\ Len(sub) = k
  BY <1>1, SubText
<1> HIDE DEF sub
<1>3. Source(Foreign(sub))
  BY <1>2, LettersOf DEF Source
<1>4. /\ Made(re, IsDynamic(v), st) /\ st.s # Lost /\ Sound(st) /\ st.size = size(v)
      /\ size(v) \in Nat
  BY Begins
<1>5. Made(re, IsDynamic(v), append_copy(re, st, Foreign(sub)))
  BY <1>3, <1>4, AppendCopyMade
<1>6. ASSUME ~LeavesStorage("append_substr", v, <<xs, i, n>>)
      PROVE  Sound(append_copy(re, st, Foreign(sub)))
  <2>1. Room(re, size(v) + k)
    BY <1>6, Countably, WantsSubstr
  <2>2. size(v) + k \in Nat /\ k <= size(v) + k
    BY <1>1, <1>4
  <2>3. Room(re, k)
    BY <1>1, <2>1, <2>2, RoomBelow
  <2>4. k \in Lengths
    BY <1>1, <2>3, RoomGrows
  <2>5. Supplies(Foreign(sub), st, k)
    BY ONLY <1>2, <2>4, ForeignSupplies
  <2>6. Reads(Foreign(sub), st.s, k)
    BY <1>1, <2>5, BeginReads
  <2>7. Roomy(re, st, st.size + k)
    BY <1>4, <2>1 DEF Roomy
  <2> HIDE DEF st
  <2> QED
    BY <1>1, <1>4, <2>6, <2>7, AppendCopySound
<1>7. Closes(st, append_copy(re, st, Foreign(sub)))
  BY <1>4, OverwriteCloses DEF append_copy
<1> QED
  BY <1>5, <1>6, <1>7, ClosedGood DEF sub

\* What insert and replace put in place of other characters: d characters, if
\* there is room for them.
Ready(v, src, d) ==
  /\ Source(src) /\ d \in Int /\ Length(src) \in Nat
  /\ \A m \in Nat : Room(supports_reallocation, m) /\ Length(src) <= m =>
                      d = Length(src) /\ Supplies(src, Storage(v), d)

LEMMA SourceReady ==
  ASSUME Owns, NEW v \in alive, NEW src \in Sources(v)
  PROVE  Ready(v, src, Distance(src))
<1>1. Source(src) /\ Length(src) \in Nat /\ Distance(src) \in Int
  BY SourcesOf, SourceDistance
<1>2. ASSUME NEW m \in Nat, Room(supports_reallocation, m), Length(src) <= m
      PROVE  Distance(src) = Length(src) /\ Supplies(src, Storage(v), Distance(src))
  BY <1>2, SourceFits
<1> QED
  BY <1>1, <1>2 DEF Ready

LEMMA FillReady ==
  ASSUME NEW v, NEW n \in Lengths
  PROVE  Ready(v, Foreign(Fill(n, Ch)), n)
BY FillSupplies DEF Ready

LEMMA InsertGood ==
  ASSUME Owns, NEW v \in alive, NEW i \in Nat, NEW src, NEW d, Ready(v, src, d)
  PROVE  Good("insert", v, <<i, src>>,
              replace_aux(supports_reallocation, Storage(v), i, 0, d, src))
<1> DEFINE re == supports_reallocation
           st == Storage(v)
           r == replace_aux(re, st, i, 0, d, src)
<1>1. /\ Made(re, IsDynamic(v), st) /\ st.s # Lost /\ Sound(st) /\ st.size = size(v)
      /\ size(v) \in Nat
  BY Begins
<1>2. Source(src) /\ d \in Int /\ Length(src) \in Nat /\ i \in Int /\ 0 \in Int
  BY DEF Ready
<1>3. Made(re, IsDynamic(v), r)
  BY <1>1, <1>2, ReplaceMade
<1>4. i > size(v) => Sound(r)
  BY <1>1, ReplaceRefuses
<1>5. ASSUME ~(i > size(v)), ~LeavesStorage("insert", v, <<i, src>>) PROVE Sound(r)
  <2>1. PICK m \in Nat : m = size(v) + Length(src)
    BY <1>1, <1>2
  <2>2. Room(re, m) /\ Length(src) <= m
    BY <1>1, <1>2, <1>5, <2>1, Countably, WantsBehind
  <2>3. d = Length(src) /\ Supplies(src, st, d) /\ d \in Nat
    BY <1>2, <2>1, <2>2 DEF Ready
  <2>4. Roomy(re, st, st.size - 0 + d)
    <3>1. st.size - 0 + d = m
      BY <1>1, <2>1, <2>3
    <3> QED
      BY <2>2, <3>1 DEF Roomy
  <2>5. i + 0 <= st.size /\ 0 \in Nat
    BY <1>1, <1>5
  <2> HIDE DEF st
  <2> QED
    BY <1>1, <2>3, <2>4, <2>5, ReplaceSound
<1>6. Closes(st, r)
  BY <1>1, ReplaceCloses
<1> HIDE DEF r
<1> QED
  BY <1>3, <1>4, <1>5, <1>6, ClosedGood DEF r

LEMMA ReplaceGood ==
  ASSUME Owns, NEW v \in alive, NEW i \in Nat, NEW n \in Nat, NEW src, NEW d, Ready(v, src, d)
  PROVE  Good("replace", v, <<i, n, src>>,
              replace_aux(supports_reallocation, Storage(v), i, n, d, src))
<1> DEFINE re == supports_reallocation
           st == Storage(v)
           r == replace_aux(re, st, i, n, d, src)
<1>1. /\ Made(re, IsDynamic(v), st) /\ st.s # Lost /\ Sound(st) /\ st.size = size(v)
      /\ size(v) \in Nat
  BY Begins
<1>2. Source(src) /\ d \in Int /\ Length(src) \in Nat /\ i \in Int /\ n \in Int
  BY DEF Ready
<1>3. Made(re, IsDynamic(v), r)
  BY <1>1, <1>2, ReplaceMade
<1>4. ASSUME ~LeavesStorage("replace", v, <<i, n, src>>) PROVE Sound(r)
  <2>0. ~(i + n > size(v))
    BY <1>4 DEF LeavesStorage
  <2>1. PICK m \in Nat : m = size(v) - n + Length(src)
    BY <1>1, <1>2, <2>0
  <2>2. Room(re, m) /\ Length(src) <= m
    BY <1>1, <1>2, <1>4, <2>0, <2>1, Countably, WantsBehind
  <2>3. d = Length(src) /\ Supplies(src, st, d) /\ d \in Nat
    BY <1>2, <2>1, <2>2 DEF Ready
  <2>4. Roomy(re, st, st.size - n + d)
    <3>1. st.size - n + d = m
      BY <1>1, <2>1, <2>3
    <3> QED
      BY <2>2, <3>1 DEF Roomy
  <2>5. i + n <= st.size
    BY <1>1, <2>0
  <2> HIDE DEF st
  <2> QED
    BY <1>1, <2>3, <2>4, <2>5, ReplaceSound
<1>5. Closes(st, r)
  BY <1>1, ReplaceCloses
<1> HIDE DEF r
<1> QED
  BY <1>3, <1>4, <1>5, ClosedGood DEF r

LEMMA EraseGood ==
  ASSUME Owns, NEW v \in alive, NEW i \in Nat, NEW n \in Nat
  PROVE  Good("erase", v, <<i, n>>, erase(Storage(v), i, n))
<1> DEFINE re == supports_reallocation
           st == Storage(v)
<1>1. /\ Made(re, IsDynamic(v), st) /\ st.s # Lost /\ Sound(st) /\ st.size = size(v)
      /\ size(v) \in Nat /\ i \in Int /\ n \in Int
  BY Begins
<1>2. LeavesStorage("erase", v, <<i, n>>) \/ i <= st.size
  BY <1>1 DEF LeavesStorage
<1> HIDE DEF st
<1>3. Made(re, IsDynamic(v), erase(st, i, n))
  BY <1>1, EraseMade
<1>4. i <= st.size => Sound(erase(st, i, n))
  BY <1>1, EraseSound
<1>5. Closes(st, erase(st, i, n))
  BY EraseCloses
<1> QED
  BY <1>2, <1>3, <1>4, <1>5, ClosedGood DEF st

LEMMA EraseRangeGood ==
  ASSUME Owns, NEW v \in alive, NEW i \in 0 .. size(v), NEW j \in 0 .. size(v), i <= j
  PROVE  Good("erase", v, <<i, j - i>>,
              IF j # size(v) THEN erase(Storage(v), i, j - i)
              ELSE resize(supports_reallocation, Storage(v), i, Nul))
<1> DEFINE re == supports_reallocation
           st == Storage(v)
<1>1. /\ Made(re, IsDynamic(v), st) /\ st.s # Lost /\ Sound(st) /\ st.size = size(v)
      /\ size(v) \in Nat /\ size(v) < Cap(st.s) /\ size(v) \in Lengths
  BY Begins
<1>2. i \in Nat /\ j - i \in Nat /\ i <= size(v) /\ i \in Lengths
  BY <1>1, LengthAssumption DEF Lengths
<1>3. Good("erase", v, <<i, j - i>>, erase(Storage(v), i, j - i))
  BY <1>2, EraseGood
<1>4. Made(re, IsDynamic(v), resize(re, st, i, Nul))
  BY <1>1, <1>2, LettersOf, ResizeMade
<1>5. i < Cap(st.s)
  BY <1>1, <1>2, Begins
<1> HIDE DEF st
<1>6. Sound(resize(re, st, i, Nul))
  BY <1>1, <1>2, <1>5, StringsAssumption, ResizeSound DEF Roomy
<1>7. Closes(st, resize(re, st, i, Nul))
  BY <1>1, OverwriteCloses DEF resize
<1>8. Good("erase", v, <<i, j - i>>, resize(re, st, i, Nul))
  BY <1>4, <1>6, <1>7, ClosedGood DEF st
<1> QED
  BY <1>3, <1>8 DEF st

LEMMA PopBackGood ==
  ASSUME Owns, NEW v \in alive, size(v) > 0, NEW args
  PROVE  Good("erase", v, args, pop_back(Storage(v)))
<1>1. /\ Made(supports_reallocation, IsDynamic(v), Storage(v)) /\ Storage(v).s # Lost
      /\ Sound(Storage(v)) /\ Storage(v).size = size(v)
  BY Begins
<1> QED
  BY <1>1, PopBackMade, PopBackSound, EraseCloses, ClosedGood

LEMMA ClearGood ==
  ASSUME Owns, NEW v \in alive
  PROVE  Good("clear", v, <<>>, clear(Storage(v)))
<1>1. /\ Made(supports_reallocation, IsDynamic(v), Storage(v)) /\ Storage(v).s # Lost
      /\ Sound(Storage(v))
  BY Begins
<1> QED
  BY <1>1, ClearMade, ClearSound, EraseCloses, ClosedGood

LEMMA ShrinkGood ==
  ASSUME Owns, NEW v \in alive, supports_reallocation
  PROVE  Good("shrink_to_fit", v, <<>>, shrink_to_fit(Storage(v)))
<1> DEFINE st == Storage(v)
<1>1. supports_reallocation = TRUE
  BY DEF supports_reallocation
<1>2. /\ Made(TRUE, IsDynamic(v), st) /\ st.s # Lost /\ Sound(st) /\ st.size = size(v)
  BY <1>1, Begins
<1>3. LeavesStorage("shrink_to_fit", v, <<>>) \/ Room(TRUE, st.size)
  <2>1. LeavesStorage("shrink_to_fit", v, <<>>) \/ Room(supports_reallocation, size(v))
    BY ONLY Countably, Wants
  <2> QED
    BY <1>2, <2>1 DEF Room
<1> HIDE DEF st
<1>4. Made(TRUE, IsDynamic(v), shrink_to_fit(st))
  BY <1>2, ShrinkMade
<1>5. Room(TRUE, st.size) => Sound(shrink_to_fit(st))
  BY <1>2, ShrinkSound
<1>6. PICK r : r = shrink_to_fit(st)
  OBVIOUS
<1>7. Made(supports_reallocation, IsDynamic(v), r)
  BY <1>1, <1>4, <1>6
<1>8. r.s # Lost => Ending("shrink_to_fit", v, r)
  <2>1. CASE r = st
    BY <2>1 DEF Ending, st, Storage, view, at
  <2>2. CASE r.dyn
    BY <2>2 DEF Ending
  <2>3. CASE Closes(st, r)
    BY <1>7, <2>3, ClosedEnds DEF st
  <2> QED
    BY <1>6, <2>1, <2>2, <2>3, ShrinkCloses
<1> QED
  BY <1>1, <1>3, <1>5, <1>6, <1>7, <1>8 DEF Good, st

LEMMA ReserveGood ==
  ASSUME Owns, NEW v \in alive, supports_reallocation, NEW n \in Lengths
  PROVE  Good("reserve", v, <<n>>, reserve(Storage(v), n))
<1> DEFINE st == Storage(v)
<1>1. supports_reallocation = TRUE /\ n \in Nat /\ n \in Int
  BY Truncated DEF supports_reallocation
<1>2. /\ Made(TRUE, IsDynamic(v), st) /\ st.s # Lost /\ Sound(st)
  BY <1>1, Begins
<1>3. LeavesStorage("reserve", v, <<n>>) \/ Room(TRUE, n)
  <2>1. LeavesStorage("reserve", v, <<n>>) \/ Room(supports_reallocation, n)
    BY ONLY Countably, Wants
  <2> QED
    BY <2>1 DEF Room
<1> HIDE DEF st
<1>4. Made(TRUE, IsDynamic(v), reserve(st, n))
  BY <1>1, <1>2, ReserveMade
<1>5. Room(TRUE, n) => Sound(reserve(st, n))
  BY <1>1, <1>2, ReserveSound
<1>6. PICK r : r = reserve(st, n)
  OBVIOUS
<1>7. r.s # Lost => Ending("reserve", v, r)
  <2>1. st.s = Slots(v) /\ st.size = size(v)
    BY DEF st, Storage
  <2>2. r.s # Lost => /\ r.size = st.size /\ Chars(r.s, 0, st.size) = Chars(st.s, 0, st.size)
                      /\ r.s[st.size] = st.s[st.size]
    BY <1>1, <1>2, <1>6, ReserveKeeps
  <2> QED
    BY <2>1, <2>2 DEF Ending, view, at
<1> QED
  BY <1>1, <1>3, <1>4, <1>5, <1>6, <1>7 DEF Good, st

LEMMA OverwriteGood ==
  ASSUME Owns, NEW v \in alive, NEW n \in Lengths, NEW r \in Lengths, r <= n, NEW full \in BOOLEAN,
         NEW k, k = IF full THEN buff_cap(Storage(v), n) ELSE r
  PROVE  Good("resize_and_overwrite", v, <<n, r, full>>,
              resize_and_overwrite(supports_reallocation, Storage(v), n, 0, Fill(k, Ch), k))
<1> DEFINE re == supports_reallocation
           st == Storage(v)
           c == Cap(st.s)
<1>1. /\ Made(re, IsDynamic(v), st) /\ st.s # Lost /\ Sound(st) /\ st.size = size(v)
      /\ size(v) \in Nat /\ st.s = Slots(v) /\ size(v) < c /\ c \in Lengths /\ c \in Nat
  BY Begins
<1>2. n \in Nat /\ n \in Int /\ r \in Nat
  BY Truncated
<1>3. k \in Lengths
  <2>1. growth(RawSize(n)) \in Nat
    BY <1>2, Raw
  <2>2. growth(RawSize(n)) - 1 \in Int
    BY <2>1
  <2>3. ToLength(growth(RawSize(n)) - 1) \in Lengths
    BY <2>2, Truncated
  <2> QED
    BY <1>1, <2>3 DEF buff_cap
<1>4. /\ k \in Nat /\ Fill(k, Ch) \in Seq(Alphabet) /\ Len(Fill(k, Ch)) = k /\ 0 \in Int
      /\ Fill(k, Ch) \in Seq(Letters)
  <2>1. k \in Nat /\ k \in Int /\ Ch \in Alphabet /\ Ch \in Letters
    BY <1>3, Truncated, StringsAssumption, LettersOf
  <2> QED
    BY <2>1, FillText, FillWord
<1>5. Fill(k, Ch) \in Word
  BY <1>3, <1>4 DEF Word
<1>6. Made(re, IsDynamic(v), resize_and_overwrite(re, st, n, 0, Fill(k, Ch), k))
  BY <1>1, <1>2, <1>3, <1>4, <1>5, OverwriteMade
<1>7. ASSUME ~LeavesStorage("resize_and_overwrite", v, <<n, r, full>>)
      PROVE  Sound(resize_and_overwrite(re, st, n, 0, Fill(k, Ch), k))
  <2>1. Room(re, n)
    BY <1>7, Countably, Wants
  <2>2. /\ RawSize(n) = n + 1 /\ n + 1 \in Lengths
        /\ (re => growth(n + 1) \in Lengths /\ growth(n + 1) > n + 1)
    BY <1>2, <2>1, RoomGrows
  <2>3. full => ~(n < c)
    BY <1>1, <1>7 DEF LeavesStorage
  <2>4. n < c => k < c
    BY <1>1, <1>2, <2>3
  <2>5. ASSUME ~(n < c), re
        PROVE  /\ growth(n + 1) \in Lengths /\ k < growth(n + 1) /\ size(v) <= growth(n + 1)
    <3>1. PICK g \in Lengths : g = growth(n + 1) /\ g > n + 1
      BY <2>2, <2>5
    <3>2. g \in Nat /\ g - 1 \in Lengths
      <4>1. g \in Nat /\ g <= MaxLength /\ MaxLength \in Nat
        BY LengthAssumption DEF Lengths
      <4> QED
        BY <1>2, <3>1, <4>1 DEF Lengths
    <3>3. ToLength(g - 1) = g - 1
      BY <3>2, Truncated
    <3>4. full => k = g - 1
      BY <1>1, <1>2, <2>2, <2>5, <3>1, <3>3 DEF buff_cap
    <3>5. k < g /\ size(v) <= g
      BY <1>1, <1>2, <2>5, <3>1, <3>2, <3>4
    <3> QED
      BY <3>1, <3>5
  <2>6. 0 \in Nat /\ 0 <= st.size /\ 0 + Len(Fill(k, Ch)) = k /\ k <= k
    BY <1>1, <1>4
  <2>7. n < c => k <= c
    BY <1>1, <1>4, <2>4
  <2>8. ASSUME n >= c, re
        PROVE  /\ growth(n + 1) \in Lengths /\ k < growth(n + 1) /\ k <= growth(n + 1)
               /\ size(v) <= growth(n + 1)
    <3>1. /\ growth(n + 1) \in Lengths /\ k < growth(n + 1) /\ size(v) <= growth(n + 1)
      BY <1>1, <1>2, <2>5, <2>8
    <3>2. growth(n + 1) \in Nat
      BY <3>1, Truncated
    <3> QED
      BY <1>4, <3>1, <3>2
  <2> HIDE DEF st
  <2> QED
    BY <1>1, <1>2, <1>4, <2>2, <2>4, <2>6, <2>7, <2>8, OverwriteSound
<1>8. Closes(st, resize_and_overwrite(re, st, n, 0, Fill(k, Ch), k))
  BY <1>1, OverwriteCloses
<1> QED
  BY <1>6, <1>7, <1>8, ClosedGood

LEMMA FindAndReplaceGood ==
  ASSUME Owns, NEW v \in alive, NEW what, what \in Seq(Alphabet), NEW with, with \in Seq(Alphabet)
  PROVE  Good("find_and_replace", v, <<what, with>>,
              find_and_replace(supports_reallocation, Storage(v), what, with))
<1> DEFINE re == supports_reallocation
           st == Storage(v)
<1>1. what \in Seq(Letters) /\ with \in Seq(Letters)
  BY LettersOf
<1>2. /\ Made(re, IsDynamic(v), st) /\ st.s # Lost /\ Sound(st) /\ st.size = size(v)
  BY Begins
<1>3. Made(re, IsDynamic(v), find_and_replace(re, st, what, with))
  BY <1>1, <1>2, FindAndReplaceMade
<1>4. ASSUME ~LeavesStorage("find_and_replace", v, <<what, with>>)
      PROVE  Sound(find_and_replace(re, st, what, with))
  <2>1. Len(what) \in 1 .. Len(with) =>
          Room(re, st.size + (st.size \div Len(what)) * (Len(with) - Len(what)))
    BY <1>2, <1>4, Countably, WantsFind
  <2> HIDE DEF st
  <2> QED
    BY <1>2, <2>1, FindAndReplaceSound
<1>5. PICK r : r = find_and_replace(re, st, what, with)
  OBVIOUS
<1>6. Made(re, IsDynamic(v), r)
  BY <1>3, <1>5
<1>7. r.s # Lost => Ending("find_and_replace", v, r)
  <2>1. CASE \E x : r.s = cond_null_terminate(x, r.size)
    BY <1>6, <2>1, Terminated DEF Ending
  <2>2. CASE r.s = st.s /\ r.size = st.size
    BY <2>2 DEF Ending, Storage, view, at
  <2> HIDE DEF st
  <2> QED
    BY <1>1, <1>2, <1>5, <2>1, <2>2, FindCloses
<1> QED
  BY <1>4, <1>5, <1>6, <1>7 DEF Good

LEMMA BetweenOwns ==
  ASSUME Owns, NEW v \in Strs, NEW w \in Strs, v # w, Between(v, w)
  PROVE  Proper
BY ConstructCopyOwns, AssignCopyOwns, MovesOwn, SwapOwns DEF Between

\* A call that asks something of a string, or that refuses before it begins.
LEMMA AskOwns ==
  ASSUME Owns, NEW op, NEW v, NEW args, NEW out \in Outcomes, out # "undefined",
         out # "ok" \/ op = "substr", Stops(op, v, args, out)
  PROVE  Proper
<1>1. UNCHANGED <<tag, alive, str, heap, mem>> /\ last'.out = out /\ last'.op = op
  BY DEF Stops, Called
<1>2. \A u \in alive' : EndKept(u)
  BY <1>1, StopsKeeps
<1> QED
  BY <1>1, <1>2, StopsOwns DEF UndefinedOnly, Proper

LEMMA EditOwns ==
  ASSUME Owns, NEW v \in Strs, Edit(v)
  PROVE  Proper
<1>1. v \in alive
  BY DEF Edit
<1>2. size(v) \in Nat
  BY <1>1, Begins
<1>3. \A i \in Indexes(v) : i \in Nat
  BY <1>2 DEF Indexes
<1>4. \A n \in Small \cup {npos} : n \in Nat
  BY LengthAssumption DEF Small, npos
<1>5. \A n \in Small : n \in Lengths /\ n \in Nat
  BY CountsAreLengths, Truncated
<1>6. ASSUME NEW n \in Counts, AssignFill(v, n, Ch) PROVE Proper
  BY <1>1, <1>6, CountsAreLengths, AssignFillGood, ApplyOwns DEF AssignFill
<1>7. ASSUME NEW n \in Counts, NEW ch \in {Nul, Ch}, Resize(v, n, ch) PROVE Proper
  BY <1>1, <1>7, CountsAreLengths, ResizeGood, ApplyOwns DEF Resize
<1>8. ASSUME NEW n \in Small \cup Huge, AppendFill(v, n, Ch) PROVE Proper
  <2>1. n \in Lengths
    BY CountsAreLengths
  <2>2. Len(Fill(n, Ch)) = n
    BY <2>1, FillSupplies
  <2>3. Good("append", v, <<Foreign(Fill(n, Ch))>>,
             append_fill(supports_reallocation, Storage(v), n, Ch))
    BY <1>1, <2>1, <2>2, AppendFillGood
  <2> QED
    BY <1>8, <2>3, ApplyOwns DEF AppendFill
<1>9. ASSUME NEW src \in Sources(v), AssignRange(v, src) PROVE Proper
  BY <1>1, <1>9, AssignRangeGood, ApplyOwns DEF AssignRange
<1>10. ASSUME NEW src \in Sources(v), AppendRange(v, src) PROVE Proper
  BY <1>1, <1>10, AppendRangeGood, ApplyOwns DEF AppendRange
<1>11. ASSUME NEW xs \in Texts, NEW i \in Small, NEW n \in Small, AppendSubstr(v, xs, i, n)
       PROVE  Proper
  <2>1. CASE i > Len(xs)
    BY <1>11, <2>1, AskOwns DEF AppendSubstr, Outcomes
  <2>2. CASE ~(i > Len(xs))
    <3> DEFINE k == IF n < Len(xs) - i THEN n ELSE Len(xs) - i
               r == append_copy(supports_reallocation, Storage(v),
                                Foreign(SubSeq(xs, i + 1, i + k)))
    <3>1. Apply("append_substr", v, <<xs, i, n>>, r)
      BY <1>11, <2>2 DEF AppendSubstr
    <3>2. xs \in Seq(Alphabet) /\ Len(xs) \in Nat /\ i \in Nat /\ n \in Nat
      BY <1>5, TextsWords DEF Texts0
    <3>3. i <= Len(xs)
      BY <2>2, <3>2
    <3>4. Good("append_substr", v, <<xs, i, n>>, r)
      BY <1>1, <3>2, <3>3, AppendSubstrGood
    <3> HIDE DEF r
    <3> QED
      BY <3>1, <3>4, ApplyOwns
  <2> QED
    BY <2>1, <2>2
<1>12. CASE Clear(v)
  BY <1>1, <1>12, ClearGood, ApplyOwns DEF Clear
<1>13. CASE ShrinkToFit(v)
  BY <1>1, <1>13, ShrinkGood, ApplyOwns DEF ShrinkToFit
<1>14. CASE PopBack(v)
  BY <1>1, <1>14, PopBackGood, ApplyOwns DEF PopBack
<1>15. CASE PushBack(v, Ch)
  <2>1. 1 \in Lengths /\ Len(<<Ch>>) = 1
    BY LengthAssumption DEF Lengths
  <2>2. Good("append", v, <<Foreign(<<Ch>>)>>, push_back(supports_reallocation, Storage(v), Ch))
    BY <1>1, <2>1, AppendFillGood DEF push_back
  <2> QED
    BY <1>15, <2>2, ApplyOwns DEF PushBack
<1>16. ASSUME NEW n \in Reserved \cup Huge, Reserve(v, n) PROVE Proper
  BY <1>1, <1>16, CountsAreLengths, ReserveGood, ApplyOwns DEF Reserve
<1>17. ASSUME NEW n \in 0 .. MaxLen, NEW r \in 0 .. MaxLen, r <= n, NEW full \in BOOLEAN,
              ResizeAndOverwrite(v, n, r, full)
       PROVE  Proper
  <2> DEFINE k == IF full THEN buff_cap(Storage(v), n) ELSE r
             st == resize_and_overwrite(supports_reallocation, Storage(v), n, 0, Fill(k, Ch), k)
  <2>1. Apply("resize_and_overwrite", v, <<n, r, full>>, st)
    BY <1>17 DEF ResizeAndOverwrite
  <2>2. n \in Lengths /\ r \in Lengths
    BY CountsAreLengths
  <2>3. Good("resize_and_overwrite", v, <<n, r, full>>, st)
    BY <1>1, <1>17, <2>2, OverwriteGood
  <2> HIDE DEF st
  <2> QED
    BY <2>1, <2>3, ApplyOwns
<1>18. ASSUME NEW i \in Indexes(v), Substr(v, i) PROVE Proper
  BY <1>18, AskOwns DEF Substr, Outcomes
<1>19. ASSUME NEW i \in Indexes(v), NEW n \in Small \cup Huge, InsertFill(v, i, n, Ch)
       PROVE  Proper
  <2>1. Ready(v, Foreign(Fill(n, Ch)), n)
    BY CountsAreLengths, FillReady
  <2>2. Good("insert", v, <<i, Foreign(Fill(n, Ch))>>,
             insert_fill(supports_reallocation, Storage(v), i, n, Ch))
    BY <1>1, <1>3, <2>1, InsertGood DEF insert_fill, replace_fill
  <2> QED
    BY <1>19, <2>2, ApplyOwns DEF InsertFill
<1>20. ASSUME NEW i \in Indexes(v), NEW src \in Sources(v), Insert(v, i, src)
       PROVE  Proper
  <2>1. Good("insert", v, <<i, src>>, insert_copy(supports_reallocation, Storage(v), i, src))
    BY <1>1, <1>3, SourceReady, InsertGood DEF insert_copy, replace_copy
  <2> QED
    BY <1>20, <2>1, ApplyOwns DEF Insert
<1>21. ASSUME NEW i \in Indexes(v), NEW n \in Small \cup {npos}, Erase(v, i, n)
       PROVE  Proper
  BY <1>1, <1>3, <1>4, <1>21, EraseGood, ApplyOwns DEF Erase
<1>22. ASSUME NEW i \in 0 .. size(v), NEW j \in 0 .. size(v), EraseRange(v, i, j)
       PROVE  Proper
  <2>1. i <= j
    BY <1>22 DEF EraseRange
  <2> QED
    BY <1>1, <1>22, <2>1, EraseRangeGood, ApplyOwns DEF EraseRange
<1>23. ASSUME NEW i \in Indexes(v), NEW n \in Small, NEW src \in Sources(v), Replace(v, i, n, src)
       PROVE  Proper
  <2>1. Good("replace", v, <<i, n, src>>,
             replace_copy(supports_reallocation, Storage(v), i, n, src))
    BY <1>1, <1>3, <1>5, SourceReady, ReplaceGood DEF replace_copy
  <2> QED
    BY <1>23, <2>1, ApplyOwns DEF Replace
<1>24. ASSUME NEW i \in Indexes(v), NEW n \in Small, NEW m \in Small, ReplaceFill(v, i, n, m, Ch)
       PROVE  Proper
  <2>1. Ready(v, Foreign(Fill(m, Ch)), m)
    BY <1>5, FillReady
  <2>2. Good("replace", v, <<i, n, Foreign(Fill(m, Ch))>>,
             replace_fill(supports_reallocation, Storage(v), i, n, m, Ch))
    BY <1>1, <1>3, <1>5, <2>1, ReplaceGood DEF replace_fill
  <2> QED
    BY <1>24, <2>2, ApplyOwns DEF ReplaceFill
<1>25. ASSUME NEW what \in Texts, NEW with \in Texts, FindAndReplace(v, what, with)
       PROVE  Proper
  <2>1. what \in Seq(Alphabet) /\ with \in Seq(Alphabet)
    BY TextsWords DEF Texts0
  <2>2. Good("find_and_replace", v, <<what, with>>,
             find_and_replace(supports_reallocation, Storage(v), what, with))
    BY <1>1, <2>1, FindAndReplaceGood
  <2> QED
    BY <1>25, <2>2, ApplyOwns DEF FindAndReplace
<1> QED
  BY <1>6, <1>7, <1>8, <1>9, <1>10, <1>11, <1>12, <1>13, <1>14, <1>15, <1>16, <1>17, <1>18, <1>19,
     <1>20, <1>21, <1>22, <1>23, <1>24, <1>25, Zenon DEF Edit

LEMMA NextOwns ==
  ASSUME Owns, Next
  PROVE  Proper
<1>1. ASSUME NEW v \in Strs, Create(v) \/ Self(v) \/ Edit(v) \/ Destroy(v) PROVE Proper
  BY <1>1, CreateOwns, AssignCopyOwns, AssignMoveSelfOwns, EditOwns, DestroyOwns DEF Self
<1>2. CASE Return
  <2>1. UNCHANGED <<tag, alive, str, heap, mem>> /\ last'.out = "ok" /\ last'.op = "none"
    BY <1>2 DEF Return, NoCall
  <2>2. \A v \in alive' : EndKept(v)
    BY <2>1, StopsKeeps
  <2> QED
    BY <2>1, <2>2, StopsOwns DEF Proper, UndefinedOnly, Outcomes
<1> QED
  BY <1>1, <1>2, BetweenOwns, StringsAssumption DEF Next

\* Nothing happens to the strings.
LEMMA StutterOwns ==
  ASSUME Owns, UndefinedOnly, UNCHANGED vars
  PROVE  Owns' /\ UndefinedOnly'
<1>1. last' = last /\ UNCHANGED <<tag, alive, str, heap, mem>> /\ last.out \in Outcomes
  BY DEF vars, Owns
<1>2. Owns'
  BY <1>1, StopsOwns
<1>3. UndefinedOnly'
  BY <1>1 DEF UndefinedOnly, LeavesStorage, Wanted, Countable, AssignsReleased, IsDynamic, size,
              Slots, data, supports_reallocation
<1> QED
  BY <1>2, <1>3

\* In every run of the program each string owns its storage alone, with a place
\* for the terminator behind its characters, no block is lost, and a static string
\* never allocates.  This holds even where a size has wrapped: growth() may then
\* return less than was asked for, but an access outside the block it gets ends
\* the run before the string is used.
THEOREM StorageOwnedHolds == Spec => []StorageOwned
<1>1. Init => Owns /\ UndefinedOnly
  BY OwnsInit DEF Init, NoCall, UndefinedOnly
<1>2. Owns /\ UndefinedOnly /\ [Next]_vars => Owns' /\ UndefinedOnly'
  BY NextOwns, StutterOwns DEF Proper
<1>3. Owns => StorageOwned
  BY OwnsStorage
<1> QED
  BY <1>1, <1>2, <1>3, PTL DEF Spec

\* A call of basic_string leaves the storage of its string, or shows characters
\* that nobody has written, only where UndefinedOnly says so.  Every other call, at
\* every length and after every history of calls on the string and on the others,
\* stays inside the storage its string owns and reads what has been written.
THEOREM UndefinedOnlyHolds == Spec => []UndefinedOnly
<1>1. Init => Owns /\ UndefinedOnly
  BY OwnsInit DEF Init, NoCall, UndefinedOnly
<1>2. Owns /\ UndefinedOnly /\ [Next]_vars => Owns' /\ UndefinedOnly'
  BY NextOwns, StutterOwns DEF Proper
<1> QED
  BY <1>1, <1>2, PTL DEF Spec

\* Every call of basic_string that changes a string leaves the terminator behind
\* its characters, whatever the storage held there before, at every length, for
\* the string it is called on and for the others; c_str() shows what view() shows,
\* but for the exceptions that TerminatorKept names.
THEOREM TerminatorKeptHolds == Spec => TerminatorKept
<1> DEFINE Keeps == \A v \in alive' : EndKept(v)
<1>1. Init => Owns /\ UndefinedOnly
  BY OwnsInit DEF Init, NoCall, UndefinedOnly
<1>2. Owns /\ UndefinedOnly /\ [Next]_vars => Owns' /\ UndefinedOnly' /\ [Keeps]_vars
  BY NextOwns, StutterOwns DEF Proper
<1>3. Spec => [][Keeps]_vars
  <2> HIDE DEF Keeps
  <2> QED
    BY <1>1, <1>2, PTL DEF Spec
<1> QED
  BY <1>3 DEF TerminatorKept, EndKept

=================================================================================
