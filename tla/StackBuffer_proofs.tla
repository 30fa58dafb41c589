-------------------------- MODULE StackBuffer_proofs --------------------------
(***************************************************************************)
(* StackBuffer for a buffer of any size and any set of messages, with the  *)
(* reader and the writer moving at any time.                               *)
(***************************************************************************)
EXTENDS StackBuffer, WellFoundedInduction, TLAPS

\* The block the writer is about to add, or is adding.
WriterInv ==
  /\ wpc # "idle" => wat + Block(wmsg) <= Cap
  /\ Pushing => index = wat + Block(wmsg)
  /\ wpc \in {"footer", "store"} =>
       \A k \in 1 .. SizeOf[wmsg] : buffer[wat + k - 1] = Byte(wmsg, k)
  /\ wpc = "store" => buffer[wat + SizeOf[wmsg]] = Foot(SizeOf[wmsg])

\* What the reader looks at is the block under the push, of which it has then taken
\* something early, or a block that stays in the buffer until the reader pops it.
ReaderInv ==
  rpc # "idle" =>
    \/ /\ Unfinished(rat) /\ rat = index
       /\ rpc \in {"copy", "pop", "exchange"} => "range" \in early
       /\ rpc = "exchange" => "size" \in early
    \/ \E e \in entries :
         /\ End(e) = rat
         /\ rpc = "copy" /\ "range" \notin early => rsize = SizeOf[e.msg]
         /\ rpc \in {"pop", "exchange"} /\ "range" \notin early => rdata = Bytes(e.msg)
         /\ rpc = "exchange" /\ "size" \notin early => rsize = SizeOf[e.msg]

Entries == entries \subseteq [at : Nat, msg : Msgs]

Inv == TypeOK /\ Entries /\ Tiles /\ WriterInv /\ ReaderInv

\* A message has a size, and with its footer takes at least one unit.
LEMMA Blocks == \A m \in Msgs : SizeOf[m] \in Nat /\ Block(m) = SizeOf[m] + 1
BY StackAssumption DEF Block, Footer

\* Within the buffer the arithmetic of std::size_t does not wrap.
LEMMA NoWrap == \A n \in 0 .. Cap : Wrap(n) = n
BY StackAssumption DEF Wrap

\* An entry is a message with its place, below the end of the stack.
LEMMA EntryInside ==
  ASSUME Inv, NEW e \in entries
  PROVE  /\ e.at \in Nat /\ e.msg \in Msgs /\ SizeOf[e.msg] \in Nat
         /\ End(e) = e.at + SizeOf[e.msg] + 1
         /\ End(e) <= Top /\ Top \in 0 .. Cap
<1>1. e.at \in Nat /\ e.msg \in Msgs
  BY DEF Inv, Entries
<1>2. SizeOf[e.msg] \in Nat /\ End(e) = e.at + SizeOf[e.msg] + 1
  BY <1>1, Blocks DEF End
<1>3. End(e) <= Top /\ Top \in 0 .. Cap
  BY DEF Inv, Tiles, Top, TypeOK
<1> QED
  BY <1>1, <1>2, <1>3

\* A change above the end of the stack keeps the blocks below it.
LEMMA WriteAbove ==
  ASSUME Inv, UNCHANGED entries, Top' = Top,
         \A i \in DOMAIN buffer : i < Top => buffer'[i] = buffer[i]
  PROVE  Tiles'
<1>1. ASSUME NEW e \in entries
      PROVE  /\ End(e) <= Top'
             /\ \A k \in 1 .. SizeOf[e.msg] : buffer'[e.at + k - 1] = Byte(e.msg, k)
             /\ buffer'[e.at + SizeOf[e.msg]] = Foot(SizeOf[e.msg])
  <2>1. \A i \in e.at .. e.at + SizeOf[e.msg] : buffer'[i] = buffer[i]
    <3>1. ASSUME NEW i \in e.at .. e.at + SizeOf[e.msg] PROVE i \in 0 .. Cap /\ i < Top
      BY EntryInside, StackAssumption
    <3> QED
      BY <3>1, StackAssumption DEF Inv, TypeOK, Footer
  <2>2. ASSUME NEW k \in 1 .. SizeOf[e.msg] PROVE buffer'[e.at + k - 1] = Byte(e.msg, k)
    <3>1. e.at + k - 1 \in e.at .. e.at + SizeOf[e.msg]
      BY EntryInside
    <3> QED
      BY <2>1, <3>1 DEF Inv, Tiles
  <2>3. buffer'[e.at + SizeOf[e.msg]] = Foot(SizeOf[e.msg])
    <3>1. e.at + SizeOf[e.msg] \in e.at .. e.at + SizeOf[e.msg]
      BY EntryInside
    <3> QED
      BY <2>1, <3>1 DEF Inv, Tiles
  <2> QED
    BY <2>2, <2>3, EntryInside
<1> QED
  BY <1>1 DEF Inv, Tiles, End

\* Inv holds in an empty buffer.
LEMMA InitInv == Init => Inv
<1> SUFFICES ASSUME Init PROVE Inv
  OBVIOUS
<1>1. TypeOK
  BY StackAssumption DEF Init, TypeOK, Footer
<1>2. Tiles /\ Entries
  BY DEF Init, Tiles, Entries, Top, Pushing
<1>3. WriterInv /\ ReaderInv
  BY DEF Init, WriterInv, ReaderInv, Pushing
<1> QED
  BY <1>1, <1>2, <1>3 DEF Inv

\* A step of the writer leaves to the reader what it looks at.
LEMMA ReaderStays ==
  ASSUME Inv, UNCHANGED reader, entries \subseteq entries',
         Unfinished(rat) /\ rat = index =>
           \/ Unfinished(rat)' /\ index' = index
           \/ \E e \in entries' : End(e) = rat
  PROVE  ReaderInv'
<1>1. SUFFICES ASSUME rpc # "idle" PROVE ReaderInv'
  BY DEF ReaderInv, reader
<1>2. ASSUME NEW e \in entries, End(e) = rat,
             rpc = "copy" /\ "range" \notin early => rsize = SizeOf[e.msg],
             rpc \in {"pop", "exchange"} /\ "range" \notin early => rdata = Bytes(e.msg),
             rpc = "exchange" /\ "size" \notin early => rsize = SizeOf[e.msg]
      PROVE  ReaderInv'
  BY <1>2 DEF ReaderInv, reader, End, Block
<1>3. ASSUME Unfinished(rat), rat = index,
             rpc \in {"copy", "pop", "exchange"} => "range" \in early,
             rpc = "exchange" => "size" \in early
      PROVE  ReaderInv'
  <2>1. CASE Unfinished(rat)' /\ index' = index
    BY <1>3, <2>1 DEF ReaderInv, reader
  <2>2. ASSUME NEW e \in entries', End(e) = rat PROVE ReaderInv'
    BY <1>3, <2>2 DEF ReaderInv, reader, End, Block
  <2> QED
    BY <1>3, <2>1, <2>2
<1> QED
  BY <1>1, <1>2, <1>3 DEF Inv, ReaderInv

\* push keeps Inv.
LEMMA WriterStep == Inv /\ Writer => Inv'
<1> SUFFICES ASSUME Inv, Writer PROVE Inv'
  OBVIOUS
<1> USE StackAssumption, Blocks, NoWrap DEF Inv, Entries
<1>1. ASSUME NEW m \in Msgs, PushCall(m) PROVE Inv'
  <2> USE <1>1 DEF PushCall, reader
  <2>1. TypeOK'
    BY DEF TypeOK
  <2>2. Entries' /\ Tiles'
    BY DEF Tiles, Top, Pushing, End
  <2>3. WriterInv'
    <3>1. Wrap(Cap - index) = Cap - index
      BY DEF TypeOK
    <3> QED
      BY <3>1 DEF WriterInv, Pushing, TypeOK
  <2>4. ReaderInv'
    BY ReaderStays DEF Unfinished, Pushing
  <2> QED
    BY <2>1, <2>2, <2>3, <2>4
<1>2. CASE PushExchange
  <2> USE <1>2 DEF PushExchange, reader
  <2>1. index = wat => index' = wat + Block(wmsg) /\ index' \in 0 .. Cap
    BY DEF WriterInv, TypeOK
  <2>2. TypeOK'
    BY <2>1 DEF TypeOK
  <2>3. Entries' /\ Tiles'
    BY DEF Tiles, Top, Pushing, End, TypeOK
  <2>4. WriterInv'
    BY <2>1 DEF WriterInv, Pushing, TypeOK
  <2>5. ReaderInv'
    BY ReaderStays DEF Unfinished, Pushing
  <2> QED
    BY <2>2, <2>3, <2>4, <2>5
<1>3. CASE PushCopy
  <2> USE <1>3 DEF PushCopy, reader
  <2>1. Pushing /\ Pushing' /\ Top = wat /\ Top' = wat
    BY DEF Pushing, Top
  <2>2. TypeOK'
    BY DEF TypeOK
  <2>3. \A i \in DOMAIN buffer : i < wat => buffer'[i] = buffer[i]
    BY DEF TypeOK
  <2>4. Entries' /\ Tiles'
    BY <2>1, <2>3, WriteAbove
  <2>5. WriterInv'
    BY <2>1 DEF WriterInv, TypeOK, Footer
  <2>6. ReaderInv'
    BY <2>1, ReaderStays DEF Unfinished
  <2> QED
    BY <2>2, <2>4, <2>5, <2>6
<1>4. CASE PushFooter
  <2> USE <1>4 DEF PushFooter, reader
  <2>1. Pushing /\ Pushing' /\ Top = wat /\ Top' = wat
    BY DEF Pushing, Top
  <2>2. TypeOK'
    BY DEF TypeOK
  <2>3. \A i \in DOMAIN buffer : i < wat + SizeOf[wmsg] => buffer'[i] = buffer[i]
    BY DEF TypeOK
  <2>4. Entries' /\ Tiles'
    <3>1. \A i \in DOMAIN buffer : i < Top => buffer'[i] = buffer[i]
      BY <2>1, <2>3 DEF TypeOK, Footer
    <3> QED
      BY <2>1, <3>1, WriteAbove
  <2>5. WriterInv'
    BY <2>1, <2>3 DEF WriterInv, TypeOK, Footer
  <2>6. ReaderInv'
    BY <2>1, ReaderStays DEF Unfinished
  <2> QED
    BY <2>2, <2>4, <2>5, <2>6
<1>5. CASE PushStore
  <2> USE <1>5 DEF PushStore, reader
  <2> DEFINE new == [at |-> wat, msg |-> wmsg]
  <2>1. Top = wat /\ Top' = End(new) /\ End(new) = wat + Block(wmsg) /\ index' = index
    BY DEF Pushing, Top, End, WriterInv, TypeOK
  <2>2. TypeOK' /\ Entries'
    BY <2>1 DEF TypeOK
  <2>3. /\ End(new) = wat + SizeOf[wmsg] + 1
        /\ \A k \in 1 .. SizeOf[wmsg] : buffer'[wat + k - 1] = Byte(wmsg, k)
        /\ buffer'[wat + SizeOf[wmsg]] = Foot(SizeOf[wmsg])
        /\ wat = 0 \/ \E f \in entries : End(f) = wat
    BY <2>1 DEF WriterInv, Tiles, TypeOK
  <2>4. Tiles'
    <3>1. \A e \in entries : End(e) <= wat /\ wat < End(new)
      BY <2>1, <2>3 DEF Tiles, TypeOK
    <3>2. \A e \in entries' : e = new \/ e \in entries
      OBVIOUS
    <3>3. \A e \in entries' : End(e)' = End(e)
      BY DEF End
    <3>4. ASSUME NEW e \in entries'
          PROVE  /\ e.at = 0 \/ \E f \in entries' : End(f) = e.at
                 /\ End(e) <= Top'
                 /\ \A k \in 1 .. SizeOf[e.msg] : buffer'[e.at + k - 1] = Byte(e.msg, k)
                 /\ buffer'[e.at + SizeOf[e.msg]] = Foot(SizeOf[e.msg])
      <4>1. CASE e = new
        BY <2>1, <2>3, <4>1 DEF TypeOK
      <4>2. CASE e \in entries
        <5>1. End(e) <= Top'
          BY <2>1, <3>1, <4>2, EntryInside DEF TypeOK
        <5> QED
          BY <4>2, <5>1 DEF Tiles
      <4> QED
        BY <3>2, <4>1, <4>2
    <3>5. \A e, f \in entries' : e = f \/ End(e) <= f.at \/ End(f) <= e.at
      BY <3>1, <3>2 DEF Tiles
    <3>6. \E e \in entries' : End(e) = Top'
      BY <2>1
    <3> QED
      BY <3>3, <3>4, <3>5, <3>6 DEF Tiles
  <2>5. WriterInv'
    BY DEF WriterInv, Pushing
  <2>6. ReaderInv'
    <3>1. Unfinished(rat) /\ rat = index => End(new) = rat /\ new \in entries'
      BY <2>1 DEF WriterInv, Pushing
    <3> QED
      BY <3>1, ReaderStays
  <2> QED
    BY <2>2, <2>4, <2>5, <2>6
<1> QED
  BY <1>1, <1>2, <1>3, <1>4, <1>5 DEF Writer

\* The footer below the end of a block holds the size of its message.
LEMMA FooterFound ==
  ASSUME Inv, NEW e \in entries
  PROVE  FooterAt(End(e)) = {SizeOf[e.msg]}
<1> DEFINE i == End(e) - Footer
<1>1. i = e.at + SizeOf[e.msg] /\ i \in 0 .. Cap
  BY StackAssumption, EntryInside DEF Footer
<1>2. i \in DOMAIN buffer
  BY <1>1, StackAssumption DEF Inv, TypeOK, Footer
<1>3. buffer[i] = Foot(SizeOf[e.msg])
  BY <1>1 DEF Inv, Tiles
<1>4. buffer[i][1] = "footer" /\ buffer[i][2] = SizeOf[e.msg]
  BY <1>3 DEF Foot
<1> QED
  BY <1>2, <1>4 DEF FooterAt

\* A block in the buffer is not the one under a push.
LEMMA EntryFinished ==
  ASSUME Inv, NEW e \in entries
  PROVE  ~Unfinished(End(e)) /\ (Pushing => End(e) # index)
<1>1. End(e) <= Top /\ End(e) \in Nat
  BY EntryInside
<1>2. CASE Pushing
  <2>1. index = wat + Block(wmsg) /\ Block(wmsg) \in Nat \ {0} /\ Top = wat /\ wat \in Nat
    BY <1>2, Blocks DEF Inv, WriterInv, TypeOK, Top
  <2> QED
    BY <1>1, <2>1 DEF Unfinished
<1> QED
  BY <1>2 DEF Unfinished

\* A look of the reader changes nothing that the blocks and the writer rest on.
LEMMA LookStep ==
  ASSUME Inv, UNCHANGED <<index, buffer, writer, entries>>
  PROVE  Entries' /\ Tiles' /\ WriterInv'
<1>1. Entries' /\ WriterInv'
  BY DEF Inv, Entries, WriterInv, Pushing, writer, Block
<1>2. Tiles'
  BY DEF Inv, Tiles, Top, Pushing, End, Block, writer
<1> QED
  BY <1>1, <1>2

\* top and pop keep Inv, unless pop goes by a size that it read too early, or moves
\* the index under a push.
LEMMA ReaderStep == Inv /\ Reader /\ Kept' => Inv'
<1> SUFFICES ASSUME Inv, Reader, Kept' PROVE Inv'
  OBVIOUS
<1> USE StackAssumption, Blocks, NoWrap DEF Inv, Entries
<1>1. CASE TopLoad
  <2> USE <1>1 DEF TopLoad, writer
  <2>1. TypeOK'
    BY DEF TypeOK
  <2>2. Tiles' /\ Entries' /\ WriterInv'
    BY LookStep
  <2>3. ReaderInv'
    <3>1. CASE Pushing
      <4>1. index > wat
        BY <3>1 DEF WriterInv, TypeOK
      <4> QED
        BY <3>1, <4>1 DEF ReaderInv, Unfinished, Pushing
    <3>2. CASE ~Pushing
      BY <3>2 DEF ReaderInv, Tiles, Top, End, Block
    <3> QED
      BY <3>1, <3>2
  <2> QED
    BY <2>1, <2>2, <2>3
<1>2. ASSUME TopFooter \/ PopFooter PROVE Inv'
  <2> USE <1>2 DEF TopFooter, PopFooter, writer, Takes
  <2>1. Tiles' /\ Entries' /\ WriterInv'
    BY LookStep
  <2>2. CASE /\ Unfinished(rat) /\ rat = index
             /\ rpc \in {"copy", "pop", "exchange"} => "range" \in early
    <3>1. TypeOK'
      BY <2>2 DEF TypeOK
    <3>2. Unfinished(rat)' /\ rat' = index'
      BY <2>2 DEF Unfinished, Pushing
    <3>3. ReaderInv'
      BY <2>2, <3>2 DEF ReaderInv
    <3> QED
      BY <2>1, <3>1, <3>3
  <2>3. ASSUME NEW e \in entries, End(e) = rat,
               rpc \in {"pop", "exchange"} /\ "range" \notin early => rdata = Bytes(e.msg)
        PROVE  Inv'
    <3>1. rsize' = SizeOf[e.msg]
      BY <2>3, FooterFound
    <3>2. SizeOf[e.msg] \in 0 .. Cap
      BY <2>3, EntryInside DEF TypeOK
    <3>3. early' = early
      BY <2>3, EntryFinished
    <3>4. TypeOK'
      BY <3>1, <3>2, <3>3 DEF TypeOK
    <3>5. ReaderInv'
      BY <2>3, <3>1, <3>3 DEF ReaderInv, End, Block
    <3> QED
      BY <2>1, <3>4, <3>5
  <2> QED
    BY <2>2, <2>3 DEF ReaderInv
<1>3. CASE CopyRange
  <2> USE <1>3 DEF CopyRange, writer, Takes
  <2>1. Tiles' /\ Entries' /\ WriterInv'
    BY LookStep
  <2>2. TypeOK'
    BY DEF TypeOK
  <2>3. CASE Unfinished(rat) /\ rat = index
    <3>1. Unfinished(rat)' /\ rat' = index' /\ "range" \in early'
      BY <2>3 DEF Unfinished, Pushing
    <3>2. ReaderInv'
      BY <3>1 DEF ReaderInv
    <3> QED
      BY <2>1, <2>2, <3>2
  <2>4. ASSUME NEW e \in entries, End(e) = rat, "range" \notin early => rsize = SizeOf[e.msg]
        PROVE  Inv'
    <3>1. early' = early
      BY <2>4, EntryFinished
    <3>2. ASSUME "range" \notin early PROVE rdata' = Bytes(e.msg)
      <4>1. /\ rsize = SizeOf[e.msg] /\ rat - Footer - rsize = e.at
            /\ e.at \in Nat /\ SizeOf[e.msg] \in Nat /\ e.at + SizeOf[e.msg] < Cap + Footer
            /\ DOMAIN buffer = 0 .. Cap + Footer - 1 /\ rat \in Int /\ Cap \in Nat
        <5>1. DOMAIN buffer = 0 .. Cap + Footer - 1 /\ rat \in Int /\ Cap \in Nat
          BY DEF TypeOK
        <5>2. /\ rsize = SizeOf[e.msg] /\ rat = e.at + SizeOf[e.msg] + 1
              /\ e.at \in Nat /\ SizeOf[e.msg] \in Nat /\ rat <= Cap
          BY <2>4, <3>2, EntryInside
        <5> QED
          BY ONLY <5>1, <5>2 DEF Footer
      <4>2. ASSUME NEW k \in 1 .. rsize
            PROVE  /\ rat - Footer - rsize + k - 1 = e.at + k - 1
                   /\ e.at + k - 1 \in DOMAIN buffer
                   /\ buffer[e.at + k - 1] = Byte(e.msg, k)
        <5>1. k \in Int /\ 1 <= k /\ k <= SizeOf[e.msg] /\ k \in 1 .. SizeOf[e.msg]
          BY <4>1
        <5>2. rat - Footer - rsize + k - 1 = e.at + k - 1
          BY ONLY <4>1, <5>1 DEF Footer
        <5>3. e.at + k - 1 \in DOMAIN buffer
          BY ONLY <4>1, <5>1 DEF Footer
        <5> QED
          BY <5>1, <5>2, <5>3 DEF Tiles
      <4> QED
        BY <4>1, <4>2 DEF Bytes
    <3>3. ReaderInv'
      BY <2>4, <3>1, <3>2 DEF ReaderInv, End, Block
    <3> QED
      BY <2>1, <2>2, <3>3
  <2> QED
    BY <2>3, <2>4 DEF ReaderInv
<1>4. CASE PopExchange
  <2> USE <1>4 DEF PopExchange, writer
  <2>1. CASE index # rat
    <3>1. Tiles' /\ Entries' /\ WriterInv'
      BY <2>1, LookStep
    <3>2. TypeOK'
      <4>1. rat' \in 0 .. Cap /\ rsize' \in 0 .. Cap /\ early' = {}
        OBVIOUS
      <4> QED
        BY <2>1, <4>1 DEF TypeOK
    <3>3. ReaderInv'
      BY DEF ReaderInv
    <3> QED
      BY <3>1, <3>2, <3>3
  <2>2. CASE index = rat /\ Confirms
    <3>1. PICK e \in entries : End(e) = rat /\ rsize = SizeOf[e.msg]
      BY <2>2 DEF ReaderInv, Confirms, Kept
    <3>2. ~Pushing
      BY <2>2, <3>1, EntryFinished
    <3>3. e.at \in Nat /\ e.at < rat /\ index' = e.at /\ e.at \in 0 .. Cap
      <4>1. e.at \in Nat /\ rat = e.at + SizeOf[e.msg] + 1 /\ rat - rsize - Footer = e.at
        BY <3>1, EntryInside DEF Footer
      <4>2. e.at < rat /\ e.at \in 0 .. Cap
        BY <3>1, <4>1, EntryInside
      <4> QED
        BY <2>2, <4>1, <4>2 DEF Confirms
    <3>4. TypeOK'
      BY <2>2, <3>3 DEF TypeOK, Confirms, Kept
    <3>5. Entries' /\ WriterInv' /\ ReaderInv'
      BY <2>2, <3>2 DEF WriterInv, ReaderInv, Pushing, Confirms
    <3>6. entries' = {f \in entries : End(f) # rat} /\ buffer' = buffer
      BY <2>2 DEF Confirms
    <3>7. Top = rat /\ Top' = e.at
      BY <2>2, <3>2, <3>3 DEF Top, Pushing
    <3>8. \A f \in entries : /\ End(f)' = End(f) /\ End(f) \in Nat /\ f.at \in Nat
                             /\ f.at < End(f)
      BY DEF End
    <3>9. Tiles'
      <4>1. \A f \in entries' : /\ f \in entries /\ f # e /\ End(f) # rat
                                /\ End(f) <= e.at \/ rat <= f.at
        BY <3>1, <3>6 DEF Tiles
      <4>2. \A f \in entries' : End(f) <= e.at
        BY <3>3, <3>7, <3>8, <4>1 DEF Tiles
      <4>3. e.at = 0 \/ \E f \in entries' : End(f) = e.at
        BY <3>3, <3>6 DEF Tiles
      <4>4. ASSUME NEW f \in entries', NEW g \in entries, End(g) = f.at
            PROVE  g \in entries'
        BY <3>3, <3>6, <3>8, <4>1, <4>2, <4>4
      <4>5. \A f \in entries' : f.at = 0 \/ \E g \in entries' : End(g) = f.at
        BY <4>1, <4>4 DEF Tiles
      <4> QED
        <5>1. \A f \in entries' : End(f)' = End(f) /\ f \in entries
          BY <3>8, <4>1
        <5>2. ASSUME NEW f \in entries'
              PROVE  /\ \A k \in 1 .. SizeOf[f.msg] : buffer'[f.at + k - 1] = Byte(f.msg, k)
                     /\ buffer'[f.at + SizeOf[f.msg]] = Foot(SizeOf[f.msg])
          BY <3>6, <5>1 DEF Tiles
        <5>3. \A f, g \in entries' : f = g \/ End(f) <= g.at \/ End(g) <= f.at
          BY <5>1 DEF Tiles
        <5> HIDE <1>4 DEF Inv, PopExchange
        <5> QED
          BY <3>7, <4>2, <4>3, <4>5, <5>1, <5>2, <5>3 DEF Tiles
    <3> QED
      BY <3>4, <3>5, <3>9
  <2> QED
    BY <2>1, <2>2
<1> QED
  BY <1>1, <1>2, <1>3, <1>4 DEF Reader

\* A step that changes nothing keeps Inv.
LEMMA StutterStep == Inv /\ UNCHANGED vars => Inv'
BY DEF vars, writer, reader, Inv, TypeOK, Entries, Tiles, WriterInv, ReaderInv, Top,
       Pushing, Unfinished, End, Block

\* What has been confirmed stays so.
LEMMA KeptBefore == [Next]_vars /\ Kept' => Kept
<1> SUFFICES ASSUME [Next]_vars PROVE spoilt \subseteq spoilt'
  BY DEF Kept
<1>1. CASE Writer
  BY <1>1 DEF Writer, PushCall, PushExchange, PushCopy, PushFooter, PushStore, reader
<1>2. CASE Reader
  BY <1>2 DEF Reader, TopLoad, TopFooter, CopyRange, PopFooter, PopExchange, Confirms
<1>3. CASE UNCHANGED vars
  BY <1>3 DEF vars, reader
<1> QED
  BY <1>1, <1>2, <1>3 DEF Next

\* Every step keeps Inv as long as Kept holds.
LEMMA KeptStep == (Kept => Inv) /\ [Next]_vars => (Kept' => Inv')
BY KeptBefore, WriterStep, ReaderStep, StutterStep DEF Next

\* Inv holds at least until a pop has moved the index by a size that it read too early,
\* or under a push, whichever of the two clients moves when.
THEOREM Invariance == Spec => [](Kept => Inv)
<1>1. Init => (Kept => Inv)
  BY InitInv
<1> QED
  BY <1>1, KeptStep, PTL DEF Spec

\* The index, the ranges and the sizes stay inside the buffer as long.
THEOREM TypeCorrect == Spec => [](Kept => TypeOK)
<1>1. (Kept => Inv) => (Kept => TypeOK)
  BY DEF Inv
<1> QED
  BY <1>1, Invariance, PTL

\* The blocks tile the buffer below the index through every interleaving, copies
\* of ranges that are not written yet included.
THEOREM TiledHolds == Spec => []Tiled
<1>1. (Kept => Inv) => Tiled
  BY DEF Inv, Tiled
<1> QED
  BY <1>1, Invariance, PTL

\* A pop that finds the index top saw, and looked at finished blocks only, confirms
\* the whole message pushed last, and removes its block: between top and pop, and
\* between any two of their steps, the reader may meet any number of pushes, or a part.
THEOREM PopReturnsTopHolds == Spec => []PopReturnsTop
<1>1. (Kept => Inv) => PopReturnsTop
  <2> SUFFICES ASSUME Inv, rpc = "exchange", index = rat, "size" \notin early, ~Pushing
               PROVE  \E e \in entries :
                        Confirmable(e) /\ ("range" \notin early => rdata = Bytes(e.msg))
    BY DEF PopReturnsTop
  <2>1. PICK e \in entries : /\ End(e) = rat /\ rsize = SizeOf[e.msg]
                             /\ "range" \notin early => rdata = Bytes(e.msg)
    BY DEF Inv, ReaderInv, Unfinished
  <2>2. index - rsize - Footer = e.at
    BY <2>1, Blocks DEF Inv, Entries, End, Footer
  <2> QED
    BY <2>1, <2>2 DEF Confirmable
<1> QED
  BY <1>1, Invariance, PTL

-------------------------------------------------------------------------------
(* The refinement of Stack: the contents read by following the footers. *)

\* A set of numbers has a least one.
LEMMA Least ==
  ASSUME NEW S0 \in SUBSET Nat, S0 # {}
  PROVE  \E i \in S0 : \A j \in S0 : i <= j
<1> DEFINE R == OpToRel(<, Nat)
<1>1. IsWellFoundedOn(R, Nat)
  BY NatLessThanWellFounded, Zenon
<1>2. \A m, n \in Nat : m < n => <<m, n>> \in R
  BY DEF OpToRel
<1> HIDE DEF R
<1>3. PICK i \in S0 : \A j \in S0 : ~(<<j, i>> \in R)
  BY <1>1, WFMin
<1>4. \A j \in S0 : ~(j < i)
  BY <1>2, <1>3
<1> QED
  BY <1>4

\* What holds of every number below n, and then of n, holds of all of them.
LEMMA Descent ==
  ASSUME NEW U, \A n \in Nat : (\A i \in Nat : i < n => i \in U) => n \in U
  PROVE  \A n \in Nat : n \in U
<1> DEFINE V == Nat \ U
<1>1. SUFFICES ASSUME V # {} PROVE FALSE
  OBVIOUS
<1>2. PICK n \in V : \A m \in V : n <= m
  BY <1>1, Least
<1>3. \A i \in Nat : i < n => i \in U
  BY <1>2
<1> QED
  BY <1>2, <1>3

\* What the contents below index i are, in terms of those below a lower index.
Unrolled ==
  \A i \in 0 .. Cap :
    Below[i] = IF \E n \in 0 .. i - Footer : buffer[i - Footer] = Foot(n)
                 THEN Append(Below[i - Footer - buffer[i - Footer][2]],
                             Decode([k \in 1 .. buffer[i - Footer][2] |->
                                       buffer[i - Footer - buffer[i - Footer][2] + k - 1]]))
                 ELSE <<>>

\* Whatever the buffer holds, following the footers downwards comes to an end.
LEMMA BelowExists ==
  ASSUME NEW b
  PROVE  \E g : g = [i \in 0 .. Cap |->
           IF \E n \in 0 .. i - Footer : b[i - Footer] = Foot(n)
             THEN Append(g[i - Footer - b[i - Footer][2]],
                         Decode([k \in 1 .. b[i - Footer][2] |->
                                   b[i - Footer - b[i - Footer][2] + k - 1]]))
             ELSE <<>>]
<1> DEFINE Led(i) == \E n \in 0 .. i - Footer : b[i - Footer] = Foot(n)
           size(i) == b[i - Footer][2]
           msg(i) == Decode([k \in 1 .. size(i) |-> b[i - Footer - size(i) + k - 1]])
           Body(g, i) == IF Led(i) THEN Append(g[i - Footer - size(i)], msg(i)) ELSE <<>>
           Good(g, n) == \A i \in 0 .. n : g[i] = Body(g, i)
           U == {n \in Nat : \E g : Good(g, n)}
<1>1. \A i \in Nat : Led(i) => size(i) \in Nat /\ i - Footer - size(i) \in 0 .. i - 1
  BY DEF Foot, Footer
<1> HIDE DEF Led, size, msg
<1>2. ASSUME NEW n \in Nat, \A i \in Nat : i < n => i \in U PROVE n \in U
  <2>1. CASE n = 0
    <3>1. ~Led(0)
      BY <1>1
    <3>2. Good([i \in {0} |-> <<>>], 0)
      BY <3>1
    <3> QED
      BY <2>1, <3>2
  <2>2. CASE n # 0
    <3>1. n - 1 \in Nat /\ n - 1 < n
      BY <2>2
    <3>2. PICK g : Good(g, n - 1)
      BY <1>2, <3>1
    <3> DEFINE h == [i \in 0 .. n |-> IF i = n THEN Body(g, n) ELSE g[i]]
    <3>3. ASSUME NEW i \in 0 .. n PROVE h[i] = Body(h, i)
      <4>1. Led(i) => h[i - Footer - size(i)] = g[i - Footer - size(i)]
        <5>1. SUFFICES ASSUME Led(i) PROVE h[i - Footer - size(i)] = g[i - Footer - size(i)]
          OBVIOUS
        <5> DEFINE j == i - Footer - size(i)
        <5>2. j \in 0 .. i - 1
          BY <1>1, <5>1
        <5> HIDE DEF j
        <5>3. j \in 0 .. n /\ j # n
          BY <5>2
        <5>4. h[j] = g[j]
          BY <5>3
        <5> QED
          BY <5>4 DEF j
      <4>2. Body(h, i) = Body(g, i)
        BY <4>1
      <4>3. h[i] = Body(g, i)
        <5>1. CASE i = n
          BY <5>1
        <5>2. CASE i # n
          <6>1. i \in 0 .. n - 1
            BY <5>2
          <6> QED
            BY <3>2, <5>2, <6>1
        <5> QED
          BY <5>1, <5>2
      <4> QED
        BY <4>2, <4>3
    <3>4. Good(h, n)
      <4> HIDE DEF h, Body
      <4> QED
        BY <3>3
    <3> QED
      BY <3>4
  <2> QED
    BY <2>1, <2>2
<1>3. \A n \in Nat : n \in U
  <2> HIDE DEF U
  <2> QED
    BY <1>2, Descent
<1>4. PICK g : Good(g, Cap)
  BY <1>3, StackAssumption
<1> DEFINE f == [i \in 0 .. Cap |-> g[i]]
<1>5. f = [i \in 0 .. Cap |-> Body(f, i)]
  <2>1. ASSUME NEW i \in 0 .. Cap PROVE g[i] = Body(f, i)
    <3>1. Led(i) => i - Footer - size(i) \in 0 .. Cap
      BY <1>1, StackAssumption
    <3>2. Led(i) => f[i - Footer - size(i)] = g[i - Footer - size(i)]
      BY <3>1
    <3>3. Body(f, i) = Body(g, i)
      <4> HIDE DEF f
      <4> QED
        BY <3>2
    <3> QED
      BY <1>4, <3>3
  <2> QED
    <3> HIDE DEF Body
    <3> QED
      BY <2>1
<1> QED
  BY <1>5 DEF Led, size, msg

LEMMA BelowUnrolls == Unrolled
<1>1. PICK g : g = [i \in 0 .. Cap |->
           IF \E n \in 0 .. i - Footer : buffer[i - Footer] = Foot(n)
             THEN Append(g[i - Footer - buffer[i - Footer][2]],
                         Decode([k \in 1 .. buffer[i - Footer][2] |->
                                   buffer[i - Footer - buffer[i - Footer][2] + k - 1]]))
             ELSE <<>>]
  BY BelowExists
<1>2. Below = [i \in 0 .. Cap |->
           IF \E n \in 0 .. i - Footer : buffer[i - Footer] = Foot(n)
             THEN Append(Below[i - Footer - buffer[i - Footer][2]],
                         Decode([k \in 1 .. buffer[i - Footer][2] |->
                                   buffer[i - Footer - buffer[i - Footer][2] + k - 1]]))
             ELSE <<>>]
  BY <1>1, Zenon DEF Below
<1> QED
  BY ONLY <1>2 DEF Unrolled

LEMMA BelowUnrollsNext == Unrolled'
BY BelowUnrolls, PTL

\* The contents are messages, torn ones included.
LEMMA BelowIsSeq == \A i \in 0 .. Cap : Below[i] \in Seq(Msgs \cup {Torn})
<1> DEFINE M == Msgs \cup {Torn}
           U == {n \in Nat : n \in 0 .. Cap => Below[n] \in Seq(M)}
<1>1. \A s : Decode(s) \in M
  BY DEF Decode
<1>2. ASSUME NEW n \in Nat, \A i \in Nat : i < n => i \in U PROVE n \in U
  <2>1. SUFFICES ASSUME n \in 0 .. Cap PROVE Below[n] \in Seq(M)
    OBVIOUS
  <2> DEFINE size == buffer[n - Footer][2]
             low == n - Footer - size
             top == Decode([k \in 1 .. size |-> buffer[low + k - 1]])
  <2>2. CASE \E m \in 0 .. n - Footer : buffer[n - Footer] = Foot(m)
    <3>1. low \in 0 .. n - 1
      BY <2>2 DEF Foot, Footer
    <3>2. Below[n] = Append(Below[low], top)
      BY <2>1, <2>2, BelowUnrolls DEF Unrolled
    <3>3. top \in M
      BY <1>1
    <3> HIDE DEF low, top
    <3>4. low \in Nat /\ low < n /\ low \in 0 .. Cap
      BY <2>1, <3>1, StackAssumption
    <3>5. Below[low] \in Seq(M)
      BY <1>2, <3>4
    <3> QED
      BY <3>2, <3>3, <3>5
  <2>3. CASE ~\E m \in 0 .. n - Footer : buffer[n - Footer] = Foot(m)
    <3>1. Below[n] = <<>>
      BY <2>1, <2>3, BelowUnrolls DEF Unrolled
    <3> QED
      BY <3>1
  <2> QED
    BY <2>2, <2>3
<1> HIDE DEF U
<1>3. \A n \in Nat : n \in U
  BY <1>2, Descent
<1> QED
  BY <1>3, StackAssumption DEF U

\* The contents below an index do not depend on what is written above it.
LEMMA BelowKept ==
  ASSUME NEW t \in 0 .. Cap, \A j \in 0 .. t - 1 : buffer'[j] = buffer[j]
  PROVE  Below'[t] = Below[t]
<1> DEFINE U == {n \in Nat : n \in 0 .. t => Below'[n] = Below[n]}
<1>1. ASSUME NEW n \in Nat, \A i \in Nat : i < n => i \in U PROVE n \in U
  <2>1. SUFFICES ASSUME n \in 0 .. t PROVE Below'[n] = Below[n]
    OBVIOUS
  <2>2. n \in 0 .. Cap
    BY <2>1, StackAssumption
  <2> DEFINE size == buffer[n - Footer][2]
             low == n - Footer - size
  <2>3. CASE \E m \in 0 .. n - Footer : buffer[n - Footer] = Foot(m)
    <3>1. low \in 0 .. n - 1 /\ size \in Nat /\ low + size = n - 1 /\ n - Footer \in 0 .. t - 1
      BY <2>1, <2>3 DEF Foot, Footer
    <3>2. buffer'[n - Footer] = buffer[n - Footer]
      BY <3>1
    <3>3. Below[n] = Append(Below[low], Decode([k \in 1 .. size |-> buffer[low + k - 1]]))
      BY <2>2, <2>3, BelowUnrolls DEF Unrolled
    <3>4. Below'[n] = Append(Below'[low], Decode([k \in 1 .. size |-> buffer'[low + k - 1]]))
      BY <2>2, <2>3, <3>2, BelowUnrollsNext DEF Unrolled
    <3> HIDE DEF low, size
    <3>5. [k \in 1 .. size |-> buffer'[low + k - 1]] = [k \in 1 .. size |-> buffer[low + k - 1]]
      <4>1. ASSUME NEW k \in 1 .. size PROVE low + k - 1 \in 0 .. t - 1
        BY <2>1, <3>1
      <4> QED
        BY <4>1
    <3>6. low \in Nat /\ low < n /\ low \in 0 .. t
      BY <2>1, <3>1
    <3>7. Below'[low] = Below[low]
      BY <1>1, <3>6
    <3> QED
      BY <3>3, <3>4, <3>5, <3>7
  <2>4. CASE ~\E m \in 0 .. n - Footer : buffer[n - Footer] = Foot(m)
    <3>1. Below[n] = <<>>
      BY <2>2, <2>4, BelowUnrolls DEF Unrolled
    <3>2. ~\E m \in 0 .. n - Footer : buffer'[n - Footer] = Foot(m)
      <4>1. CASE n = 0
        BY <4>1 DEF Footer
      <4>2. CASE n # 0
        <5>1. n - Footer \in 0 .. t - 1
          BY <2>1, <4>2 DEF Footer
        <5> QED
          BY <2>4, <5>1
      <4> QED
        BY <4>1, <4>2
    <3>3. Below'[n] = <<>>
      BY <2>2, <3>2, BelowUnrollsNext DEF Unrolled
    <3> QED
      BY <3>1, <3>3
  <2> QED
    BY <2>3, <2>4
<1> HIDE DEF U
<1>2. \A n \in Nat : n \in U
  BY <1>1, Descent
<1>3. t \in Nat /\ t \in 0 .. t
  OBVIOUS
<1> QED
  BY <1>2, <1>3 DEF U

\* A block with its footer adds its message to the contents below it.
LEMMA BelowBlock ==
  ASSUME NEW at \in Nat, NEW m \in Msgs, at + SizeOf[m] + 1 <= Cap,
         \A k \in 1 .. SizeOf[m] : buffer[at + k - 1] = Byte(m, k),
         buffer[at + SizeOf[m]] = Foot(SizeOf[m])
  PROVE  Below[at + SizeOf[m] + 1] = Append(Below[at], Decode(Bytes(m)))
<1> DEFINE n == SizeOf[m]
           i == at + n + 1
<1>1. n \in Nat
  BY Blocks
<1> HIDE DEF n
<1>2. buffer[i - Footer] = Foot(n) /\ i - Footer = at + n
  BY <1>1 DEF Footer, n
<1>3. buffer[i - Footer][2] = n
  BY <1>2 DEF Foot
<1>4. i - Footer - n = at /\ i \in 0 .. Cap /\ n \in 0 .. i - Footer
  <2>1. i <= Cap
    BY DEF n
  <2> QED
    BY <1>1, <1>2, <2>1, StackAssumption
<1>5. Below[i] = Append(Below[i - Footer - n],
                        Decode([k \in 1 .. n |-> buffer[i - Footer - n + k - 1]]))
  BY <1>2, <1>3, <1>4, BelowUnrolls DEF Unrolled
<1>6. Below[i] = Append(Below[at], Decode([k \in 1 .. n |-> buffer[at + k - 1]]))
  BY <1>4, <1>5
<1>7. [k \in 1 .. n |-> buffer[at + k - 1]] = Bytes(m)
  BY DEF Bytes, n
<1> QED
  BY <1>6, <1>7 DEF n

\* The contents below the end of a block end with its message.
LEMMA BelowEntry ==
  ASSUME Inv, NEW e \in entries
  PROVE  Below[End(e)] = Append(Below[e.at], Decode(Bytes(e.msg)))
<1>1. /\ e.at \in Nat /\ e.msg \in Msgs
      /\ End(e) = e.at + SizeOf[e.msg] + 1 /\ End(e) <= Cap
  BY EntryInside, StackAssumption
<1>2. /\ \A k \in 1 .. SizeOf[e.msg] : buffer[e.at + k - 1] = Byte(e.msg, k)
      /\ buffer[e.at + SizeOf[e.msg]] = Foot(SizeOf[e.msg])
  BY DEF Inv, Tiles
<1> QED
  BY <1>1, <1>2, BelowBlock

\* The contents are kept where the top is and nothing below it is written.
LEMMA ContentsKept ==
  ASSUME Inv, Top' = Top, \A j \in DOMAIN buffer : j < Top => buffer'[j] = buffer[j],
         UNCHANGED popped
  PROVE  UNCHANGED S!vars
<1>1. Top \in 0 .. Cap /\ DOMAIN buffer = 0 .. Cap
  BY StackAssumption DEF Inv, TypeOK, Top, Footer
<1>2. \A j \in 0 .. Top - 1 : buffer'[j] = buffer[j]
  BY <1>1, StackAssumption
<1>3. Below'[Top] = Below[Top]
  BY <1>1, <1>2, BelowKept
<1> QED
  BY <1>3 DEF S!vars, Contents

\* A whole message is read as a message.
LEMMA Whole == \A m \in Msgs : Decode(Bytes(m)) \in Msgs
BY DEF Decode

\* The message is on the stack from the last step of its push.
LEMMA WriterRefines == Inv /\ Writer => [S!Next]_(S!vars)
<1> SUFFICES ASSUME Inv, Writer PROVE [S!Next]_(S!vars)
  OBVIOUS
<1>1. ASSUME NEW m \in Msgs, PushCall(m) PROVE UNCHANGED S!vars
  <2>1. Top' = Top /\ buffer' = buffer /\ popped' = popped
    BY <1>1 DEF PushCall, Top, Pushing, reader
  <2> QED
    BY <2>1, ContentsKept
<1>2. CASE PushExchange
  <2>1. Top' = Top /\ buffer' = buffer /\ popped' = popped
    BY <1>2 DEF PushExchange, Top, Pushing, reader
  <2> QED
    BY <2>1, ContentsKept
<1>3. CASE PushCopy
  <2>1. Top' = wat /\ Top = wat /\ popped' = popped
    BY <1>3 DEF PushCopy, Top, Pushing, reader
  <2>2. \A j \in DOMAIN buffer : j < wat => buffer'[j] = buffer[j]
    BY <1>3, StackAssumption DEF PushCopy, Inv, TypeOK, Footer
  <2> QED
    BY <2>1, <2>2, ContentsKept
<1>4. CASE PushFooter
  <2>1. Top' = wat /\ Top = wat /\ popped' = popped
    BY <1>4 DEF PushFooter, Top, Pushing, reader
  <2>2. \A j \in DOMAIN buffer : j < wat => buffer'[j] = buffer[j]
    BY <1>4, StackAssumption, Blocks DEF PushFooter, Inv, TypeOK, Footer
  <2> QED
    BY <2>1, <2>2, ContentsKept
<1>5. CASE PushStore
  <2>1. wmsg \in Msgs /\ wat \in 0 .. Cap /\ SizeOf[wmsg] \in Nat /\ Block(wmsg) = SizeOf[wmsg] + 1
    BY Blocks DEF Inv, TypeOK
  <2>2. wat + SizeOf[wmsg] + 1 <= Cap
    BY <1>5, <2>1 DEF PushStore, Inv, WriterInv
  <2>3. Top = wat /\ Top' = wat + SizeOf[wmsg] + 1
    <3>1. Wrap(wat + Block(wmsg)) = wat + SizeOf[wmsg] + 1
      BY <2>1, <2>2, NoWrap
    <3> QED
      BY <1>5, <3>1 DEF PushStore, Top, Pushing
  <2>4. /\ \A k \in 1 .. SizeOf[wmsg] : buffer[wat + k - 1] = Byte(wmsg, k)
        /\ buffer[wat + SizeOf[wmsg]] = Foot(SizeOf[wmsg])
    BY <1>5 DEF PushStore, Inv, WriterInv
  <2>5. Below[wat + SizeOf[wmsg] + 1] = Append(Below[wat], Decode(Bytes(wmsg)))
    BY <2>1, <2>2, <2>4, BelowBlock
  <2>6. Below' = Below /\ popped' = popped
    BY <1>5 DEF PushStore, Below, reader
  <2>7. Contents' = Append(Contents, Decode(Bytes(wmsg)))
    BY <2>3, <2>5, <2>6 DEF Contents
  <2>8. S!Push(Decode(Bytes(wmsg)))
    BY <2>6, <2>7 DEF S!Push
  <2> QED
    BY <2>1, <2>8, Whole DEF S!Next
<1> QED
  BY <1>1, <1>2, <1>3, <1>4, <1>5 DEF Writer

\* The message leaves the stack when pop moves the index, and is the one that was on its
\* top, if the reader did not look too early.
LEMMA ReaderRefines ==
  Inv /\ Reader /\ Kept' => [TakenUnread \/ S!Next]_(S!vars)
<1> SUFFICES ASSUME Inv, Reader, Kept' PROVE [TakenUnread \/ S!Next]_(S!vars)
  OBVIOUS
<1>1. CASE TopLoad \/ TopFooter \/ CopyRange \/ PopFooter
  <2>1. Top' = Top /\ buffer' = buffer /\ popped' = popped
    BY <1>1 DEF TopLoad, TopFooter, CopyRange, PopFooter, Top, Pushing, writer
  <2> QED
    BY <2>1, ContentsKept
<1>2. CASE PopExchange /\ index # rat
  <2>1. Top' = Top /\ buffer' = buffer /\ popped' = popped
    BY <1>2 DEF PopExchange, Top, Pushing, writer
  <2> QED
    BY <2>1, ContentsKept
<1>3. CASE PopExchange /\ index = rat
  <2> DEFINE D(m) == Decode(Bytes(m))
  <2>1. PICK e \in entries : /\ End(e) = rat /\ rsize = SizeOf[e.msg]
                             /\ "range" \notin early => rdata = Bytes(e.msg)
    BY <1>3 DEF PopExchange, Inv, ReaderInv, Confirms, Kept
  <2>2. /\ e.at \in Nat /\ e.msg \in Msgs /\ SizeOf[e.msg] \in Nat
        /\ rat = e.at + SizeOf[e.msg] + 1 /\ rat \in 0 .. Cap
    BY <1>3, <2>1, EntryInside DEF Inv, TypeOK
  <2>3. rat - rsize - Footer = e.at /\ e.at \in 0 .. Cap
    BY <2>1, <2>2, StackAssumption DEF Footer
  <2>4. /\ index' = e.at /\ buffer' = buffer
        /\ "range" \notin early => popped' = <<D(e.msg)>>
    BY <1>3, <2>1, <2>3, NoWrap DEF PopExchange, Confirms
  <2>5. Top = rat /\ Top' = e.at
    <3>1. ~Pushing
      BY <1>3, <2>1, EntryFinished
    <3> QED
      BY <1>3, <2>4, <3>1 DEF PopExchange, Top, Pushing, writer
  <2>6. Below' = Below
    BY <2>4 DEF Below
  <2> HIDE DEF D
  <2>7. Contents = Append(Below[e.at], D(e.msg)) /\ Contents' = Below[e.at]
    BY <2>1, <2>5, <2>6, BelowEntry DEF Contents, D
  <2>8. Below[e.at] \in Seq(Msgs \cup {Torn}) /\ D(e.msg) \in Msgs \cup {Torn}
    BY <2>2, <2>3, BelowIsSeq, Whole DEF D
  <2> DEFINE s == Below[e.at]
             d == D(e.msg)
  <2> HIDE DEF s, d
  <2>9. s \in Seq(Msgs \cup {Torn}) /\ d \in Msgs \cup {Torn}
    BY <2>8 DEF s, d
  <2>10. /\ Append(s, d) # <<>>
         /\ Append(s, d)[Len(Append(s, d))] = d
         /\ SubSeq(Append(s, d), 1, Len(Append(s, d)) - 1) = s
    BY <2>9
  <2>11. S!Removal
    BY <2>7, <2>10 DEF S!Removal, s, d
  <2>12. CASE "range" \in early
    BY <1>3, <2>11, <2>12 DEF TakenUnread, PopExchange
  <2>13. CASE "range" \notin early
    <3>1. S!Pop
      BY <2>4, <2>7, <2>10, <2>11, <2>13 DEF S!Pop, s, d
    <3> QED
      BY <3>1 DEF S!Next
  <2> QED
    BY <2>12, <2>13
<1> QED
  BY <1>1, <1>2, <1>3 DEF Reader

\* The messages that the footers lead to behave as a stack, whichever client moves when:
\* a push adds one message on top and a pop takes the top message away, and hands it out
\* whole if it was written when the reader looked; until a pop goes by a size that was not.
THEOREM StackRefined == Spec => ImplementsStack
<1>1. Init => S!Init
  <2>1. ASSUME Init PROVE Contents = <<>> /\ popped = <<>>
    <3>1. Top = 0
      BY <2>1 DEF Init, Top, Pushing
    <3>2. ~\E n \in 0 .. 0 - Footer : buffer[0 - Footer] = Foot(n)
      BY DEF Footer
    <3>3. 0 \in 0 .. Cap
      BY StackAssumption
    <3>4. Below[0] = <<>>
      BY <3>2, <3>3, BelowUnrolls DEF Unrolled
    <3> QED
      BY <2>1, <3>1, <3>4 DEF Init, Contents
  <2> QED
    BY <2>1 DEF S!Init
<1>2. (Kept => Inv) /\ [Next]_vars => [~Kept' \/ TakenUnread \/ S!Next]_(S!vars)
  <2> SUFFICES ASSUME Kept => Inv, [Next]_vars, Kept'
               PROVE  [TakenUnread \/ S!Next]_(S!vars)
    OBVIOUS
  <2>1. Inv
    BY KeptBefore
  <2>2. UNCHANGED vars => UNCHANGED S!vars
    BY <2>1, ContentsKept DEF vars, writer, reader, Top, Pushing
  <2> QED
    BY <2>1, <2>2, WriterRefines, ReaderRefines DEF Next
<1> QED
  BY <1>1, <1>2, Invariance, PTL DEF Spec, ImplementsStack
===============================================================================
