----------------------------- MODULE StackBuffer -----------------------------
(***************************************************************************)
(* interprocess/stack_buffer.h: a buffer in shared memory into which one   *)
(* process pushes messages of different sizes and from which another pops  *)
(* the latest.  A message is followed by a footer that holds its size, and *)
(* the atomic stack_index_ is the end of the last footer.  push reserves   *)
(* its block by moving the index, and writes the block after that.         *)
(*                                                                         *)
(* Each atomic access and each copy is a step.  The clients are those of   *)
(* the unit test: the writer repeats a push until it succeeds, the reader  *)
(* calls top, copies the range it got and confirms it with pop.  Memory is *)
(* sequentially consistent.                                                *)
(***************************************************************************)
EXTENDS Integers, Sequences

CONSTANTS
  Cap,       \* buffer_size
  IndexMod,  \* the number of values of std::size_t
  Msgs,      \* the messages the writer has to send
  SizeOf     \* their sizes

ASSUME StackAssumption ==
  /\ Cap \in Nat /\ IndexMod \in Nat /\ IndexMod > 3 * Cap + 3
  /\ SizeOf \in [Msgs -> Nat] /\ \A m \in Msgs : SizeOf[m] < IndexMod - Cap - 1

\* sizeof(footer_data_t), the unit of the model.
Footer == 1

VARIABLES
  index,    \* stack_index_
  buffer,   \* buffer_
  wpc, wmsg, wat,      \* the writer: its place, its message, the index it loaded
  status,              \* the result of its last push
  rpc, rat, rsize,     \* the reader: its place, the index of top, the size read
  rdata,               \* what it has copied
  todo,     \* the messages not yet sent
  popped,   \* what the last successful pop confirmed, as a sequence of messages
  entries,  \* history: the messages in the buffer and where each begins
  early,    \* history: what the reader has taken from a block not yet written
  spoilt    \* history: what of that its pops have confirmed

writer == <<wpc, wmsg, wat, status, todo>>
reader == <<rpc, rat, rsize, rdata, popped, early, spoilt>>
vars == <<index, buffer, writer, reader, entries>>

\* Sums and differences of two std::size_t.
Wrap(n) == IF n < 0 THEN n + IndexMod ELSE IF n >= IndexMod THEN n - IndexMod ELSE n

\* The k-th byte of message m, and a footer.
Byte(m, k) == <<"byte", m, k>>
Foot(n) == <<"footer", n>>

Block(m) == SizeOf[m] + Footer
End(e) == e.at + Block(e.msg)

\* The size a reader finds in the footer below index i; where there is no footer,
\* whatever the bytes say.
FooterAt(i) ==
  IF i - Footer \in DOMAIN buffer /\ buffer[i - Footer][1] = "footer"
    THEN {buffer[i - Footer][2]}
    ELSE 0 .. Cap + 1

\* The bytes of a whole message are that message; anything else is torn.
Torn == "torn"
Bytes(m) == [k \in 1 .. SizeOf[m] |-> Byte(m, k)]
Decode(s) == IF \E m \in Msgs : s = Bytes(m) THEN CHOOSE m \in Msgs : s = Bytes(m) ELSE Torn

Init ==
  /\ index = 0
  /\ buffer = [i \in 0 .. Cap + Footer - 1 |-> Foot(0)]  \* zeroes
  /\ wpc = "idle" /\ wmsg \in Msgs /\ wat = 0 /\ status = "none"
  /\ rpc = "idle" /\ rat = 0 /\ rsize = 0 /\ rdata = <<>>
  /\ todo = Msgs /\ popped = <<>> /\ entries = {}
  /\ early = {} /\ spoilt = {}

-------------------------------------------------------------------------------
(* push *)

\* The index is loaded and the free space is looked at.  A message that can never
\* fit is given up by the client, another one is tried again.
PushCall(m) ==
  /\ wpc = "idle" /\ m \in todo
  /\ wmsg' = m /\ wat' = index
  /\ IF Block(m) > Wrap(Cap - index)
       THEN /\ status' = IF SizeOf[m] > Cap THEN "logic_error" ELSE "no_space"
            /\ todo' = IF SizeOf[m] > Cap THEN todo \ {m} ELSE todo
            /\ UNCHANGED wpc
       ELSE /\ wpc' = "exchange"
            /\ UNCHANGED <<status, todo>>
  /\ UNCHANGED <<index, buffer, reader, entries>>

\* A faulty reservation, which stores the index without comparing it.
PushExchangeBlind ==
  /\ wpc = "exchange"
  /\ index' = Wrap(wat + Block(wmsg)) /\ wpc' = "copy"
  /\ UNCHANGED <<buffer, wmsg, wat, status, todo, reader, entries>>

\* compare_exchange_strong(stack_index, next_index)
PushExchange ==
  /\ wpc = "exchange"
  /\ \/ /\ index = wat
        /\ index' = Wrap(wat + Block(wmsg))
        /\ wpc' = "copy" /\ UNCHANGED status
     \/ /\ index # wat
        /\ wpc' = "idle" /\ status' = "stack_changed" /\ UNCHANGED index
  /\ UNCHANGED <<buffer, wmsg, wat, todo, reader, entries>>

PushCopy ==
  /\ wpc = "copy" /\ wpc' = "footer"
  /\ buffer' = [i \in DOMAIN buffer |->
                  IF i \in wat .. wat + SizeOf[wmsg] - 1 THEN Byte(wmsg, i - wat + 1)
                                                         ELSE buffer[i]]
  /\ UNCHANGED <<index, wmsg, wat, status, todo, reader, entries>>

\* A faulty footer, which counts itself.
PushFooterBlock ==
  /\ wpc = "footer" /\ wpc' = "store"
  /\ buffer' = [i \in DOMAIN buffer |->
                  IF i = wat + SizeOf[wmsg] THEN Foot(Block(wmsg)) ELSE buffer[i]]
  /\ UNCHANGED <<index, wmsg, wat, status, todo, reader, entries>>

PushFooter ==
  /\ wpc = "footer" /\ wpc' = "store"
  /\ buffer' = [i \in DOMAIN buffer |->
                  IF i = wat + SizeOf[wmsg] THEN Foot(SizeOf[wmsg]) ELSE buffer[i]]
  /\ UNCHANGED <<index, wmsg, wat, status, todo, reader, entries>>

\* The index is stored once more, whatever it is by now.
PushStore ==
  /\ wpc = "store" /\ wpc' = "idle"
  /\ index' = Wrap(wat + Block(wmsg))
  /\ status' = "succeed"
  /\ todo' = todo \ {wmsg}
  /\ entries' = entries \cup {[at |-> wat, msg |-> wmsg]}
  /\ UNCHANGED <<buffer, wmsg, wat, reader>>

Writer == \/ \E m \in Msgs : PushCall(m)
          \/ PushExchange \/ PushCopy \/ PushFooter \/ PushStore

-------------------------------------------------------------------------------
(* top and pop *)

\* From the exchange of a push to its last store.
Pushing == wpc \in {"copy", "footer", "store"}

\* Index i has been published, and its block is still being written.
Unfinished(i) == Pushing /\ i > wat

Takes(what) == early' = IF Unfinished(rat) THEN early \cup {what} ELSE early

\* top of a stack that is not empty: the index is loaded.
TopLoad ==
  /\ rpc = "idle" /\ index # 0
  /\ rpc' = "top" /\ rat' = index
  /\ UNCHANGED <<index, buffer, writer, rsize, rdata, popped, entries, early, spoilt>>

\* top reads the footer and returns the range below it.
TopFooter ==
  /\ rpc = "top" /\ rpc' = "copy"
  /\ \E n \in FooterAt(rat) : rsize' = n
  /\ Takes("range")
  /\ UNCHANGED <<index, buffer, writer, rat, rdata, popped, entries, spoilt>>

\* The client copies the range.
CopyRange ==
  /\ rpc = "copy" /\ rpc' = "pop"
  /\ rdata' = [k \in 1 .. rsize |->
                 IF rat - Footer - rsize + k - 1 \in DOMAIN buffer
                   THEN buffer[rat - Footer - rsize + k - 1] ELSE Foot(0)]
  /\ Takes("range")
  /\ UNCHANGED <<index, buffer, writer, rat, rsize, popped, entries, spoilt>>

\* pop reads the footer again.
PopFooter ==
  /\ rpc = "pop" /\ rpc' = "exchange"
  /\ \E n \in FooterAt(rat) : rsize' = n
  /\ Takes("size")
  /\ UNCHANGED <<index, buffer, writer, rat, rdata, popped, entries, spoilt>>

\* What an exchange of the reader makes of the buffer.
Confirms ==
  /\ index' = Wrap(rat - rsize - Footer)
  /\ popped' = <<Decode(rdata)>>
  /\ entries' = {e \in entries : End(e) # rat}
  /\ spoilt' = spoilt \cup early \cup (IF Unfinished(rat) THEN {"size"} ELSE {})

\* A faulty pop, which does not confirm that the stack is unchanged.
PopExchangeBlind ==
  /\ rpc = "exchange" /\ rpc' = "idle"
  /\ Confirms
  /\ rat' = 0 /\ rsize' = 0 /\ rdata' = <<>> /\ early' = {}
  /\ UNCHANGED <<buffer, writer>>

\* compare_exchange_strong(stack_during_copy_top, next_index)
PopExchange ==
  /\ rpc = "exchange" /\ rpc' = "idle"
  /\ \/ index = rat /\ Confirms
     \/ index # rat /\ UNCHANGED <<index, popped, entries, spoilt>>
  /\ rat' = 0 /\ rsize' = 0 /\ rdata' = <<>> /\ early' = {}
  /\ UNCHANGED <<buffer, writer>>

Reader == TopLoad \/ TopFooter \/ CopyRange \/ PopFooter \/ PopExchange

Next == Writer \/ Reader

Spec == Init /\ [][Next]_vars

\* Both processes are scheduled and repeat what failed.
FairSpec == Spec /\ WF_vars(Writer) /\ WF_vars(Reader)

-------------------------------------------------------------------------------
\* The index below which the stack is complete.
Top == IF Pushing THEN wat ELSE index

\* No pop has moved the index by a size that it read too early, nor under a push.
Kept == "size" \notin spoilt

\* What holds while Kept does: the index and the places of both clients stay inside
\* the buffer.
TypeOK ==
  /\ index \in 0 .. Cap
  /\ DOMAIN buffer = 0 .. Cap + Footer - 1
  /\ wpc \in {"idle", "exchange", "copy", "footer", "store"}
  /\ rpc \in {"idle", "top", "copy", "pop", "exchange"}
  /\ wmsg \in Msgs /\ wat \in 0 .. Cap /\ rat \in 0 .. Cap
  /\ early = {} => rsize \in 0 .. Cap
  /\ early \subseteq {"range", "size"} /\ spoilt \subseteq {"range"}
  /\ todo \subseteq Msgs
  /\ status \in {"none", "logic_error", "no_space", "stack_changed", "succeed"}

\* The blocks in the buffer tile it from its start to the index without a gap,
\* and each still holds its message and the footer that leads to it.
Tiles ==
  /\ Top = 0 \/ \E e \in entries : End(e) = Top
  /\ \A e \in entries :
       /\ e.at = 0 \/ \E f \in entries : End(f) = e.at
       /\ End(e) <= Top
       /\ \A k \in 1 .. SizeOf[e.msg] : buffer[e.at + k - 1] = Byte(e.msg, k)
       /\ buffer[e.at + SizeOf[e.msg]] = Foot(SizeOf[e.msg])
  /\ \A e, f \in entries : e = f \/ End(e) <= f.at \/ End(f) <= e.at

\* Whenever the reader looks, and also when it copies a range that is not written
\* yet, the blocks stay in order: only a pop that reads its size from a block under a
\* push, or moves the index under one, can bring them out of it.
Tiled == Kept => Tiles

\* What a pop would confirm of a stack in order, whose index it finds as top saw it.
Confirmable(e) == End(e) = index /\ index - rsize - Footer = e.at

\* A pop that is about to succeed, and has read its size from a block that is written,
\* with no push about it, removes exactly the block on the top of the stack; and
\* if the range was written, too, when the reader looked, what the reader has
\* got is the whole message of that block, whatever was pushed in between.
PopReturnsTop ==
  Kept /\ rpc = "exchange" /\ index = rat /\ "size" \notin early /\ ~Pushing =>
    \E e \in entries : Confirmable(e) /\ ("range" \notin early => rdata = Bytes(e.msg))

\* "top operation is lock free and is confirmed by pop": what a pop is about to
\* confirm is the message on the top of the stack.
PopConfirms ==
  rpc = "exchange" /\ index = rat =>
    \E e \in entries : Confirmable(e) /\ rdata = Bytes(e.msg)

\* The messages in the buffer below index i, read as a reader would, by following
\* the footers downwards; none where there is no footer that leads into the buffer.
Below[i \in 0 .. Cap] ==
  IF \E n \in 0 .. i - Footer : buffer[i - Footer] = Foot(n)
    THEN LET n == buffer[i - Footer][2]
         IN  Append(Below[i - Footer - n],
                    Decode([k \in 1 .. n |-> buffer[i - Footer - n + k - 1]]))
    ELSE <<>>

Contents == Below[Top]

S == INSTANCE Stack WITH stack <- Contents

\* A pop that takes the message on the top away while the reader has got another
\* range, which was not written yet when it looked.
TakenUnread ==
  rpc = "exchange" /\ "range" \in early /\ S!Removal

\* The buffer is a stack, whenever either client moves, until a pop has moved the
\* index by a size read too early or under a push; and up to then the stack itself
\* is right even when the reader was given a range too early.
ImplementsStack == S!Init /\ [][~Kept' \/ TakenUnread \/ S!Next]_(S!vars)

\* Every message that fits is received, though pushes and pops disturb each other,
\* unless a pop confirms what was not written when the reader looked.
Delivered ==
  \A m \in {n \in Msgs : Block(n) <= Cap} : <>(popped = <<m>> \/ spoilt # {})

===============================================================================
