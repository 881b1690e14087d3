--------------------------- MODULE MemoryCommands ---------------------------
(***************************************************************************)
(* The handlers of the commands read, write and msgbox (source/            *)
(* commands.cpp), from the texts of their arguments to the answer: the     *)
(* numbers are unsigned words that wrap around, the data is Base64, and    *)
(* the memory is MEM1 of the console.  What becomes of the text of a       *)
(* message box is specified by MsgboxEvt.                                  *)
(***************************************************************************)
EXTENDS Strtoul, Base64, FiniteSets

CONSTANTS Half,          \* from here on a word is negative as an s32
          Lo, Hi,        \* first and last address of MEM1
          responseSize,  \* BUFSIZE of netmemoryaccess.h
          Requests,      \* the requests: op, at, size, data
          Payloads       \* the data of clients that encode it themselves

ASSUME MemoryAssumption ==
  /\ Half \in Nat /\ Word = 2 * Half
  /\ Lo \in Nat /\ Hi \in Nat /\ Lo <= Hi /\ Hi + 1 < Word
  /\ Hi - Lo < Half
  /\ responseSize \in Nat /\ responseSize < Half
  /\ Payloads \subseteq Seq(Byte)
  /\ \A r \in Requests :
       /\ r.op \in {"read", "write", "msgbox"}
       /\ r.at \in Seq(Int) /\ r.size \in Seq(Int)
       /\ r.data \in Seq(Digit \cup {Pad, Bad})
       /\ Len(r.data) + 1 < Half  \* a request fits in recvBuff

Junk    == -1  \* memory from the heap that nobody has written yet
Outside == -2  \* what an address outside of MEM1 reads as
MEM1    == Lo .. Hi

VARIABLES
  pc,      \* idle, decode, use, done; crashed
  request, \* the arguments
  memory,  \* the contents of MEM1
  buffer,  \* decodedData or msgboxText
  overrun, \* how many bytes Base64decode has stored behind it
  answer,  \* none, error, or ok
  bytes    \* the bytes of an answer that is ok

vars == <<pc, request, memory, buffer, overrun, answer, bytes>>

NoRequest == [op |-> "none", at |-> <<>>, size |-> <<>>, data |-> <<>>]

\* The arguments' values: dest or ptr; size, decodedLen or msgboxTextLen.
Ptr  == strtoul(request.at, 16)
Size == strtoul(request.size, 10)

\* The sum of two words.
Plus32(x, y) == (x + y) % Word

Negative(n) == n >= Half

isWithinMem1Range(ptr) == Lo <= ptr /\ ptr <= Hi

Init ==
  /\ pc = "idle"
  /\ request = NoRequest
  /\ memory = [a \in MEM1 |-> 0]
  /\ buffer = <<>>
  /\ overrun = 0
  /\ answer = "none"
  /\ bytes = <<>>

\* CommandManager calls the handler of r.op.
Request(r) ==
  /\ pc = "idle"
  /\ request' = r
  /\ pc' = r.op
  /\ UNCHANGED <<memory, buffer, overrun, answer, bytes>>

Answer(a, b) == answer' = a /\ bytes' = b /\ pc' = "done"

\* The definitions named Wrong... are the code with a plausible mistake; no
\* action uses them, the properties are tested against them.
WrongRead ==  \* the end of the range is not looked at
  /\ pc = "read"
  /\ IF Size > responseSize \/ Ptr < Lo \/ Ptr > Hi
     THEN Answer("error", <<>>)
     ELSE Answer("ok", [i \in 1 .. Size |->
                          LET a == Plus32(Ptr, i - 1)
                          IN  IF a \in MEM1 THEN memory[a] ELSE Outside])
  /\ UNCHANGED <<request, memory, buffer, overrun>>

\* read: the two tests, then the memcpy to the response.
Read ==
  /\ pc = "read"
  /\ IF Size > responseSize \/ Ptr < Lo \/ Plus32(Ptr, Size) > Hi
     THEN Answer("error", <<>>)
     ELSE Answer("ok", [i \in 1 .. Size |->
                          LET a == Plus32(Ptr, i - 1)
                          IN  IF a \in MEM1 THEN memory[a] ELSE Outside])
  /\ UNCHANGED <<request, memory, buffer, overrun>>

\* new char[n]: the main heap has no room for what was a negative number.
Allocate(n) ==
  IF Negative(n) THEN pc' = "crashed" /\ UNCHANGED buffer
  ELSE pc' = "decode" /\ buffer' = [i \in 1 .. n |-> Junk]

\* The tests of a text and its length.
Valid == Negative(Size) \/ isValidBase64(request.data, Size)

WrongWrite ==  \* the end of the range is not looked at
  /\ pc = "write"
  /\ IF Valid /\ isWithinMem1Range(Ptr)
     THEN Allocate(Size) /\ UNCHANGED <<answer, bytes>>
     ELSE Answer("error", <<>>) /\ UNCHANGED buffer
  /\ UNCHANGED <<request, memory, overrun>>

\* write, up to the allocation of decodedData.
Write ==
  /\ pc = "write"
  /\ IF Valid /\ isWithinMem1Range(Ptr) /\ isWithinMem1Range(Plus32(Ptr, Size))
     THEN Allocate(Size) /\ UNCHANGED <<answer, bytes>>
     ELSE Answer("error", <<>>) /\ UNCHANGED buffer
  /\ UNCHANGED <<request, memory, overrun>>

WrongMsgbox ==  \* no room for the terminator
  /\ pc = "msgbox"
  /\ IF Valid THEN Allocate(Size) /\ UNCHANGED <<answer, bytes>>
     ELSE Answer("error", <<>>) /\ UNCHANGED buffer
  /\ UNCHANGED <<request, memory, overrun>>

\* msgbox, up to the allocation of msgboxText: one byte more than the text.
Msgbox ==
  /\ pc = "msgbox"
  /\ IF Valid THEN Allocate(Plus32(Size, 1)) /\ UNCHANGED <<answer, bytes>>
     ELSE Answer("error", <<>>) /\ UNCHANGED buffer
  /\ UNCHANGED <<request, memory, overrun>>

\* Base64decode stores what the text encodes and a terminator, whatever the
\* size of the buffer.
Decode ==
  /\ pc = "decode"
  /\ LET stored == Append(Base64decode(request.data), 0)
     IN  /\ buffer' = [i \in 1 .. Len(buffer) |->
                         IF i <= Len(stored) THEN stored[i] ELSE buffer[i]]
         /\ overrun' = IF Len(stored) > Len(buffer) THEN Len(stored) - Len(buffer) ELSE 0
  /\ pc' = "use"
  /\ UNCHANGED <<request, memory, answer, bytes>>

WrongCopy ==  \* the terminator is copied too
  /\ pc = "use" /\ request.op = "write"
  /\ memory' = [a \in MEM1 |->
                  IF a \in Ptr .. Ptr + Size - 1 THEN buffer[a - Ptr + 1]
                  ELSE IF a = Ptr + Size THEN 0 ELSE memory[a]]
  /\ buffer' = <<>>
  /\ Answer("ok", <<Size>>)
  /\ UNCHANGED <<request, overrun>>

\* write: memcpy to MEM1, delete[], the number of bytes for an answer.
Copy ==
  /\ pc = "use" /\ request.op = "write"
  /\ memory' = [a \in MEM1 |->
                  IF a \in Ptr .. Ptr + Size - 1 THEN buffer[a - Ptr + 1] ELSE memory[a]]
  /\ buffer' = <<>>
  /\ Answer("ok", <<Size>>)
  /\ UNCHANGED <<request, overrun>>

\* msgbox: the text is terminated; the script gets it.  (For the length -1 the
\* terminator falls in front of the buffer.)
Terminate ==
  /\ pc = "use" /\ request.op = "msgbox"
  /\ buffer' = [i \in 1 .. Len(buffer) |-> IF i = Size + 1 THEN 0 ELSE buffer[i]]
  /\ Answer("ok", <<Size>>)
  /\ UNCHANGED <<request, memory, overrun>>

\* The handler returns.
Return ==
  /\ pc = "done"
  /\ request' = NoRequest
  /\ buffer' = <<>>
  /\ overrun' = 0
  /\ answer' = "none"
  /\ bytes' = <<>>
  /\ pc' = "idle"
  /\ UNCHANGED memory

Next == \/ \E r \in Requests : Request(r)
        \/ Read \/ Write \/ Msgbox \/ Decode \/ Copy \/ Terminate \/ Return

Spec == Init /\ [][Next]_vars

-----------------------------------------------------------------------------
(* Properties.                                                             *)

\* The shape of every variable.
TypeOK ==
  /\ pc \in {"idle", "read", "write", "msgbox", "decode", "use", "done", "crashed"}
  /\ request \in Requests \cup {NoRequest}
  /\ memory \in [MEM1 -> Byte \cup {Junk}]
  /\ buffer \in Seq(Byte \cup {Junk})
  /\ overrun \in Nat
  /\ answer \in {"none", "error", "ok"}
  /\ bytes \in Seq(Byte \cup {Junk, Outside} \cup 0 .. Word - 1)

\* The commands read their numbers right, in hexadecimal or decimal, with or
\* without prefix and sign, and find those that are too large for a word.
NumbersRead == /\ Ptr = Denoted(request.at, 16)
               /\ Size = Denoted(request.size, 10)

\* The request carries the data d, encoded, and says how long it is, as
\* netmemoryaccess_client.py does.
Honest(d) == request.data = Base64encode(d) /\ Size = Len(d)

\* README.md:23: an accepted write puts the data at its address, every byte in
\* its place, and touches nothing else.
WritesTheData ==
  [][pc = "use" /\ request.op = "write" =>
       \A d \in Payloads : Honest(d) =>
         \A a \in MEM1 : memory'[a] = IF a \in Ptr .. Ptr + Len(d) - 1
                                      THEN d[a - Ptr + 1] ELSE memory[a]]_vars

\* No write, whatever its numbers, stores behind the end of MEM1: commands.cpp
\* line 38 tells such a request that it is outside of the range.
WritesWithinMem1 ==
  pc \in {"decode", "use"} /\ request.op = "write" => Ptr .. Ptr + Size - 1 \subseteq MEM1

\* The range of a read ends behind the address space: its end, ptr + size, wraps
\* around and passes the test of line 21 as a small number.
Wraps == Ptr + Size >= Word

\* README.md:18: a read answers with the bytes at the specified address, as many
\* as were asked for, and only from MEM1.  A range that wraps around is left out
\* by name: the answer then has bytes that are not of MEM1, although
\* commands.cpp:22 says that such a range is refused.
ReadsRightUnlessWrapped ==
  answer = "ok" /\ request.op = "read" /\ ~Wraps =>
    /\ Len(bytes) = Size
    /\ Ptr .. Ptr + Size - 1 \subseteq MEM1
    /\ \A i \in 1 .. Size : bytes[i] = memory[Ptr + i - 1]

\* The text of a message box is what the client sent, terminated, and it fits.
TextIsData ==
  answer = "ok" /\ request.op = "msgbox" =>
    \A d \in Payloads : Honest(d) => buffer = Append(d, 0) /\ overrun = 0

\* So whoever gets an answer has read or shown what was asked for.
AnswersRight == ReadsRightUnlessWrapped /\ TextIsData

\* Base64decode stores a terminator that write leaves no room for (line 42): for
\* data of the length the client says, that byte and no other falls behind
\* decodedData.  A length that is negative as an s32 passes isValidBase64, which
\* looks at no character then; it never gets as far as the decoding, because no
\* heap has room for it, but for the -1 of msgbox, whose buffer is empty.  No
\* other length makes the allocation fail.
DecodesIntoItsBuffer ==
  /\ pc = "use" => \A d \in Payloads : Honest(d) => overrun = IF request.op = "write" THEN 1 ELSE 0
  /\ pc \in {"decode", "use"} /\ Negative(Size) => request.op = "msgbox" /\ Size = Word - 1
  /\ pc = "crashed" => Negative(Size)
=============================================================================
