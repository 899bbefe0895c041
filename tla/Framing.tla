------------------------------ MODULE Framing ------------------------------
(***************************************************************************)
(* How the bytes of standard input become actions: the handler thread      *)
(* reads a line, or as much of it as its buffer holds, appends it to what  *)
(* is left over and cuts at each boundary.  A message is a sequence of     *)
(* bytes; the boundary begins and ends with the same byte, as the one of   *)
(* the code does with two.                                                 *)
(***************************************************************************)
EXTENDS Naturals, Sequences, SequencesExt

CONSTANTS
  kSocketBoundary,
  Newline

-----------------------------------------------------------------------------
(* Client::ProcessChunk. *)

Found(acc) ==
  {p \in 1..(Len(acc) - Len(kSocketBoundary) + 1) :
     SubSeq(acc, p, p + Len(kSocketBoundary) - 1) = kSocketBoundary}

\* One turn of the loop; an empty action is skipped.
Cut(s) ==
  IF Found(s.acc) = {} THEN s
  ELSE LET pos == CHOOSE p \in Found(s.acc) : \A q \in Found(s.acc) : p <= q
           raw == SubSeq(s.acc, 1, pos - 1)
       IN  [s EXCEPT !.acc = SubSeq(@, pos + Len(kSocketBoundary), Len(@)),
                     !.actions = IF raw = <<>> THEN @ ELSE Append(@, raw)]

ProcessChunk_Overwrites(s, chunk) ==
  LET loop[i \in 0..Len(chunk)] ==
        IF i = 0 THEN [s EXCEPT !.acc = chunk] ELSE Cut(loop[i - 1])
  IN  loop[Len(chunk)]

ProcessChunk(s, chunk) ==
  LET n == Len(s.acc) + Len(chunk)
      loop[i \in 0..n] ==
        IF i = 0 THEN [s EXCEPT !.acc = @ \o chunk] ELSE Cut(loop[i - 1])
  IN  loop[n]

-----------------------------------------------------------------------------
(* APIServer::ThreadRun, once for each chunk. *)

\* istream::getline with a buffer of that size: it stores one byte less, and
\* takes the end of the line it reaches without storing it.
GetLine(input, size) ==
  LET ends == {i \in 1..Len(input) : input[i] = Newline /\ i <= size}
      end == CHOOSE i \in ends : \A j \in ends : i <= j
      n == IF Len(input) < size THEN Len(input) ELSE size - 1
  IN  IF ends # {} THEN [chunk |-> SubSeq(input, 1, end - 1),
                         rest |-> SubSeq(input, end + 1, Len(input))]
      ELSE [chunk |-> SubSeq(input, 1, n), rest |-> SubSeq(input, n + 1, Len(input))]

ThreadRun(s, size) ==
  LET line == GetLine(s.input, size) IN
  ProcessChunk([s EXCEPT !.input = line.rest], line.chunk)

\* The actions cut out of an input that has been read to its end.
Actions(input, size) ==
  LET run[i \in 0..Len(input)] ==
        IF i = 0 THEN [input |-> input, acc |-> <<>>, actions |-> <<>>]
        ELSE ThreadRun(run[i - 1], size)
  IN  run[Len(input)].actions

\* A message as both ends write it (SendReply, SendEvent, SendInvoke).
Encode(message) ==
  message \o <<Newline>> \o kSocketBoundary \o <<Newline>>

-----------------------------------------------------------------------------

Text(message) == SelectSeq(message, LAMBDA b : b # Newline)

\* Whatever the size of the buffer, wherever it cuts lines, boundaries and
\* messages, and whatever ends of line the messages contain: the actions are
\* the messages that were written, without their ends of line, in order.  A
\* message does not contain the boundary, and its last byte is none of it.
ActionsArrive(Bytes, final, MaxLength, Sizes) ==
  LET messages == {m \o <<final>> : m \in SeqOf(Bytes, MaxLength)}
      good == {m \in messages : Found(Text(m)) = {}}
  IN  \A m1 \in good, m2 \in good, size \in Sizes :
        Actions(Encode(m1) \o Encode(m2), size) = <<Text(m1), Text(m2)>>
=============================================================================
