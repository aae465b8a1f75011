------------------------------- MODULE Buffer -------------------------------
(***************************************************************************)
(* buffer of code/buffer/buffer.cpp as a value: the size of its vector,    *)
(* its read position and its readable bytes.  The write position is where  *)
(* these end.  The operations that change the buffer are operators from a  *)
(* buffer to a buffer; one unit stands for a run of bytes.                 *)
(***************************************************************************)
EXTENDS Integers, Sequences

CONSTANTS
  InitSize,     \* init_buffer_size
  StackSize     \* the size of the array on the stack of read_fd

ASSUME BufferAssumption == InitSize \in Nat \ {0} /\ StackSize \in Nat \ {0}

NewBuffer == [size |-> InitSize, read |-> 0, data |-> <<>>]

WritePos(b) == b.read + Len(b.data)
Writable(b) == b.size - WritePos(b)
Prependable(b) == b.read

(* retrieve, whose assertion is n <= Len(b.data), and retrieve_all. *)
Retrieve(b, n) ==
  [b EXCEPT !.read = @ + n, !.data = SubSeq(@, n + 1, Len(@))]
RetrieveAll(b) == [b EXCEPT !.read = 0, !.data = <<>>]

(* Faulty variant: moving the bytes is taken to be enough. *)
MoveOnly(b, n) == [b EXCEPT !.read = 0]

(* make_space_: grow, or move the readable bytes to the front. *)
MakeSpace(b, n) ==
  IF Writable(b) + Prependable(b) < n
    THEN [b EXCEPT !.size = WritePos(b) + n + 1]
    ELSE [b EXCEPT !.read = 0]

EnsureWritable(b, n) == IF Writable(b) < n THEN MakeSpace(b, n) ELSE b

AppendTo(b, s) == [EnsureWritable(b, Len(s)) EXCEPT !.data = @ \o s]
-----------------------------------------------------------------------------
(* read_fd, when readv has returned the bytes s: what does not fit is in   *)
(* the array on the stack.                                                 *)

MostRead(b) == Writable(b) + StackSize
Spills(b, s) == Len(s) > Writable(b)

(* write_pos_ = buffer_.size() *)
Filled(b, s) == [b EXCEPT !.data = @ \o SubSeq(s, 1, Writable(b))]

(* append(buff, len - write_pos_), with the write position just assigned.  *)
ReadFd(b, s) ==
  IF ~Spills(b, s)
    THEN [b EXCEPT !.data = @ \o s]
    ELSE LET fits == Writable(b)
         IN AppendTo(Filled(b, s),
                     SubSeq(s, fits + 1, fits + Len(s) - b.size))

(* len - write_pos_ is unsigned and wraps.  make_space_ then resizes to    *)
(* len + 1, and copying that many bytes is undefined: it ends the process, *)
(* or copies nothing, which leaves the bytes before position len.          *)
Wraps(b, s) == Spills(b, s) /\ Len(s) < b.size
CanShrink(b, s) == Wraps(b, s) /\ Len(s) + 1 < b.size /\ b.read <= Len(s)
Shrunk(b, s) ==
  [size |-> Len(s) + 1, read |-> b.read,
   data |-> SubSeq(Filled(b, s).data, 1, Len(s) - b.read)]

(* No byte is lost by this read: it fits, or the buffer had none so far.   *)
Keeps(b, s) == Len(s) <= Writable(b) \/ WritePos(b) = 0
=============================================================================
