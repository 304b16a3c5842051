------------------------------- MODULE Buffer -------------------------------
(***************************************************************************)
(* arale/net/Buffer.{h,cc}: bytes between two indexes of a vector, with    *)
(* room kept in front of them.  The operations that differ only in how     *)
(* they name or convert the bytes (appendIntN, readIntN, retrieveAsString, *)
(* retrieveUntil) are append, prepend and retrieve.                        *)
(*                                                                         *)
(* An assert that fails stops the program, and so does a write past the    *)
(* end of the vector.                                                      *)
(***************************************************************************)
EXTENDS Integers, Sequences

CONSTANTS
    Byte,
    kCheapPrependSize,
    kDefaultInitialSize,
    MaxLen,       \* bound: bytes in one operation
    MaxSize       \* bound: size of the vector

ASSUME ByteAssumption == 0 \in Byte      \* vector::resize fills with zeros
ASSUME SizesAssumption == /\ kCheapPrependSize \in Nat
                          /\ kDefaultInitialSize \in Nat
                          /\ MaxLen \in Nat /\ MaxSize \in Nat

VARIABLES
    size,         \* buffer_.size()
    buffer_,      \* its bytes, from index 0
    readIndex_, writeIndex_,
    content,      \* history: the bytes that were put in and not yet taken out
    failed        \* "no", or why the program stopped

bufferVars == <<size, buffer_, readIndex_, writeIndex_, content, failed>>

\* The variables have their types and the indexes are in order, inside the vector.
BufferTypeOK ==
    /\ size \in Nat
    /\ buffer_ \in [0..size - 1 -> Byte]
    /\ readIndex_ \in Nat
    /\ writeIndex_ \in Nat
    /\ readIndex_ <= writeIndex_
    /\ writeIndex_ <= size
    /\ kCheapPrependSize <= size
    /\ content \in Seq(Byte)
    /\ failed \in {"no", "ensureWritable", "overflow"}

BufferInit ==
    /\ size = kCheapPrependSize + kDefaultInitialSize
    /\ buffer_ = [i \in 0..size - 1 |-> 0]
    /\ readIndex_ = kCheapPrependSize
    /\ writeIndex_ = kCheapPrependSize
    /\ content = <<>>
    /\ failed = "no"

Running == failed = "no"

Data == UNION {[1..n -> Byte] : n \in 1..MaxLen}

-----------------------------------------------------------------------------
(* The three members together, as a value; "bytes" are indexed from 0.      *)

This == [size |-> size, bytes |-> buffer_, read |-> readIndex_, write |-> writeIndex_]

readableBytes(v) == v.write - v.read
writableBytes(v) == v.size - v.write

\* The readable bytes are copied to where a new buffer has them.
Moved(v) ==
    [v EXCEPT !.bytes = [i \in DOMAIN v.bytes |->
                  IF i \in kCheapPrependSize..(kCheapPrependSize + readableBytes(v) - 1)
                  THEN v.bytes[v.read + i - kCheapPrependSize] ELSE v.bytes[i]],
              !.read = kCheapPrependSize,
              !.write = kCheapPrependSize + readableBytes(v)]

Resized(v, len) ==
    [v EXCEPT !.size = v.write + len,
              !.bytes = [i \in 0..(v.write + len - 1) |->
                            IF i < v.size THEN v.bytes[i] ELSE 0]]

makeSpace(v, len) ==
    IF writableBytes(v) + kCheapPrependSize >= len THEN Moved(v) ELSE Resized(v, len)

ensureWritableBytes(v, len) == IF writableBytes(v) < len THEN makeSpace(v, len) ELSE v

\* The bytes of v with data from index w on.
Put(v, w, data) ==
    [i \in DOMAIN v.bytes |->
        IF i \in w..(w + Len(data) - 1) THEN data[i - w + 1] ELSE v.bytes[i]]

-----------------------------------------------------------------------------
(* Operations                                                              *)

Stop(why) == failed' = why /\ UNCHANGED <<size, buffer_, readIndex_, writeIndex_, content>>

\* append to v: ensureWritableBytes with its assert, the copy, hasWritten.  Moving
\* bytes that prepend has put below kCheapPrependSize may run over the end.
AppendTo(v, data, all) ==
    LET s == ensureWritableBytes(v, Len(data))
    IN \/ s.write > s.size /\ Stop("overflow")
       \/ s.write <= s.size /\ writableBytes(s) < Len(data) /\ Stop("ensureWritable")
       \/ /\ s.write <= s.size /\ writableBytes(s) >= Len(data)
          /\ s.size <= MaxSize
          /\ size' = s.size
          /\ buffer_' = Put(s, s.write, data)
          /\ readIndex_' = s.read
          /\ writeIndex_' = s.write + Len(data)
          /\ content' = content \o all
          /\ UNCHANGED failed

append(data) == Running /\ AppendTo(This, data, data)

\* readFd: readv fills the writable bytes and then a local array, which is appended.
readFd(data) ==
    /\ Running
    /\ LET n == writableBytes(This)
       IN IF Len(data) <= n
          THEN AppendTo(This, data, data)
          ELSE AppendTo([This EXCEPT !.bytes = Put(This, writeIndex_, SubSeq(data, 1, n)),
                                     !.write = size],
                        SubSeq(data, n + 1, Len(data)), data)

\* Mutant of retrieve: reading everything does not reset the indexes together.
retrieveHalfReset(len) ==
    /\ Running
    /\ len <= readableBytes(This)
    /\ IF len < readableBytes(This)
       THEN readIndex_' = readIndex_ + len /\ UNCHANGED writeIndex_
       ELSE readIndex_' = kCheapPrependSize /\ UNCHANGED writeIndex_
    /\ content' = SubSeq(content, len + 1, Len(content))
    /\ UNCHANGED <<size, buffer_, failed>>

\* retrieve, and retrieveAll when it takes everything.
retrieve(len) ==
    /\ Running
    /\ len <= readableBytes(This)
    /\ IF len < readableBytes(This)
       THEN readIndex_' = readIndex_ + len /\ UNCHANGED writeIndex_
       ELSE readIndex_' = kCheapPrependSize /\ writeIndex_' = kCheapPrependSize
    /\ content' = SubSeq(content, len + 1, Len(content))
    /\ UNCHANGED <<size, buffer_, failed>>

\* prepend: the caller keeps to prependableSize, which is asserted.
prepend(data) ==
    /\ Running
    /\ Len(data) <= readIndex_
    /\ readIndex_' = readIndex_ - Len(data)
    /\ buffer_' = Put(This, readIndex_', data)
    /\ content' = data \o content
    /\ UNCHANGED <<size, writeIndex_, failed>>

BufferNext ==
    \/ \E data \in Data : append(data) \/ readFd(data) \/ prepend(data)
    \/ \E len \in 0..size : retrieve(len)

BufferSpec == BufferInit /\ [][BufferNext]_bufferVars

-----------------------------------------------------------------------------
(* Properties                                                              *)

\* append, readFd, prepend, retrieve and makeSpace: what can be read is what was
\* put in and not taken out, in order, wherever makeSpace has moved it.
ReadsBack ==
    /\ BufferTypeOK
    /\ content = [i \in 1..readableBytes(This) |-> buffer_[readIndex_ + i - 1]]
=============================================================================
